----------------------- MODULE ClientBalancersProofs -----------------------
(***************************************************************************)
(* Proofs about the balancers of the clients, for any number of services,  *)
(* connections and calls, any attributes and any size of a word: that no   *)
(* client is given a connection to another service, and that no Pick gains *)
(* or loses weight.                                                        *)
(***************************************************************************)
EXTENDS ClientBalancers, HashRingProofs

Words == 0..(Word - 1)

NodeType == [weight : Words, cur : Words, eff : Words, group : Groups \cup {"none"}]

CallType ==
    [at : {"idle", "visit", "write", "sub", "call"}, cand : Seq(Ids), i : Nat, total : Words,
     sel : Ids \cup {<<>>}, was : Words]

(* A Pick is at one of its candidates, and has selected one from the start. *)
CallOK(c) ==
    /\ call[c].at \in {"visit", "write"} => call[c].i \in 1..Len(call[c].cand)
    /\ call[c].at # "idle" => call[c].sel \in Ids

(* Nodes are kept under the name of the service their connection goes to. *)
Named(u, s) == \A i \in DOMAIN s : Attr[s[i][1]].name = u

NamesOK ==
    /\ \A u \in Services : cache[u] # <<>> => Attr[cache[u][1]].name = u
    /\ build = NoBuild \/ (build.by \in Services /\ builds >= 1)
    /\ \A c \in build.todo : Attr[c].name = build.by
    /\ Named(build.by, build.nodes)
    /\ \A u \in Services : Named(u, picker[u])

WeightInv ==
    /\ kind \in Kinds /\ WeightTypeOK
    /\ \A c \in Calls : CallOK(c)
    /\ NamesOK

BuildType == [by : Services \cup {""}, todo : SUBSET Conns, nodes : Seq(Ids), seen : SUBSET Services]

LEMMA TypesOf ==
    ASSUME WeightTypeOK
    PROVE  /\ node \in [Ids -> NodeType] /\ call \in [Calls -> CallType]
           /\ Word \in Nat /\ Word >= 2 /\ 0 \in Words /\ 1 \in Words
           /\ picker \in [Services -> Seq(Ids)] /\ made \in Nat /\ MaxCalls \in Nat /\ made <= MaxCalls
           /\ builds \in Nat /\ builds <= MaxBuilds /\ MaxBuilds \in Nat
           /\ cache \in [Services -> Ids \cup {<<>>}] /\ build \in BuildType
<1>1. Word \in Nat /\ Word >= 2 /\ MaxCalls \in Nat /\ MaxBuilds \in Nat
  BY WeightAssumption
<1>2. node \in [Ids -> NodeType] /\ call \in [Calls -> CallType]
  BY DEF WeightTypeOK, NodeType, CallType, Words
<1>3. /\ picker \in [Services -> Seq(Ids)] /\ cache \in [Services -> Ids \cup {<<>>}]
      /\ build \in BuildType /\ builds \in 0..MaxBuilds /\ made \in 0..MaxCalls
  BY Zenon DEF WeightTypeOK, BuildType
<1>4. 0 \in Words /\ 1 \in Words /\ builds \in Nat /\ builds <= MaxBuilds /\ made \in Nat /\ made <= MaxCalls
  BY <1>1, <1>3 DEF Words
<1> QED
  BY <1>1, <1>2, <1>3, <1>4

(* The attributes of a connection. *)
LEMMA AttrOf ==
    ASSUME NEW c \in Conns
    PROVE  /\ Attr[c].typed \in BOOLEAN /\ Attr[c].weight \in Words
           /\ Attr[c].group \in Groups /\ Attr[c].name \in Services
<1> DEFINE A == [typed : BOOLEAN, weight : Words, group : Groups, name : Services]
<1>1. Attr \in [Conns -> A]
  BY AttrAssumption, Zenon DEF Words
<1>2. Attr[c] \in A
  BY <1>1
<1>3. \A a \in A : a.typed \in BOOLEAN /\ a.weight \in Words /\ a.group \in Groups /\ a.name \in Services
  OBVIOUS
<1> QED
  BY <1>2, <1>3, Zenon

(* The arithmetic of a word. *)
LEMMA WordOps ==
    ASSUME NEW a \in Words, NEW b \in Words, Word \in Nat, Word >= 2
    PROVE  /\ Add(a, b) \in Words /\ Sub(a, b) \in Words
           /\ Add(a, b) = IF a + b < Word THEN a + b ELSE a + b - Word
           /\ Sub(a, b) = IF b <= a THEN a - b ELSE a - b + Word
<1>1. Add(a, b) \in Words /\ Sub(a, b) \in Words
  BY DEF Words, Add, Sub
<1>2. ASSUME a + b < Word PROVE Add(a, b) = a + b
  <2>1. (a + b) % Word = a + b
    BY <1>2 DEF Words
  <2> QED
    BY <1>1, <1>2, <2>1 DEF Add
<1>3. ASSUME ~(a + b < Word) PROVE Add(a, b) = a + b - Word
  <2> DEFINE d == a + b - Word
  <2>1. d \in Nat /\ d < Word /\ a + b = d + Word
    BY <1>3 DEF Words
  <2> HIDE DEF d
  <2>2. (d + Word) % Word = d
    BY <2>1
  <2> QED
    BY <1>1, <1>3, <2>1, <2>2 DEF Add, d
<1>4. ASSUME b <= a PROVE Sub(a, b) = a - b
  <2> DEFINE d == a - b
  <2>1. d \in Nat /\ d < Word /\ a - b + Word = d + Word
    BY <1>4 DEF Words
  <2> HIDE DEF d
  <2>2. (d + Word) % Word = d
    BY <2>1
  <2> QED
    BY <1>4, <2>1, <2>2 DEF Sub, d
<1>5. ASSUME ~(b <= a) PROVE Sub(a, b) = a - b + Word
  <2> DEFINE d == a - b + Word
  <2>1. d \in Nat /\ d < Word
    BY <1>5 DEF Words
  <2> HIDE DEF d
  <2>2. d % Word = d
    BY <2>1
  <2> QED
    BY <1>5, <2>2 DEF Sub, d
<1> QED
  BY <1>1, <1>2, <1>3, <1>4, <1>5

(* What a step on the nodes leaves alone. *)
Kept ==
    /\ UNCHANGED <<kind, cache, build, picker>>
    /\ \A o \in Ids : node'[o].weight = node[o].weight /\ node'[o].group = node[o].group

(* A new current weight. *)
LEMMA CurSet ==
    ASSUME WeightTypeOK, NEW o \in Ids, NEW v \in Words, node' = [node EXCEPT ![o].cur = v]
    PROVE  /\ node' \in [Ids -> NodeType]
           /\ \A x \in Ids : /\ node'[x].weight = node[x].weight /\ node'[x].group = node[x].group
                             /\ node'[x].eff = node[x].eff
                             /\ node'[x].cur = IF x = o THEN v ELSE node[x].cur
                             /\ x # o => node'[x] = node[x]
<1>1. node \in [Ids -> NodeType] /\ node[o] \in NodeType
  BY TypesOf
<1>2. [node[o] EXCEPT !.cur = v] \in NodeType
  BY <1>1 DEF NodeType
<1>3. ASSUME NEW x \in Ids
      PROVE  /\ node'[x].weight = node[x].weight /\ node'[x].group = node[x].group
             /\ node'[x].eff = node[x].eff
             /\ node'[x].cur = IF x = o THEN v ELSE node[x].cur
             /\ x # o => node'[x] = node[x]
  BY <1>1, <1>3 DEF NodeType
<1> QED
  BY <1>1, <1>2, <1>3

(* A step of one call that makes no picker. *)
LEMMA OneWeight ==
    ASSUME WeightInv, NEW c \in Calls, NEW k \in CallType, call' = [call EXCEPT ![c] = k],
           CallOK(c)', Kept, node' \in [Ids -> NodeType], builds' = builds,
           made' \in 0..MaxCalls, raced' \in BOOLEAN, reset' \in BOOLEAN
    PROVE  WeightInv'
<1>1. call \in [Calls -> CallType] /\ call' \in [Calls -> CallType]
  BY TypesOf DEF WeightInv
<1>2. WeightTypeOK'
  BY <1>1 DEF WeightInv, WeightTypeOK, Kept, NodeType, CallType, Words
<1>3. ASSUME NEW d \in Calls, d # c PROVE CallOK(d)'
  <2>1. call'[d] = call[d]
    BY <1>1, <1>3
  <2>2. CallOK(d)
    BY DEF WeightInv
  <2> QED
    BY <2>1, <2>2 DEF CallOK
<1>4. kind' \in Kinds
  BY DEF WeightInv, Kept
<1>5. NamesOK'
  BY DEF WeightInv, Kept, NamesOK, Named, NoBuild
<1> QED
  BY <1>2, <1>3, <1>4, <1>5 DEF WeightInv

LEMMA NewNodeType ==
    ASSUME NEW c \in Conns, Word \in Nat, Word >= 2
    PROVE  /\ NewNode(c) \in NodeType /\ NewNode(c).cur = NewNode(c).weight
           /\ NewNode(c).weight = WeightOf(c)
<1>1. WeightOf(c) \in Words /\ Attr[c].group \in Groups
  BY AttrOf DEF WeightOf, Words
<1>2. StartEff(WeightOf(c)) \in Words
  BY <1>1 DEF StartEff, Words
<1> QED
  BY <1>1, <1>2 DEF NewNode, NodeType

(* A step of Build, which leaves the calls alone. *)
LEMMA OneBuild ==
    ASSUME WeightInv, node' \in [Ids -> NodeType], build' \in BuildType,
           cache' \in [Services -> Ids \cup {<<>>}], picker' \in [Services -> Seq(Ids)],
           builds' \in 0..MaxBuilds, UNCHANGED <<kind, made, call, raced, reset>>, NamesOK'
    PROVE  WeightInv'
<1>1. node' \in [Ids -> [weight : 0..(Word - 1), cur : 0..(Word - 1), eff : 0..(Word - 1),
                         group : Groups \cup {"none"}]]
  BY DEF NodeType, Words
<1>2. build' \in [by : Services \cup {""}, todo : SUBSET Conns, nodes : Seq(Ids), seen : SUBSET Services]
  BY DEF BuildType
<1>3. made' = made /\ call' = call /\ raced' = raced /\ reset' = reset /\ kind' = kind
  OBVIOUS
<1>4. WeightTypeOK'
  BY <1>1, <1>2, <1>3, Zenon DEF WeightInv, WeightTypeOK
<1>5. \A c \in Calls : CallOK(c)'
  BY <1>3 DEF WeightInv, CallOK
<1> QED
  BY <1>3, <1>4, <1>5 DEF WeightInv

LEMMA NoBuildRec ==
    /\ NoBuild \in BuildType /\ NoBuild.todo = {} /\ NoBuild.nodes = <<>> /\ NoBuild.seen = {}
<1> DEFINE e == <<>>
<1>1. NoBuild = [by |-> "", todo |-> {}, nodes |-> e, seen |-> {}] /\ e \in Seq(Ids)
  BY DEF NoBuild
<1> HIDE DEF e
<1>2. NoBuild.todo = {} /\ NoBuild.nodes = e /\ NoBuild.seen = {}
  BY <1>1
<1>3. NoBuild \in BuildType
  BY <1>1 DEF BuildType
<1> QED
  BY <1>2, <1>3 DEF e

LEMMA BuildStartOK ==
    ASSUME WeightInv, NEW u \in Services, BuildStart(u)
    PROVE  WeightInv'
<1>1. /\ builds < MaxBuilds /\ builds' = builds + 1
      /\ UNCHANGED <<kind, node, cache, picker, made, call, raced, reset>>
  BY DEF BuildStart
<1>2. PICK R \in ReadySets[u] : build' = [by |-> u, todo |-> R, nodes |-> <<>>, seen |-> {}]
  BY DEF BuildStart
<1>3. R \subseteq Conns /\ \A c \in R : Attr[c].name = u
  BY AttrAssumption, Zenon
<1>4. /\ node \in [Ids -> NodeType] /\ cache \in [Services -> Ids \cup {<<>>}]
      /\ picker \in [Services -> Seq(Ids)] /\ builds \in Nat /\ MaxBuilds \in Nat
  BY TypesOf DEF WeightInv
<1>5. build' \in BuildType
  <2> DEFINE e == <<>>
  <2>1. e \in Seq(Ids) /\ build' = [by |-> u, todo |-> R, nodes |-> e, seen |-> {}]
    BY <1>2
  <2> HIDE DEF e
  <2> QED
    BY <1>3, <2>1 DEF BuildType
<1>6. builds' \in 0..MaxBuilds /\ builds' >= 1
  BY <1>1, <1>4
<1>7. build'.by = u /\ build'.todo = R /\ build'.nodes = <<>>
  BY <1>2
<1>8. Named(build.by, build.nodes)'
  BY <1>7 DEF Named
<1>9. NamesOK'
  BY <1>1, <1>3, <1>6, <1>7, <1>8 DEF WeightInv, NamesOK, Named
<1> QED
  BY <1>1, <1>4, <1>5, <1>6, <1>9, OneBuild

(* A round of the loop leaves the connections still to do, with their names. *)
LEMMA TodoOf ==
    ASSUME WeightInv, NEW c \in build.todo
    PROVE  /\ c \in Conns /\ Attr[c].name = build.by /\ build.by \in Services
           /\ builds \in 1..MaxBuilds /\ <<c, builds>> \in Ids
           /\ build # NoBuild /\ Lookup(c) = cache[build.by] /\ Lookup(c) \in Ids \cup {<<>>}
<1>1. /\ build \in BuildType /\ builds \in Nat /\ builds <= MaxBuilds /\ MaxBuilds \in Nat
      /\ cache \in [Services -> Ids \cup {<<>>}]
  BY TypesOf DEF WeightInv
<1>2. c \in Conns
  BY <1>1 DEF BuildType
<1>3. build # NoBuild
  BY NoBuildRec
<1>4. Attr[c].name = build.by /\ build.by \in Services /\ builds >= 1
  BY <1>3 DEF WeightInv, NamesOK
<1>5. builds \in 1..MaxBuilds
  BY <1>1, <1>4
<1>6. <<c, builds>> \in Ids
  BY <1>2, <1>5 DEF Ids
<1> QED
  BY <1>1, <1>2, <1>3, <1>4, <1>5, <1>6 DEF Lookup

(* The record of the Build after a round. *)
LEMMA BuiltRec ==
    ASSUME WeightInv, NEW c \in build.todo, NEW o \in Ids
    PROVE  /\ Built(c, o) \in BuildType
           /\ Built(c, o).by = build.by /\ Built(c, o).todo = build.todo \ {c}
           /\ Built(c, o).nodes = Append(build.nodes, o)
           /\ [build EXCEPT !.todo = @ \ {c}] \in BuildType
           /\ [build EXCEPT !.todo = @ \ {c}].by = build.by
           /\ [build EXCEPT !.todo = @ \ {c}].todo = build.todo \ {c}
           /\ [build EXCEPT !.todo = @ \ {c}].nodes = build.nodes
<1> DEFINE t == build.todo \ {c}
           n == Append(build.nodes, o)
           s == build.seen \cup {Attr[c].name}
           x == [build EXCEPT !.todo = t]
           y == [x EXCEPT !.nodes = n]
<1>1. build \in BuildType /\ c \in Conns /\ Attr[c].name \in Services
  BY TypesOf, TodoOf DEF WeightInv
<1>2. build.nodes \in Seq(Ids) /\ build.todo \in SUBSET Conns /\ build.seen \in SUBSET Services
  BY <1>1 DEF BuildType
<1>2a. t \in SUBSET Conns /\ s \in SUBSET Services
  BY <1>1, <1>2
<1>2b. n \in Seq(Ids)
  BY <1>2
<1>3. Built(c, o) = [y EXCEPT !.seen = s] /\ [build EXCEPT !.todo = @ \ {c}] = x
  BY <1>1 DEF Built, BuildType
<1> HIDE DEF t, n, s
<1>4. x \in BuildType /\ x.by = build.by /\ x.todo = t /\ x.nodes = build.nodes
  BY <1>1, <1>2a DEF BuildType
<1> HIDE DEF x
<1>5. y \in BuildType /\ y.by = build.by /\ y.todo = t /\ y.nodes = n
  BY <1>2b, <1>4 DEF BuildType
<1> HIDE DEF y
<1>6. LET z == [y EXCEPT !.seen = s] IN z \in BuildType /\ z.by = build.by /\ z.todo = t /\ z.nodes = n
  BY <1>2a, <1>5 DEF BuildType
<1> QED
  BY <1>3, <1>4, <1>6 DEF t, n

LEMMA SkipConnOK ==
    ASSUME WeightInv, NEW c \in Conns, SkipConn(c)
    PROVE  WeightInv'
<1>1. /\ c \in build.todo /\ build' = [build EXCEPT !.todo = @ \ {c}]
      /\ UNCHANGED <<kind, node, cache, picker, builds, made, call, raced, reset>>
  BY DEF SkipConn
<1>2. /\ node \in [Ids -> NodeType] /\ cache \in [Services -> Ids \cup {<<>>}]
      /\ picker \in [Services -> Seq(Ids)] /\ builds \in 0..MaxBuilds
  BY TypesOf DEF WeightInv
<1>3. <<c, builds>> \in Ids /\ build.by \in Services /\ builds >= 1
  BY <1>1, TodoOf
<1>4. /\ build' \in BuildType /\ build'.by = build.by /\ build'.todo = build.todo \ {c}
      /\ build'.nodes = build.nodes
  BY <1>1, <1>3, BuiltRec
<1>5. NamesOK'
  BY <1>1, <1>3, <1>4 DEF WeightInv, NamesOK, Named
<1> QED
  BY <1>1, <1>2, <1>4, <1>5, OneBuild

(* A Build got a node for a connection of its service. *)
LEMMA BuiltNames ==
    ASSUME WeightInv, NEW c \in build.todo, NEW o \in Ids, Attr[o[1]].name = build.by,
           build' = Built(c, o), UNCHANGED <<picker, builds>>,
           \A u \in Services : cache'[u] # <<>> => Attr[cache'[u][1]].name = u
    PROVE  NamesOK'
<1>1. /\ build'.by = build.by /\ build'.todo = build.todo \ {c}
      /\ build'.nodes = Append(build.nodes, o)
  BY BuiltRec
<1>2. build.nodes \in Seq(Ids)
  BY TypesOf DEF WeightInv, BuildType
<1>3. build.by \in Services /\ builds >= 1
  BY TodoOf DEF WeightInv, NamesOK
<1>4. Named(build.by, build.nodes)
  BY DEF WeightInv, NamesOK
<1>5. Named(build.by, Append(build.nodes, o))
  <2> SUFFICES ASSUME NEW i \in DOMAIN Append(build.nodes, o)
               PROVE  Attr[Append(build.nodes, o)[i][1]].name = build.by
    BY DEF Named
  <2> DEFINE m == Len(build.nodes)
  <2>1. m \in Nat /\ i \in 1..(m + 1) /\ DOMAIN build.nodes = 1..m
    BY <1>2
  <2>2. CASE i = m + 1
    <3>1. Append(build.nodes, o)[i] = o
      BY <1>2, <2>2
    <3> QED
      BY <3>1
  <2>3. CASE i # m + 1
    <3>1. i \in 1..m
      BY <2>1, <2>3
    <3>2. Append(build.nodes, o)[i] = build.nodes[i]
      BY <1>2, <3>1
    <3> QED
      BY <1>4, <2>1, <3>1, <3>2 DEF Named
  <2> QED
    BY <2>2, <2>3
<1>6. Named(build.by, build.nodes)'
  BY <1>1, <1>5 DEF Named
<1> QED
  BY <1>1, <1>3, <1>6 DEF WeightInv, NamesOK, Named

(* What a round does to the nodes: it may set the group of the cached one and fill in the
   new one. *)
LEMMA ReuseNodes ==
    ASSUME WeightInv, NEW c \in Conns, ReuseNode(c)
    PROVE  LET o == Lookup(c) IN
           /\ c \in build.todo /\ o \in Ids /\ Attr[o[1]].name = build.by /\ o = cache[build.by]
           /\ build' = Built(c, o) /\ node' \in [Ids -> NodeType]
           /\ \A x \in Ids : node'[x].weight = node[x].weight /\ node'[x].cur = node[x].cur
                             /\ node'[x].eff = node[x].eff /\ (x # o => node'[x] = node[x])
<1> DEFINE o == Lookup(c)
<1>1. /\ c \in build.todo /\ Lookup(c) # <<>> /\ build' = Built(c, o)
      /\ node' = [node EXCEPT ![o].group = Attr[c].group]
  BY DEF ReuseNode, Reused
<1>2. build.by \in Services /\ o = cache[build.by] /\ o \in Ids /\ Attr[c].group \in Groups
  BY <1>1, TodoOf, AttrOf
<1>3. Attr[o[1]].name = build.by
  BY <1>1, <1>2 DEF WeightInv, NamesOK
<1>4. node \in [Ids -> NodeType]
  BY TypesOf DEF WeightInv
<1> HIDE DEF o
<1>5. node[o] \in NodeType /\ [node[o] EXCEPT !.group = Attr[c].group] \in NodeType
  BY <1>2, <1>4 DEF NodeType
<1>6. node' \in [Ids -> NodeType]
  BY <1>1, <1>2, <1>4, <1>5
<1>7. ASSUME NEW x \in Ids
      PROVE  node'[x].weight = node[x].weight /\ node'[x].cur = node[x].cur
             /\ node'[x].eff = node[x].eff /\ (x # o => node'[x] = node[x])
  BY <1>1, <1>2, <1>4, <1>5 DEF NodeType
<1> QED
  BY <1>1, <1>2, <1>3, <1>6, <1>7 DEF o

LEMMA ReuseNodeOK ==
    ASSUME WeightInv, NEW c \in Conns, ReuseNode(c)
    PROVE  WeightInv'
<1> DEFINE o == Lookup(c)
<1>1. /\ c \in build.todo /\ o \in Ids /\ Attr[o[1]].name = build.by
      /\ build' = Built(c, o) /\ node' \in [Ids -> NodeType]
  BY ReuseNodes
<1>2. UNCHANGED <<kind, cache, picker, builds, made, call, raced, reset>>
  BY DEF ReuseNode
<1>3. /\ cache \in [Services -> Ids \cup {<<>>}]
      /\ picker \in [Services -> Seq(Ids)] /\ builds \in 0..MaxBuilds
  BY TypesOf DEF WeightInv
<1> HIDE DEF o
<1>4. build' \in BuildType
  BY <1>1, BuiltRec
<1>5. NamesOK'
  BY <1>1, <1>2, BuiltNames DEF WeightInv, NamesOK
<1> QED
  BY <1>1, <1>2, <1>3, <1>4, <1>5, OneBuild

LEMMA MakeNodes ==
    ASSUME WeightInv, NEW c \in Conns, MakeNode(c)
    PROVE  LET o == <<c, builds>> IN
           /\ c \in build.todo /\ o \in Ids /\ Attr[o[1]].name = build.by
           /\ build' = Built(c, o) /\ node' \in [Ids -> NodeType]
           /\ node'[o] = NewNode(c)
           /\ \A x \in Ids \ {o} : node'[x].weight = node[x].weight /\ node'[x].cur = node[x].cur
                                   /\ node'[x].eff = node[x].eff
                                   /\ (x # Lookup(c) => node'[x] = node[x])
           /\ cache' \in [Services -> Ids \cup {<<>>}]
           /\ \A u \in Services : cache'[u] = cache[u] \/ (u = build.by /\ cache'[u] = o)
<1> DEFINE o == <<c, builds>>
           m == Lookup(c)
<1>1. /\ c \in build.todo /\ build' = Built(c, o)
      /\ node' = [x \in Ids |-> CASE x = o -> NewNode(c)
                                  [] x # o /\ x = m -> [node[x] EXCEPT !.group = Attr[c].group]
                                  [] OTHER -> node[x]]
      /\ cache' = IF kind = "rw" THEN [cache EXCEPT ![Attr[c].name] = o] ELSE cache
  BY DEF MakeNode
<1>2. o \in Ids /\ Attr[c].name = build.by /\ build.by \in Services /\ Attr[c].group \in Groups
  BY <1>1, TodoOf, AttrOf
<1>3. /\ node \in [Ids -> NodeType] /\ Word \in Nat /\ Word >= 2
      /\ cache \in [Services -> Ids \cup {<<>>}]
  BY TypesOf DEF WeightInv
<1>4. NewNode(c) \in NodeType
  BY <1>3, NewNodeType
<1>5. o[1] = c
  OBVIOUS
<1> HIDE DEF o, m
<1>6. node'[o] = NewNode(c)
  BY <1>1, <1>2
<1>7. ASSUME NEW x \in Ids \ {o}
      PROVE  /\ node'[x].weight = node[x].weight /\ node'[x].cur = node[x].cur
             /\ node'[x].eff = node[x].eff /\ (x # m => node'[x] = node[x]) /\ node'[x] \in NodeType
  <2>1. node[x] \in NodeType
    BY <1>3
  <2>2. CASE x = m
    <3>1. node'[x] = [node[x] EXCEPT !.group = Attr[c].group]
      BY <1>1, <2>2
    <3> QED
      BY <1>2, <2>1, <2>2, <3>1 DEF NodeType
  <2>3. CASE x # m
    <3>1. node'[x] = node[x]
      BY <1>1, <2>3
    <3> QED
      BY <2>1, <3>1
  <2> QED
    BY <2>2, <2>3
<1>8. node' \in [Ids -> NodeType]
  <2>1. DOMAIN node' = Ids /\ node' = [x \in Ids |-> node'[x]]
    BY <1>1
  <2>2. \A x \in Ids : node'[x] \in NodeType
    BY <1>4, <1>6, <1>7
  <2> QED
    BY <2>1, <2>2
<1>9. /\ cache' \in [Services -> Ids \cup {<<>>}]
      /\ \A u \in Services : cache'[u] = cache[u] \/ (u = build.by /\ cache'[u] = o)
  BY <1>1, <1>2, <1>3
<1> QED
  BY <1>1, <1>2, <1>5, <1>6, <1>7, <1>8, <1>9 DEF o, m

LEMMA MakeNodeOK ==
    ASSUME WeightInv, NEW c \in Conns, MakeNode(c)
    PROVE  WeightInv'
<1> DEFINE o == <<c, builds>>
<1>1. /\ c \in build.todo /\ o \in Ids /\ Attr[o[1]].name = build.by
      /\ build' = Built(c, o) /\ node' \in [Ids -> NodeType]
      /\ cache' \in [Services -> Ids \cup {<<>>}]
      /\ \A u \in Services : cache'[u] = cache[u] \/ (u = build.by /\ cache'[u] = o)
  BY MakeNodes
<1>2. UNCHANGED <<kind, picker, builds, made, call, raced, reset>>
  BY DEF MakeNode
<1>3. picker \in [Services -> Seq(Ids)] /\ builds \in 0..MaxBuilds
  BY TypesOf DEF WeightInv
<1> HIDE DEF o
<1>4. build' \in BuildType
  BY <1>1, BuiltRec
<1>5. \A u \in Services : cache'[u] # <<>> => Attr[cache'[u][1]].name = u
  BY <1>1 DEF WeightInv, NamesOK
<1>6. NamesOK'
  BY <1>1, <1>2, <1>5, BuiltNames
<1> QED
  BY <1>1, <1>2, <1>3, <1>4, <1>6, OneBuild

LEMMA BuildEndOK ==
    ASSUME WeightInv, BuildEnd
    PROVE  WeightInv'
<1>1. /\ build # NoBuild /\ build' = NoBuild
      /\ cache' = [u \in Services |-> IF u \in build.seen THEN cache[u] ELSE <<>>]
      /\ picker' = [picker EXCEPT ![build.by] = build.nodes]
      /\ UNCHANGED <<kind, node, builds, made, call, raced, reset>>
  BY DEF BuildEnd
<1>2. /\ node \in [Ids -> NodeType] /\ cache \in [Services -> Ids \cup {<<>>}]
      /\ picker \in [Services -> Seq(Ids)] /\ builds \in 0..MaxBuilds /\ build \in BuildType
  BY TypesOf DEF WeightInv
<1>3. build.by \in Services /\ build.nodes \in Seq(Ids)
  BY <1>1, <1>2 DEF WeightInv, NamesOK, BuildType
<1>4. cache' \in [Services -> Ids \cup {<<>>}] /\ picker' \in [Services -> Seq(Ids)]
  BY <1>1, <1>2, <1>3
<1>5. build' \in BuildType /\ build'.todo = {} /\ build'.nodes = <<>>
  BY <1>1, NoBuildRec
<1>6. ASSUME NEW u \in Services PROVE Named(u, picker'[u])
  <2>1. Named(u, picker[u]) /\ Named(build.by, build.nodes)
    BY DEF WeightInv, NamesOK
  <2> QED
    BY <1>1, <1>2, <1>3, <2>1 DEF Named
<1>7. \A u \in Services : cache'[u] # <<>> => Attr[cache'[u][1]].name = u
  BY <1>1 DEF WeightInv, NamesOK
<1>8. NamesOK'
  <2>1. Named(build.by, build.nodes)'
    BY <1>5 DEF Named
  <2>2. (\A u \in Services : Named(u, picker[u]))'
    BY <1>6 DEF Named
  <2>3. build' = NoBuild /\ NoBuild' = NoBuild
    BY <1>1 DEF NoBuild
  <2> QED
    BY <1>5, <1>7, <2>1, <2>2, <2>3 DEF NamesOK
<1> QED
  BY <1>1, <1>2, <1>4, <1>5, <1>8, OneBuild

-----------------------------------------------------------------------------
(* The steps of a call *)

LEMMA ReadRec ==
    ASSUME NEW x \in CallType, NEW e, NEW w
    PROVE  [x EXCEPT !.at = "write", !.was = w, !.total = e] =
           [at |-> "write", cand |-> x.cand, i |-> x.i, total |-> e, sel |-> x.sel, was |-> w]
<1> DEFINE y == [x EXCEPT !.at = "write"]
           z == [y EXCEPT !.was = w]
<1>1. y = [at |-> "write", cand |-> x.cand, i |-> x.i, total |-> x.total, sel |-> x.sel, was |-> x.was]
  BY DEF CallType
<1> HIDE DEF y
<1>2. z = [at |-> "write", cand |-> x.cand, i |-> x.i, total |-> x.total, sel |-> x.sel, was |-> w]
  BY <1>1
<1> HIDE DEF z
<1>3. [z EXCEPT !.total = e] =
      [at |-> "write", cand |-> x.cand, i |-> x.i, total |-> e, sel |-> x.sel, was |-> w]
  BY <1>2
<1>4. [x EXCEPT !.at = "write", !.was = w, !.total = e] = [z EXCEPT !.total = e]
  BY DEF y, z
<1> QED
  BY <1>3, <1>4

LEMMA CalledRec ==
    ASSUME NEW o
    PROVE  [Idle EXCEPT !.at = "call", !.sel = o] =
           [at |-> "call", cand |-> <<>>, i |-> 1, total |-> 0, sel |-> o, was |-> 0]
<1> DEFINE e == <<>>
           y == [Idle EXCEPT !.at = "call"]
<1>1. Idle = [at |-> "idle", cand |-> e, i |-> 1, total |-> 0, sel |-> e, was |-> 0]
  BY DEF Idle
<1> HIDE DEF e
<1>2. y = [at |-> "call", cand |-> e, i |-> 1, total |-> 0, sel |-> e, was |-> 0]
  BY <1>1
<1> HIDE DEF y
<1>3. [y EXCEPT !.sel = o] = [at |-> "call", cand |-> e, i |-> 1, total |-> 0, sel |-> o, was |-> 0]
  BY <1>2
<1> QED
  BY <1>3 DEF y, e

LEMMA CandidatesOK ==
    ASSUME WeightTypeOK, NEW u \in Services, NEW g, NEW cand \in Candidates(u, g)
    PROVE  /\ cand \in Seq(Ids) /\ (cand # <<>> => cand[1] \in Ids /\ 1 \in 1..Len(cand))
           /\ \A i \in DOMAIN cand : \E j \in DOMAIN picker[u] : cand[i] = picker[u][j]
<1> DEFINE all == picker[u]
           fit == {i \in 1..Len(all) : kind = "rw" => node[all[i]].group = g}
           m == Cardinality(fit)
<1>1. all \in Seq(Ids) /\ Len(all) \in Nat /\ \A i \in 1..Len(all) : all[i] \in Ids
  BY TypesOf
<1>2. IsFiniteSet(1..Len(all)) /\ fit \subseteq 1..Len(all)
  BY <1>1, FS_Interval
<1>3. m \in Nat
  BY <1>2, FS_Subset, FS_CardinalityType
<1>4. PICK f \in [1..m -> fit] : cand = [i \in 1..m |-> all[f[i]]]
  BY DEF Candidates
<1> HIDE DEF all, fit, m
<1>5. \A i \in 1..m : all[f[i]] \in Ids
  BY <1>1, <1>2, <1>4
<1>6. cand \in Seq(Ids)
  BY <1>3, <1>4, <1>5
<1>7. ASSUME NEW i \in DOMAIN cand PROVE \E j \in DOMAIN all : cand[i] = all[j]
  <2>1. i \in 1..m /\ cand[i] = all[f[i]]
    BY <1>4
  <2>2. f[i] \in fit
    BY <1>4, <2>1
  <2>3. f[i] \in 1..Len(all)
    BY <1>2, <2>2, Zenon
  <2>4. DOMAIN all = 1..Len(all)
    BY <1>1
  <2> QED
    BY <2>1, <2>3, <2>4
<1> QED
  BY <1>6, <1>7 DEF all

LEMMA PickOK ==
    ASSUME WeightInv, NEW c \in Calls, NEW u \in Services, NEW g \in Groups, Pick(c, u, g)
    PROVE  WeightInv'
<1>1. /\ call[c].at = "idle" /\ made < MaxCalls /\ made' = made + 1
      /\ UNCHANGED <<kind, node, cache, build, picker, builds, raced, reset>>
  BY DEF Pick
<1>2. PICK cand \in Candidates(u, g) :
          IF cand = <<>> THEN UNCHANGED call
          ELSE call' = [call EXCEPT ![c] = [Idle EXCEPT !.at = "visit", !.cand = cand, !.sel = cand[1]]]
  BY DEF Pick
<1>3. /\ node \in [Ids -> NodeType] /\ call \in [Calls -> CallType] /\ 0 \in Words
      /\ made \in Nat /\ MaxCalls \in Nat
      /\ raced \in BOOLEAN /\ reset \in BOOLEAN
  BY TypesOf DEF WeightInv, WeightTypeOK
<1>4. /\ Kept /\ node' \in [Ids -> NodeType] /\ builds' = builds /\ made' \in 0..MaxCalls
      /\ raced' \in BOOLEAN /\ reset' \in BOOLEAN
  BY <1>1, <1>3 DEF Kept
<1>5. CASE cand = <<>>
  <2>1. call' = [call EXCEPT ![c] = call[c]] /\ call[c] \in CallType
    BY <1>2, <1>3, <1>5
  <2>2. CallOK(c)'
    BY <1>2, <1>5 DEF WeightInv, CallOK
  <2> QED
    BY <1>4, <2>1, <2>2, OneWeight
<1>6. CASE cand # <<>>
  <2> DEFINE k == [at |-> "visit", cand |-> cand, i |-> 1, total |-> 0, sel |-> cand[1], was |-> 0]
  <2>1. cand \in Seq(Ids) /\ cand[1] \in Ids /\ 1 \in 1..Len(cand)
    BY <1>6, CandidatesOK DEF WeightInv
  <2>2. k \in CallType
    BY <1>3, <2>1 DEF CallType
  <2>3. call' = [call EXCEPT ![c] = k]
    BY <1>2, <1>6 DEF Idle
  <2>4. call'[c] = k
    BY <1>3, <2>3
  <2>5. CallOK(c)'
    BY <2>1, <2>4 DEF CallOK
  <2> QED
    BY <1>4, <2>2, <2>3, <2>5, OneWeight
<1> QED
  BY <1>5, <1>6

(* The call has dealt with one candidate. *)
LEMMA VisitedOK ==
    ASSUME WeightInv, NEW c \in Calls, call[c].at \in {"visit", "write"},
           NEW v \in Words, NEW total \in Words
    PROVE  LET o == call[c].cand[call[c].i]
               k == Visited(c, o, v, total) IN
           /\ o \in Ids /\ k \in CallType /\ k.at \in {"visit", "sub"} /\ k.sel \in Ids
           /\ k.at = "visit" => k.i \in 1..Len(k.cand)
           /\ k.cand = call[c].cand /\ k.total = total /\ k.sel \in {o, call[c].sel}
<1> DEFINE o == call[c].cand[call[c].i]
           k == Visited(c, o, v, total)
<1>1. call[c] \in CallType /\ 0 \in Words
  BY TypesOf DEF WeightInv
<1>2. call[c].i \in 1..Len(call[c].cand) /\ call[c].sel \in Ids
  BY DEF WeightInv, CallOK
<1>3. call[c].cand \in Seq(Ids) /\ Len(call[c].cand) \in Nat
  BY <1>1 DEF CallType
<1>4. o \in Ids
  BY <1>2, <1>3
<1> HIDE DEF o
<1>5. /\ k.at = (IF call[c].i = Len(call[c].cand) THEN "sub" ELSE "visit") /\ k.cand = call[c].cand
      /\ k.i = call[c].i + 1 /\ k.total = total /\ k.was = 0 /\ k.sel \in {o, call[c].sel}
      /\ k = [at |-> k.at, cand |-> k.cand, i |-> k.i, total |-> k.total, was |-> k.was, sel |-> k.sel]
  BY DEF Visited
<1> HIDE DEF k
<1>6. /\ k.at \in {"visit", "sub"} /\ k.cand \in Seq(Ids) /\ k.i \in Nat /\ k.total \in Words
      /\ k.was \in Words /\ k.sel \in Ids
  BY <1>1, <1>2, <1>3, <1>4, <1>5
<1>7. k \in CallType
  BY <1>5, <1>6 DEF CallType
<1>8. k.at = "visit" => k.i \in 1..Len(k.cand)
  BY <1>2, <1>3, <1>5
<1> QED
  BY <1>4, <1>5, <1>6, <1>7, <1>8 DEF k, o

(* A candidate gets a weight, and the call moves on. *)
LEMMA AddedOK ==
    ASSUME WeightInv, NEW c \in Calls, call[c].at \in {"visit", "write"},
           NEW v \in Words, NEW total \in Words,
           node' = [node EXCEPT ![call[c].cand[call[c].i]].cur = v],
           call' = [call EXCEPT ![c] = Visited(c, call[c].cand[call[c].i], v, total)],
           UNCHANGED <<kind, cache, build, picker, builds, made, raced, reset>>
    PROVE  WeightInv'
<1> DEFINE o == call[c].cand[call[c].i]
           k == Visited(c, o, v, total)
<1>1. /\ o \in Ids /\ k \in CallType /\ k.at \in {"visit", "sub"} /\ k.sel \in Ids
      /\ k.at = "visit" => k.i \in 1..Len(k.cand)
  BY VisitedOK
<1>2. node' = [node EXCEPT ![o].cur = v] /\ call' = [call EXCEPT ![c] = k]
  OBVIOUS
<1> HIDE DEF o, k
<1>2a. WeightTypeOK /\ o \in Ids /\ node' = [node EXCEPT ![o].cur = v]
  BY <1>1, <1>2 DEF WeightInv
<1>3. node' \in [Ids -> NodeType]
      /\ \A x \in Ids : node'[x].weight = node[x].weight /\ node'[x].group = node[x].group
  BY <1>2a, CurSet
<1>4. call \in [Calls -> CallType]
  BY TypesOf DEF WeightInv
<1>5. call'[c] = k
  BY <1>2, <1>4
<1>6. CallOK(c)'
  BY <1>1, <1>5 DEF CallOK
<1>7. Kept /\ made' \in 0..MaxCalls /\ raced' \in BOOLEAN /\ reset' \in BOOLEAN
  BY <1>3 DEF Kept, WeightInv, WeightTypeOK
<1> QED
  BY <1>1, <1>2, <1>3, <1>6, <1>7, OneWeight

LEMMA VisitsOK ==
    ASSUME WeightInv, NEW c \in Calls, Visit(c) \/ DynamicWrite(c)
    PROVE  WeightInv'
<1> DEFINE o == call[c].cand[call[c].i]
<1>1. call[c].at \in {"visit", "write"}
  BY DEF Visit, DynamicWrite
<1>2. Word \in Nat /\ Word >= 2 /\ 0 \in Words /\ node \in [Ids -> NodeType] /\ call[c] \in CallType
  BY TypesOf DEF WeightInv
<1>3. o \in Ids
  BY <1>1, <1>2, VisitedOK
<1> HIDE DEF o
<1>4. node[o].cur \in Words /\ node[o].eff \in Words /\ call[c].total \in Words /\ call[c].was \in Words
  BY <1>2, <1>3 DEF NodeType, CallType
<1>5. /\ Add(node[o].cur, node[o].eff) \in Words /\ Add(call[c].total, node[o].eff) \in Words
      /\ Add(call[c].was, node[o].eff) \in Words
  BY <1>2, <1>4, WordOps
<1>6. CASE Visit(c)
  <2>1. /\ node' = [node EXCEPT ![o].cur = Add(node[o].cur, node[o].eff)]
        /\ call' = [call EXCEPT ![c] = Visited(c, o, Add(node[o].cur, node[o].eff),
                                               Add(call[c].total, node[o].eff))]
        /\ UNCHANGED <<kind, cache, build, picker, builds, made, raced, reset>>
    BY <1>6 DEF Visit, o
  <2> QED
    BY <1>1, <1>5, <2>1, AddedOK DEF o
<1>7. CASE DynamicWrite(c)
  <2>1. /\ node' = [node EXCEPT ![o].cur = Add(call[c].was, node[o].eff)]
        /\ call' = [call EXCEPT ![c] = Visited(c, o, Add(call[c].was, node[o].eff), call[c].total)]
        /\ UNCHANGED <<kind, cache, build, picker, builds, made, raced, reset>>
    BY <1>7 DEF DynamicWrite, o
  <2> QED
    BY <1>1, <1>4, <1>5, <2>1, AddedOK DEF o
<1> QED
  BY <1>6, <1>7

LEMMA DynamicReadOK ==
    ASSUME WeightInv, NEW c \in Calls, DynamicRead(c)
    PROVE  WeightInv'
<1> DEFINE o == call[c].cand[call[c].i]
           k == [at |-> "write", cand |-> call[c].cand, i |-> call[c].i,
                 total |-> Add(call[c].total, node[o].eff), sel |-> call[c].sel, was |-> node[o].cur]
<1>1. /\ call[c].at = "visit" /\ raced' = (raced \/ ReadLocked(o))
      /\ UNCHANGED <<kind, node, cache, build, picker, builds, made, reset>>
      /\ call' = [call EXCEPT ![c] = [call[c] EXCEPT !.at = "write", !.was = node[o].cur,
                                                     !.total = Add(call[c].total, node[o].eff)]]
  BY DEF DynamicRead
<1>2. /\ Word \in Nat /\ Word >= 2 /\ 0 \in Words /\ node \in [Ids -> NodeType]
      /\ call \in [Calls -> CallType] /\ call[c] \in CallType
  BY TypesOf DEF WeightInv
<1>3. o \in Ids
  BY <1>1, <1>2, VisitedOK
<1> HIDE DEF o
<1>4. node[o].cur \in Words /\ node[o].eff \in Words /\ call[c].total \in Words
  BY <1>2, <1>3 DEF NodeType, CallType
<1>5. Add(call[c].total, node[o].eff) \in Words
  BY <1>2, <1>4, WordOps
<1>6. k \in CallType
  BY <1>2, <1>4, <1>5 DEF CallType
<1>7. call' = [call EXCEPT ![c] = k]
  <2>1. call' = [call EXCEPT ![c] = [call[c] EXCEPT !.at = "write", !.was = node[o].cur,
                                                     !.total = Add(call[c].total, node[o].eff)]]
    BY <1>1
  <2>2. [call[c] EXCEPT !.at = "write", !.was = node[o].cur, !.total = Add(call[c].total, node[o].eff)] = k
    BY <1>2, ReadRec
  <2> QED
    BY <2>1, <2>2, Zenon
<1>8. call'[c] = k
  BY <1>2, <1>7
<1>9. CallOK(c)
  BY DEF WeightInv
<1>10. CallOK(c)'
  BY <1>1, <1>8, <1>9 DEF CallOK
<1>11. /\ Kept /\ node' \in [Ids -> NodeType] /\ made' \in 0..MaxCalls /\ reset' \in BOOLEAN
       /\ raced' \in BOOLEAN /\ builds' = builds
  BY <1>1, <1>2 DEF Kept, WeightInv, WeightTypeOK
<1> HIDE DEF k
<1> QED
  BY <1>6, <1>7, <1>10, <1>11, OneWeight

LEMMA SelectOK ==
    ASSUME WeightInv, NEW c \in Calls, Select(c)
    PROVE  WeightInv'
<1> DEFINE o == call[c].sel
           k == [at |-> "call", cand |-> <<>>, i |-> 1, total |-> 0, sel |-> o, was |-> 0]
<1>0. [Idle EXCEPT !.at = "call", !.sel = o] = k
  BY CalledRec
<1>1. /\ call[c].at = "sub" /\ node' = [node EXCEPT ![o].cur = Sub(@, call[c].total)]
      /\ call' = [call EXCEPT ![c] = k]
      /\ UNCHANGED <<kind, cache, build, picker, builds, made, raced, reset>>
  BY <1>0 DEF Select
<1>2. /\ Word \in Nat /\ Word >= 2 /\ 0 \in Words /\ node \in [Ids -> NodeType]
      /\ call \in [Calls -> CallType] /\ call[c] \in CallType
  BY TypesOf DEF WeightInv
<1>3. o \in Ids
  BY <1>1 DEF WeightInv, CallOK
<1>4. Sub(node[o].cur, call[c].total) \in Words
  <2>1. node[o].cur \in Words /\ call[c].total \in Words
    BY <1>2, <1>3 DEF NodeType, CallType
  <2> QED
    BY <1>2, <2>1, WordOps
<1>5. node' = [node EXCEPT ![o].cur = Sub(node[o].cur, call[c].total)]
  BY <1>1, <1>2, <1>3
<1>6. node' \in [Ids -> NodeType]
      /\ \A x \in Ids : node'[x].weight = node[x].weight /\ node'[x].group = node[x].group
  BY <1>3, <1>4, <1>5, CurSet DEF WeightInv
<1>7. k \in CallType
  BY <1>2, <1>3 DEF CallType
<1>8. call'[c] = k
  BY <1>1, <1>2
<1>9. CallOK(c)'
  BY <1>3, <1>8 DEF CallOK
<1>10. Kept /\ made' \in 0..MaxCalls /\ raced' \in BOOLEAN /\ reset' \in BOOLEAN /\ builds' = builds
  BY <1>1, <1>6 DEF Kept, WeightInv, WeightTypeOK
<1> HIDE DEF k, o
<1> QED
  BY <1>1, <1>6, <1>7, <1>9, <1>10, OneWeight

(* What a boost is: one more up to the wrap, or twice the weight. *)
LEMMA BoostOK ==
    ASSUME NEW n \in NodeType, Word \in Nat, Word >= 2, 1 \in Words
    PROVE  /\ More(n) \in Words /\ Boost(n) \in Words
           /\ Boost(n) >= More(n) /\ Boost(n) >= Add(n.weight, n.weight)
           /\ Boost(n) \in {More(n), Add(n.weight, n.weight)}
<1>1. n.eff \in Words /\ n.weight \in Words
  BY DEF NodeType
<1> DEFINE a == More(n)
           b == Add(n.weight, n.weight)
<1>2. a \in Words /\ b \in Words
  BY <1>1, WordOps DEF More
<1>3. Boost(n) = Max({a, b})
  BY DEF Boost
<1> HIDE DEF a, b
<1>4. a \in Nat /\ b \in Nat
  BY <1>2 DEF Words
<1>5. Max({a, b}) = IF a >= b THEN a ELSE b
  BY <1>4 DEF Max
<1>6. Boost(n) \in {a, b} /\ Boost(n) >= a /\ Boost(n) >= b
  BY <1>3, <1>4, <1>5
<1> QED
  BY <1>2, <1>6 DEF a, b

(* An outcome changes the weights a node has, not the one it was given. *)
LEMMA ScoredOK ==
    ASSUME kind \in WeightKinds, NEW n \in NodeType, NEW r \in Outcomes,
           Word \in Nat, Word >= 2, 1 \in Words
    PROVE  /\ Scored(n, r) \in NodeType
           /\ Scored(n, r).weight = n.weight /\ Scored(n, r).group = n.group
           /\ (kind = "rw" /\ r = "ok") \/ Scored(n, r).cur = n.cur
<1> DEFINE b == Boost(n)
           m == More(n)
           l == Less(n.eff)
<1>1. b \in Words /\ m \in Words
  BY BoostOK
<1>2. l \in Words
  BY DEF Less, NodeType, Words
<1>3. CASE kind = "weight"
  <2>1. Scored(n, r) \in {[n EXCEPT !.eff = b], [n EXCEPT !.eff = l], n}
    BY <1>3 DEF Scored, WeightScored
  <2> HIDE DEF b, l
  <2> QED
    BY <1>1, <1>2, <1>3, <2>1 DEF NodeType
<1>4. CASE kind = "dynamic"
  <2>1. Scored(n, r) \in {[n EXCEPT !.eff = b], [n EXCEPT !.eff = 1], [n EXCEPT !.eff = l]}
    BY <1>4 DEF Scored, DynamicScored
  <2> HIDE DEF b, l
  <2>2. /\ Scored(n, r) \in NodeType /\ Scored(n, r).weight = n.weight /\ Scored(n, r).group = n.group
        /\ Scored(n, r).eff \in {b, 1, l} /\ Scored(n, r).cur = n.cur
    BY <1>1, <1>2, <2>1 DEF NodeType
  <2> QED
    BY <1>4, <2>2 DEF b, l
<1>5. CASE kind = "rw"
  <2> DEFINE x == [n EXCEPT !.eff = m]
  <2>1. /\ Scored(n, r) \in {[x EXCEPT !.cur = b], [n EXCEPT !.eff = l], n}
        /\ r # "ok" => Scored(n, r) \in {[n EXCEPT !.eff = l], n}
    BY <1>5 DEF Scored, RwScored
  <2> HIDE DEF b, m, l
  <2>2. x \in NodeType /\ x.weight = n.weight /\ x.group = n.group /\ x.eff = m
    BY <1>1 DEF NodeType
  <2> HIDE DEF x
  <2>3. /\ Scored(n, r) \in NodeType /\ Scored(n, r).weight = n.weight /\ Scored(n, r).group = n.group
        /\ Scored(n, r).eff \in {m, l, n.eff} /\ (r # "ok" => Scored(n, r).cur = n.cur)
    BY <1>1, <1>2, <2>1, <2>2 DEF NodeType
  <2> QED
    BY <1>5, <2>3 DEF m, l
<1> QED
  BY <1>3, <1>4, <1>5 DEF WeightKinds

LEMMA DoneNode ==
    ASSUME WeightInv, kind # "hash", NEW c \in Calls, NEW r \in Outcomes, Done(c, r)
    PROVE  LET o == call[c].sel IN
           /\ o \in Ids /\ node[o] \in NodeType /\ node'[o] = Scored(node[o], r)
           /\ \A x \in Ids \ {o} : node'[x] = node[x]
           /\ node' \in [Ids -> NodeType] /\ Kept
<1> DEFINE o == call[c].sel
<1>1. /\ call[c].at = "call" /\ node' = [node EXCEPT ![o] = Scored(node[o], r)]
      /\ UNCHANGED <<kind, cache, build, picker, builds, made, raced>>
  BY DEF Done
<1>2. /\ Word \in Nat /\ Word >= 2 /\ 1 \in Words /\ node \in [Ids -> NodeType]
      /\ kind \in WeightKinds
  BY TypesOf DEF WeightInv, Kinds
<1>3. o \in Ids
  BY <1>1 DEF WeightInv, CallOK
<1> HIDE DEF o
<1>4. node[o] \in NodeType
  BY <1>2, <1>3
<1>5. /\ Scored(node[o], r) \in NodeType
      /\ Scored(node[o], r).weight = node[o].weight /\ Scored(node[o], r).group = node[o].group
  BY <1>2, <1>4, ScoredOK
<1>6. node'[o] = Scored(node[o], r) /\ (\A x \in Ids \ {o} : node'[x] = node[x])
      /\ node' \in [Ids -> NodeType]
  BY <1>1, <1>2, <1>3, <1>5
<1>7. Kept
  BY <1>1, <1>5, <1>6 DEF Kept
<1> QED
  BY <1>3, <1>4, <1>6, <1>7 DEF o

LEMMA DoneOK ==
    ASSUME WeightInv, kind # "hash", NEW c \in Calls, NEW r \in Outcomes, Done(c, r)
    PROVE  WeightInv'
<1>1. /\ call' = [call EXCEPT ![c] = Idle] /\ reset' = (reset \/ (kind = "rw" /\ r = "ok"))
      /\ UNCHANGED <<builds, made, raced>>
  BY DEF Done
<1>2. node' \in [Ids -> NodeType] /\ Kept
  BY DoneNode
<1>3. Idle \in CallType
  BY TypesOf DEF Idle, CallType, WeightInv
<1>4. call'[c] = Idle
  BY <1>1, TypesOf DEF WeightInv
<1>5. CallOK(c)'
  BY <1>4 DEF CallOK, Idle
<1>6. made' \in 0..MaxCalls /\ raced' \in BOOLEAN /\ reset' \in BOOLEAN /\ builds' = builds
  BY <1>1 DEF WeightInv, WeightTypeOK
<1> QED
  BY <1>1, <1>2, <1>3, <1>5, <1>6, OneWeight

-----------------------------------------------------------------------------
ClientInv == WeightInv /\ RingInv

LEMMA InitClient == Init => ClientInv
<1> SUFFICES ASSUME Init PROVE ClientInv
  OBVIOUS
<1>1. RingInv
  BY InitRingInv DEF Init
<1>2. /\ node = [o \in Ids |-> None] /\ cache = [u \in Services |-> <<>>] /\ build = NoBuild
      /\ picker = [u \in Services |-> <<>>] /\ builds = 0 /\ made = 0
      /\ call = [c \in Calls |-> Idle] /\ raced = FALSE /\ reset = FALSE /\ kind \in Kinds
  BY DEF Init, WeightInit
<1>3. Word \in Nat /\ Word >= 2 /\ MaxBuilds \in Nat /\ MaxCalls \in Nat /\ 0 \in Words
  BY WeightAssumption DEF Words
<1>4. None \in NodeType /\ Idle \in CallType
  BY <1>3 DEF None, NodeType, Idle, CallType
<1>5. WeightTypeOK
  <2>1. node \in [Ids -> NodeType] /\ call \in [Calls -> CallType]
    BY <1>2, <1>4
  <2>2. builds \in 0..MaxBuilds /\ made \in 0..MaxCalls
    BY <1>2, <1>3
  <2>3. /\ picker \in [Services -> Seq(Ids)] /\ cache \in [Services -> Ids \cup {<<>>}]
        /\ build \in BuildType
    BY <1>2, NoBuildRec
  <2>4. raced \in BOOLEAN /\ reset \in BOOLEAN
    BY <1>2, Zenon
  <2> QED
    BY <2>1, <2>2, <2>3, <2>4, Zenon DEF WeightTypeOK, NodeType, CallType, BuildType, Words
<1>6. NamesOK
  BY <1>2, NoBuildRec DEF NamesOK, Named
<1>7. \A c \in Calls : CallOK(c)
  BY <1>2 DEF CallOK, Idle
<1> QED
  BY <1>1, <1>2, <1>5, <1>6, <1>7 DEF ClientInv, WeightInv

LEMMA WeightStep ==
    ASSUME WeightInv, kind # "hash", WeightNext
    PROVE  WeightInv'
BY BuildStartOK, SkipConnOK, ReuseNodeOK, MakeNodeOK, BuildEndOK, PickOK, VisitsOK, DynamicReadOK,
   SelectOK, DoneOK DEF WeightNext

LEMMA WeightStutter ==
    ASSUME WeightInv, UNCHANGED wvars
    PROVE  WeightInv'
BY DEF WeightInv, wvars, WeightTypeOK, CallOK, NamesOK, Named, NoBuild, Ids

(* Whatever the balancer, its nodes, its picker and its calls keep their shape through any
   interleaving of Builds, Picks and Dones, and the ring holds the connected addresses. *)
THEOREM ClientInvariant == Spec => []ClientInv
<1>1. ASSUME ClientInv, [Next]_vars PROVE ClientInv'
  <2>1. CASE kind # "hash" /\ WeightNext /\ UNCHANGED rvars
    BY <1>1, <2>1, WeightStep, RingStep DEF ClientInv
  <2>2. CASE RingNext /\ UNCHANGED wvars
    BY <1>1, <2>2, WeightStutter, RingStep DEF ClientInv
  <2>3. CASE UNCHANGED vars
    <3>1. UNCHANGED wvars /\ UNCHANGED rvars
      BY <2>3 DEF vars
    <3> QED
      BY <1>1, <3>1, WeightStutter, RingStep DEF ClientInv
  <2> QED
    BY <1>1, <2>1, <2>2, <2>3 DEF Next
<1> QED
  BY <1>1, InitClient, PTL DEF Spec

(* The variables of all the balancers keep their types: a weight is a word after any
   addition, subtraction and outcome, and a Pick is always at a node there is. *)
THEOREM BalancerTypeOK == Spec => []TypeOK
<1>1. ClientInv => TypeOK
  BY DEF ClientInv, WeightInv, RingInv, TypeOK
<1> QED
  BY <1>1, ClientInvariant, PTL

(* No client is given a node with a connection to another service, however the Builds of all
   the clients follow each other in the one cache, and whichever connections come and go
   (rw_weight_balancer.go:22-75, ioc/grpc.go:109-122). *)
THEOREM ServicesApart == Spec => []OwnService
<1>1. ClientInv => OwnService
  BY DEF ClientInv, WeightInv, NamesOK, Named, OwnService
<1> QED
  BY <1>1, ClientInvariant, PTL

(* A client of the hash balancer finds the next virtual node, beside the weighted ones. *)
THEOREM ClientRingCorrect == Spec => []RingExact
<1>1. ClientInv => RingExact
  BY SortedRingExact DEF ClientInv, RingInv
<1> QED
  BY <1>1, ClientInvariant, PTL

(* Nor does a connection that comes or goes move the keys of the others. *)
THEOREM ClientKeysStay == Spec => RingMoves
<1>1. RingInv /\ [Next]_vars => [RingNext]_rvars
  BY DEF Next, vars
<1>2. ClientInv => RingInv
  BY DEF ClientInv
<1>3. Init => RingInit
  BY DEF Init
<1>4. Spec => RingSpec
  BY <1>1, <1>2, <1>3, ClientInvariant, PTL DEF Spec, RingSpec
<1> QED
  BY <1>4, KeysStay, PTL

-----------------------------------------------------------------------------
(* Sums over finite sets *)

AnyOf(s) == CHOOSE x \in s : TRUE

(* T is the function of the sums of f over the sets in D. *)
Sums(f, D, T) ==
    T = [s \in D |-> IF s = {} THEN 0 ELSE f[AnyOf(s)] + T[s \ {AnyOf(s)}]]

LEMMA Smaller ==
    ASSUME NEW S, IsFiniteSet(S), NEW s \in SUBSET S
    PROVE  /\ IsFiniteSet(s) /\ Cardinality(s) \in Nat
           /\ s # {} => /\ AnyOf(s) \in s /\ Cardinality(s) >= 1 /\ s \ {AnyOf(s)} \in SUBSET S
                        /\ Cardinality(s \ {AnyOf(s)}) = Cardinality(s) - 1
<1>1. IsFiniteSet(s) /\ Cardinality(s) \in Nat
  BY FS_Subset, FS_CardinalityType
<1>2. ASSUME s # {} PROVE AnyOf(s) \in s
  BY <1>2 DEF AnyOf
<1>3. ASSUME s # {} PROVE Cardinality(s) # 0
  BY <1>1, <1>3, FS_EmptySet
<1>4. ASSUME s # {} PROVE Cardinality(s \ {AnyOf(s)}) = Cardinality(s) - 1
  BY <1>1, <1>2, <1>4, FS_RemoveElement
<1> QED
  BY <1>1, <1>2, <1>3, <1>4

(* The sums exist, over sets of any size: the least size without them cannot be. *)
LEMMA SumsExist ==
    ASSUME NEW S, IsFiniteSet(S), NEW f, NEW n \in Nat
    PROVE  \E T : Sums(f, {s \in SUBSET S : Cardinality(s) <= n}, T)
<1> DEFINE Upto(k) == {s \in SUBSET S : Cardinality(s) <= k}
           Bad == {k \in Nat : ~\E T : Sums(f, Upto(k), T)}
<1>1. ASSUME Bad # {} PROVE FALSE
  <2>1. PICK k \in Bad : \A m \in Bad : k <= m
    BY <1>1, MinOf
  <2>2. CASE k = 0
    <3> DEFINE T == [s \in Upto(0) |-> 0]
    <3>1. \A s \in Upto(0) : s = {}
      <4> TAKE s \in Upto(0)
      <4>1. Cardinality(s) \in Nat /\ Cardinality(s) <= 0 /\ (s # {} => Cardinality(s) >= 1)
        BY Smaller
      <4> QED
        BY <4>1
    <3>2. T = [s \in Upto(0) |-> IF s = {} THEN 0 ELSE f[AnyOf(s)] + T[s \ {AnyOf(s)}]]
      BY <3>1
    <3>3. Sums(f, Upto(0), T)
      BY <3>2 DEF Sums
    <3> QED
      BY <2>2, <3>3
  <2>3. CASE k # 0
    <3>1. k - 1 \in Nat /\ k - 1 \notin Bad
      BY <2>1, <2>3
    <3>2. PICK T : Sums(f, Upto(k - 1), T)
      BY <3>1
    <3> DEFINE Item(s, F) == IF s = {} THEN 0 ELSE f[AnyOf(s)] + F[s \ {AnyOf(s)}]
               U == [s \in Upto(k) |-> Item(s, T)]
               V == [s \in Upto(k) |-> Item(s, U)]
    <3>3. ASSUME NEW s \in Upto(k - 1) PROVE s \in Upto(k) /\ T[s] = U[s]
      <4>1. Cardinality(s) \in Nat /\ Cardinality(s) <= k - 1
        BY Smaller
      <4>2. s \in Upto(k)
        BY <3>1, <4>1
      <4>3. T[s] = Item(s, T)
        BY <3>2 DEF Sums
      <4> QED
        BY <4>2, <4>3
    <3>4. ASSUME NEW s \in Upto(k), s # {} PROVE s \ {AnyOf(s)} \in Upto(k - 1)
      BY <3>1, <3>4, Smaller
    <3>5. ASSUME NEW s \in Upto(k) PROVE Item(s, T) = Item(s, U)
      BY <3>3, <3>4
    <3>6. U = V
      BY <3>5
    <3>7. Sums(f, Upto(k), U)
      BY <3>6 DEF Sums
    <3> QED
      BY <3>7
  <2> QED
    BY <2>2, <2>3
<1> QED
  BY <1>1

SumsOf(f) == CHOOSE T : Sums(f, SUBSET DOMAIN f, T)

LEMMA SumDef ==
    ASSUME NEW f
    PROVE  SumFunction(f) = SumsOf(f)[DOMAIN f]
BY DEF SumFunction, SumFunctionOnSet, FoldFunctionOnSet, MapThenFoldSet, Sums, SumsOf, AnyOf

(* The sum over a set: that of a smaller one and an element. *)
LEMMA SumAt ==
    ASSUME NEW S, IsFiniteSet(S), NEW f \in [S -> Int]
    PROVE  \A s \in SUBSET S :
               /\ SumsOf(f)[s] = IF s = {} THEN 0 ELSE f[AnyOf(s)] + SumsOf(f)[s \ {AnyOf(s)}]
               /\ SumsOf(f)[s] \in Int
<1> DEFINE T == SumsOf(f)
           n == Cardinality(S)
<1>1. n \in Nat /\ {s \in SUBSET S : Cardinality(s) <= n} = SUBSET S
  BY FS_CardinalityType, FS_Subset
<1>2. \E F : Sums(f, SUBSET DOMAIN f, F)
  <2>1. n \in Nat
    BY <1>1
  <2> HIDE DEF n
  <2>2. \E F : Sums(f, {s \in SUBSET S : Cardinality(s) <= n}, F)
    BY <2>1, SumsExist
  <2>3. DOMAIN f = S
    OBVIOUS
  <2> QED
    BY <1>1, <2>2, <2>3 DEF n
<1>3. Sums(f, SUBSET S, T)
  <2>1. Sums(f, SUBSET DOMAIN f, T)
    BY <1>2 DEF SumsOf
  <2> QED
    BY <2>1
<1> HIDE DEF T
<1>4. \A s \in SUBSET S : T[s] = IF s = {} THEN 0 ELSE f[AnyOf(s)] + T[s \ {AnyOf(s)}]
  BY <1>3 DEF Sums
<1> DEFINE Bad == {k \in Nat : \E s \in SUBSET S : Cardinality(s) = k /\ T[s] \notin Int}
<1>5. ASSUME Bad # {} PROVE FALSE
  <2>1. PICK k \in Bad : \A m \in Bad : k <= m
    BY <1>5, MinOf
  <2>2. PICK s \in SUBSET S : Cardinality(s) = k /\ T[s] \notin Int
    BY <2>1
  <2>3. s # {}
    <3>1. ASSUME s = {} PROVE FALSE
      <4>1. T[s] = 0
        BY <1>4, <3>1
      <4> QED
        BY <2>2, <4>1
    <3> QED
      BY <3>1
  <2> DEFINE x == AnyOf(s)
             r == s \ {x}
  <2>4. x \in S /\ r \in SUBSET S /\ Cardinality(r) = k - 1 /\ k - 1 \in Nat
    BY <2>2, <2>3, Smaller
  <2>5. T[s] = f[x] + T[r]
    BY <1>4, <2>3
  <2> HIDE DEF x, r
  <2>6. k - 1 \notin Bad
    BY <2>1, <2>4
  <2>7. T[r] \in Int
    BY <2>4, <2>6
  <2> QED
    BY <2>2, <2>4, <2>5, <2>7
<1>6. ASSUME NEW s \in SUBSET S PROVE T[s] \in Int
  <2>1. Cardinality(s) \in Nat /\ Cardinality(s) \notin Bad
    BY <1>5, Smaller
  <2> QED
    BY <2>1
<1> QED
  BY <1>4, <1>6 DEF T

(* A sum changes by what one of its terms does. *)
LEMMA SumChange ==
    ASSUME NEW S, IsFiniteSet(S), NEW f \in [S -> Int], NEW g \in [S -> Int], NEW a \in S,
           \A x \in S \ {a} : g[x] = f[x]
    PROVE  /\ SumFunction(f) \in Int /\ SumFunction(g) \in Int
           /\ SumFunction(g) = SumFunction(f) + g[a] - f[a]
<1> DEFINE T == SumsOf(f)
           U == SumsOf(g)
           Diff(s) == IF a \in s THEN g[a] - f[a] ELSE 0
<1>1. \A s \in SUBSET S : /\ T[s] = IF s = {} THEN 0 ELSE f[AnyOf(s)] + T[s \ {AnyOf(s)}]
                          /\ T[s] \in Int
  BY SumAt
<1>2. \A s \in SUBSET S : /\ U[s] = IF s = {} THEN 0 ELSE g[AnyOf(s)] + U[s \ {AnyOf(s)}]
                          /\ U[s] \in Int
  BY SumAt
<1> HIDE DEF T, U
<1> DEFINE Bad == {k \in Nat : \E s \in SUBSET S : Cardinality(s) = k /\ U[s] # T[s] + Diff(s)}
<1>3. ASSUME Bad # {} PROVE FALSE
  <2>1. PICK k \in Bad : \A m \in Bad : k <= m
    BY <1>3, MinOf
  <2>2. PICK s \in SUBSET S : Cardinality(s) = k /\ U[s] # T[s] + Diff(s)
    BY <2>1
  <2>3. s # {}
    <3>1. ASSUME s = {} PROVE FALSE
      <4>1. U[s] = 0 /\ T[s] = 0 /\ Diff(s) = 0
        BY <1>1, <1>2, <3>1
      <4> QED
        BY <2>2, <4>1
    <3> QED
      BY <3>1
  <2> DEFINE x == AnyOf(s)
             r == s \ {x}
  <2>4. x \in s /\ x \in S /\ r \in SUBSET S /\ Cardinality(r) = k - 1 /\ k - 1 \in Nat
    <3>1. /\ Cardinality(s) \in Nat
          /\ AnyOf(s) \in s /\ Cardinality(s) >= 1 /\ s \ {AnyOf(s)} \in SUBSET S
          /\ Cardinality(s \ {AnyOf(s)}) = Cardinality(s) - 1
      BY <2>3, Smaller
    <3> QED
      BY <2>2, <3>1
  <2>5. T[s] = f[x] + T[r] /\ U[s] = g[x] + U[r] /\ T[r] \in Int /\ U[r] \in Int
    BY <1>1, <1>2, <2>3, <2>4
  <2>6. U[r] = T[r] + Diff(r)
    <3> HIDE DEF x, r, Diff
    <3>1. k - 1 \notin Bad
      BY <2>1, <2>4
    <3> QED
      BY <2>4, <3>1
  <2>7. Diff(s) = Diff(r) + g[x] - f[x] /\ Diff(r) \in Int
    <3> HIDE DEF x
    <3>1. CASE x = a
      BY <2>4, <3>1
    <3>2. CASE x # a
      <4>1. g[x] = f[x] /\ (a \in s <=> a \in r)
        BY <2>4, <3>2
      <4> QED
        BY <2>4, <4>1
    <3> QED
      BY <3>1, <3>2
  <2>8. f[x] \in Int /\ g[x] \in Int
    BY <2>4
  <2> HIDE DEF x, r, Diff
  <2> QED
    BY <2>2, <2>5, <2>6, <2>7, <2>8
<1>4. U[S] = T[S] + Diff(S)
  <2>1. Cardinality(S) \in Nat /\ Cardinality(S) \notin Bad
    BY <1>3, Smaller
  <2> HIDE DEF Diff
  <2> QED
    BY <2>1
<1>5. SumFunction(f) = T[S] /\ SumFunction(g) = U[S] /\ T[S] \in Int /\ U[S] \in Int
  BY <1>1, <1>2, SumDef DEF T, U
<1>6. f[a] \in Int /\ g[a] \in Int
  OBVIOUS
<1> QED
  BY <1>4, <1>5, <1>6

LEMMA SumZero ==
    ASSUME NEW S, IsFiniteSet(S), NEW f \in [S -> Int], \A x \in S : f[x] = 0
    PROVE  SumFunction(f) = 0
<1> DEFINE T == SumsOf(f)
<1>1. \A s \in SUBSET S : T[s] = IF s = {} THEN 0 ELSE f[AnyOf(s)] + T[s \ {AnyOf(s)}]
  BY SumAt
<1> HIDE DEF T
<1> DEFINE Bad == {k \in Nat : \E s \in SUBSET S : Cardinality(s) = k /\ T[s] # 0}
<1>2. ASSUME Bad # {} PROVE FALSE
  <2>1. PICK k \in Bad : \A m \in Bad : k <= m
    BY <1>2, MinOf
  <2>2. PICK s \in SUBSET S : Cardinality(s) = k /\ T[s] # 0
    BY <2>1
  <2>3. s # {}
    BY <1>1, <2>2
  <2> DEFINE x == AnyOf(s)
             r == s \ {x}
  <2>4. x \in S /\ r \in SUBSET S /\ Cardinality(r) = k - 1 /\ k - 1 \in Nat
    <3>1. /\ Cardinality(s) \in Nat
          /\ AnyOf(s) \in s /\ Cardinality(s) >= 1 /\ s \ {AnyOf(s)} \in SUBSET S
          /\ Cardinality(s \ {AnyOf(s)}) = Cardinality(s) - 1
      BY <2>3, Smaller
    <3> QED
      BY <2>2, <3>1
  <2>5. T[s] = f[x] + T[r]
    BY <1>1, <2>3
  <2> HIDE DEF x, r
  <2>6. k - 1 \notin Bad
    BY <2>1, <2>4
  <2>7. T[r] = 0
    BY <2>4, <2>6
  <2> QED
    BY <2>2, <2>4, <2>5, <2>7
<1>3. Cardinality(S) \in Nat /\ Cardinality(S) \notin Bad
  BY <1>2, Smaller
<1>4. T[S] = 0
  BY <1>3
<1> QED
  BY <1>4, SumDef DEF T

-----------------------------------------------------------------------------
(* No Pick gains or loses weight *)

(* The node a call is at. *)
Here(c) == call[c].cand[call[c].i]

(* Nodes a Build has not come to are blank, and nobody has them. *)
Made(o) == o[2] < builds \/ (o[2] = builds /\ o[1] \notin build.todo)

AllMade(s) == \A i \in DOMAIN s : Made(s[i])

CallMade(c) ==
    /\ \A i \in DOMAIN call[c].cand : Made(call[c].cand[i])
    /\ call[c].at # "idle" => Made(call[c].sel)
    /\ call[c].at \in {"idle", "call"} => call[c].total = 0
    /\ call[c].at = "write" => kind = "dynamic"

(* As long as no two Picks meet, the one between its read and its write is alone at its
   node, and knows its weight. *)
Alone(c) ==
    call[c].at = "write" /\ ~raced =>
        /\ call[c].was = node[Here(c)].cur
        /\ \A d \in Calls \ {c} : call[d].at = "write" => Here(d) # Here(c)

Balanced == \E q \in Int : SumFunction(Gained) - SumFunction(InFlight) = q * Word

Ledger ==
    /\ \A o \in Ids : ~Made(o) => node[o] = None
    /\ AllMade(build.nodes) /\ \A u \in Services : AllMade(picker[u])
    /\ \A u \in Services : cache[u] # <<>> => Made(cache[u])
    /\ \A c \in Calls : CallMade(c) /\ Alone(c)
    /\ ~raced /\ ~reset => Balanced

LEMMA FiniteIds == IsFiniteSet(Ids) /\ IsFiniteSet(Calls)
<1>1. IsFiniteSet(Conns) /\ IsFiniteSet(Calls) /\ MaxBuilds \in Nat
  BY WeightAssumption
<1>2. IsFiniteSet(1..MaxBuilds)
  BY <1>1, FS_Interval
<1> QED
  BY <1>1, <1>2, FS_Product DEF Ids

LEMMA LedgerTypes ==
    ASSUME WeightInv, Ledger
    PROVE  /\ Gained \in [Ids -> Int] /\ \A o \in Ids : Gained[o] = node[o].cur - node[o].weight
           /\ InFlight \in [Calls -> Int]
           /\ \A c \in Calls : InFlight[c] = call[c].total - IF call[c].at = "write"
                                                             THEN node[Here(c)].eff ELSE 0
           /\ \A c \in Calls : call[c].at \in {"visit", "write"} => Here(c) \in Ids /\ Made(Here(c))
<1>1. /\ node \in [Ids -> NodeType] /\ call \in [Calls -> CallType] /\ Word \in Nat
  BY TypesOf DEF WeightInv
<1>2. \A o \in Ids : node[o].cur \in Int /\ node[o].weight \in Int /\ node[o].eff \in Int
  BY <1>1 DEF NodeType, Words
<1>3. ASSUME NEW c \in Calls, call[c].at \in {"visit", "write"} PROVE Here(c) \in Ids /\ Made(Here(c))
  <2>1. call[c].i \in 1..Len(call[c].cand) /\ call[c].cand \in Seq(Ids) /\ CallMade(c)
    BY <1>1, <1>3 DEF WeightInv, CallOK, CallType, Ledger
  <2>2. call[c].i \in DOMAIN call[c].cand
    BY <2>1
  <2> QED
    BY <2>1, <2>2 DEF Here, CallMade
<1>4. Gained \in [Ids -> Int] /\ \A o \in Ids : Gained[o] = node[o].cur - node[o].weight
  BY <1>2 DEF Gained
<1>5. ASSUME NEW c \in Calls
      PROVE  /\ InFlight[c] = call[c].total - IF call[c].at = "write" THEN node[Here(c)].eff ELSE 0
             /\ InFlight[c] \in Int
  <2>1. InFlight[c] = call[c].total - IF call[c].at = "write" THEN node[Here(c)].eff ELSE 0
    BY DEF InFlight, Here
  <2>2. call[c].total \in Int
    BY <1>1 DEF CallType, Words
  <2>3. call[c].at = "write" => node[Here(c)].eff \in Int
    BY <1>2, <1>3
  <2> QED
    BY <2>1, <2>2, <2>3
<1>6. InFlight \in [Calls -> Int]
  BY <1>5 DEF InFlight
<1> QED
  BY <1>3, <1>4, <1>5, <1>6

(* A step of one call at one node: what the node gains is what the call owes more, up to the
   wrap of a word. *)
LEMMA OneLedger ==
    ASSUME WeightInv, Ledger, NEW c \in Calls, NEW k \in CallType, call' = [call EXCEPT ![c] = k],
           NEW o \in Ids, Made(o), node' \in [Ids -> NodeType], \A x \in Ids \ {o} : node'[x] = node[x],
           node'[o].weight = node[o].weight, UNCHANGED <<kind, cache, build, picker, builds>>,
           raced => raced', reset => reset',
           \/ node'[o] = node[o] /\ k.at # "write"
           \/ ~raced' => \A d \in Calls \ {c} : call[d].at = "write" => Here(d) # o,
           CallMade(c)', k.at = "write" => k.cand[k.i] = o /\ k.was = node'[o].cur,
           ~raced' /\ ~reset' =>
               (node'[o].cur - node[o].cur)
                   - ((k.total - IF k.at = "write" THEN node'[o].eff ELSE 0) - InFlight[c])
                   \in {0, Word, -Word}
    PROVE  Ledger'
<1>1. /\ node \in [Ids -> NodeType] /\ call \in [Calls -> CallType] /\ Word \in Nat
  BY TypesOf DEF WeightInv
<1>2. call'[c] = k /\ \A d \in Calls \ {c} : call'[d] = call[d]
  BY <1>1
<1>3. \A x : Made(x)' <=> Made(x)
  BY DEF Made
<1>4. \A x \in Ids : ~Made(x) => node[x] = None
  BY DEF Ledger
<1>5. \A x \in Ids : ~Made(x)' => node'[x] = None
  BY <1>3, <1>4
<1>6. (/\ AllMade(build.nodes) /\ \A u \in Services : AllMade(picker[u])
       /\ \A u \in Services : cache[u] # <<>> => Made(cache[u]))'
  BY DEF Ledger, AllMade, Made
<1>7. ASSUME NEW d \in Calls \ {c} PROVE CallMade(d)'
  <2>1. CallMade(d)
    BY DEF Ledger
  <2> QED
    BY <1>2, <1>3, <2>1 DEF CallMade
<1>8. \A d \in Calls \ {c} : Here(d)' = Here(d)
  BY <1>2 DEF Here
<1>9. k.at = "write" => Here(c)' = o
  BY <1>2 DEF Here
<1>10. \A d \in Calls : call[d].at = "write" => Here(d) \in Ids
  BY LedgerTypes
<1>11. ASSUME ~raced', NEW d \in Calls \ {c}, call[d].at = "write"
       PROVE  node'[Here(d)] = node[Here(d)] /\ (k.at = "write" => Here(d) # o)
  BY <1>10, <1>11
<1>12. ASSUME NEW d \in Calls \ {c} PROVE Alone(d)'
  <2>1. SUFFICES ASSUME call[d].at = "write", ~raced'
                 PROVE  /\ call[d].was = node'[Here(d)].cur
                        /\ \A e \in Calls \ {d} : call'[e].at = "write" => Here(e)' # Here(d)
    BY <1>2, <1>8 DEF Alone
  <2>2. ~raced /\ Alone(d)
    BY <2>1 DEF Ledger
  <2>3. call[d].was = node'[Here(d)].cur
    BY <1>11, <2>1, <2>2 DEF Alone
  <2>4. ASSUME NEW e \in Calls \ {d}, call'[e].at = "write" PROVE Here(e)' # Here(d)
    <3>1. CASE e = c
      BY <1>2, <1>9, <1>11, <2>1, <2>4, <3>1
    <3>2. CASE e # c
      BY <1>2, <1>8, <2>1, <2>2, <2>4, <3>2 DEF Alone
    <3> QED
      BY <3>1, <3>2
  <2> QED
    BY <2>3, <2>4
<1>13. Alone(c)'
  <2>1. SUFFICES ASSUME k.at = "write", ~raced'
                 PROVE  /\ k.was = node'[o].cur
                        /\ \A e \in Calls \ {c} : call'[e].at = "write" => Here(e)' # o
    BY <1>2, <1>9 DEF Alone
  <2> QED
    BY <1>2, <1>8, <2>1
<1>14. ASSUME ~raced', ~reset' PROVE Balanced'
  <2> DEFINE g == [x \in Ids |-> node'[x].cur - node'[x].weight]
             owed == k.total - IF k.at = "write" THEN node'[o].eff ELSE 0
             h == [InFlight EXCEPT ![c] = owed]
  <2>1. /\ Gained \in [Ids -> Int] /\ Gained[o] = node[o].cur - node[o].weight
        /\ \A x \in Ids : Gained[x] = node[x].cur - node[x].weight
        /\ InFlight \in [Calls -> Int] /\ InFlight[c] \in Int
        /\ \A d \in Calls : InFlight[d] = call[d].total - IF call[d].at = "write"
                                                          THEN node[Here(d)].eff ELSE 0
    BY LedgerTypes
  <2>2. /\ \A x \in Ids : node'[x].cur \in Int /\ node'[x].weight \in Int /\ node'[x].eff \in Int
        /\ node[o].cur \in Int /\ node[o].weight \in Int /\ k.total \in Int
    BY <1>1 DEF NodeType, CallType, Words
  <2>3. g \in [Ids -> Int] /\ g[o] = node'[o].cur - node'[o].weight /\ Gained' = g
        /\ \A x \in Ids \ {o} : g[x] = Gained[x]
    BY <2>1, <2>2 DEF Gained
  <2>4. owed \in Int
    BY <2>2
  <2>5. InFlight' = h
    <3>1. ASSUME NEW d \in Calls
          PROVE  call'[d].total - (IF call'[d].at = "write" THEN node'[call'[d].cand[call'[d].i]].eff ELSE 0)
                 = h[d]
      <4>1. CASE d = c
        BY <1>2, <1>9, <2>1, <4>1 DEF Here
      <4>2. CASE d # c
        BY <1>2, <1>8, <1>11, <1>14, <2>1, <4>2 DEF Here
      <4> QED
        BY <4>1, <4>2
    <3>2. DOMAIN h = Calls
      BY <2>1
    <3> HIDE DEF h
    <3>3. h = [d \in Calls |-> h[d]]
      BY <2>1 DEF h
    <3> QED
      BY <3>1, <3>3 DEF InFlight
  <2>6. h \in [Calls -> Int] /\ h[c] = owed /\ \A d \in Calls \ {c} : h[d] = InFlight[d]
    BY <2>1, <2>4
  <2> HIDE DEF g, h, owed
  <2>7. /\ SumFunction(Gained) \in Int /\ SumFunction(g) \in Int
        /\ SumFunction(g) = SumFunction(Gained) + g[o] - Gained[o]
    BY <2>1, <2>3, FiniteIds, SumChange
  <2>8. /\ SumFunction(InFlight) \in Int /\ SumFunction(h) \in Int
        /\ SumFunction(h) = SumFunction(InFlight) + h[c] - InFlight[c]
    BY <2>1, <2>6, FiniteIds, SumChange
  <2>9. PICK q \in Int : SumFunction(Gained) - SumFunction(InFlight) = q * Word
    BY <1>14 DEF Ledger, Balanced
  <2>10. (node'[o].cur - node[o].cur) - (owed - InFlight[c]) \in {0, Word, -Word}
    BY <1>14 DEF owed
  <2>11. PICK e \in {0, 1, -1} : (node'[o].cur - node[o].cur) - (owed - InFlight[c]) = e * Word
    BY <1>1, <2>10
  <2>12. (q + e) * Word = q * Word + e * Word /\ q * Word \in Int /\ e * Word \in Int /\ q + e \in Int
    BY <1>1, <2>11
  <2> DEFINE a == q * Word
             b == e * Word
             s == SumFunction(g)
             t == SumFunction(h)
             u == SumFunction(Gained)
             v == SumFunction(InFlight)
  <2>13. s - t = a + b
    <3>1. /\ s \in Int /\ t \in Int /\ u \in Int /\ v \in Int /\ a \in Int /\ b \in Int
          /\ s = u + g[o] - Gained[o] /\ t = v + h[c] - InFlight[c] /\ u - v = a
      BY <2>7, <2>8, <2>9, <2>12
    <3>2. g[o] - Gained[o] = node'[o].cur - node[o].cur /\ g[o] \in Int /\ Gained[o] \in Int
      BY <2>1, <2>2, <2>3
    <3>3. (g[o] - Gained[o]) - (h[c] - InFlight[c]) = b
      BY <2>6, <2>11, <3>2
    <3>4. h[c] \in Int /\ InFlight[c] \in Int
      BY <2>1, <2>4, <2>6
    <3> HIDE DEF a, b, s, t, u, v
    <3> QED
      BY <3>1, <3>2, <3>3, <3>4
  <2>14. s - t = (q + e) * Word
    BY <2>12, <2>13
  <2> QED
    BY <2>3, <2>5, <2>12, <2>14 DEF Balanced
<1> QED
  BY <1>5, <1>6, <1>7, <1>12, <1>13, <1>14 DEF Ledger

(* The call has given a candidate the weight v. *)
LEMMA AddedLedger ==
    ASSUME WeightInv, Ledger, NEW c \in Calls, call[c].at \in {"visit", "write"},
           NEW v \in Words, NEW total \in Words, node' = [node EXCEPT ![Here(c)].cur = v],
           call' = [call EXCEPT ![c] = Visited(c, Here(c), v, total)],
           UNCHANGED <<kind, cache, build, picker, builds, raced, reset>>,
           ~raced => \A d \in Calls \ {c} : call[d].at = "write" => Here(d) # Here(c),
           ~raced => (v - node[Here(c)].cur) - (total - InFlight[c]) \in {0, Word, -Word}
    PROVE  Ledger'
<1> DEFINE o == Here(c)
           k == Visited(c, o, v, total)
<1>1. o \in Ids /\ Made(o) /\ call[c] \in CallType /\ call \in [Calls -> CallType]
  BY LedgerTypes, TypesOf DEF WeightInv
<1>2. /\ k \in CallType /\ k.at \in {"visit", "sub"} /\ k.total = total /\ k.cand = call[c].cand
      /\ k.sel \in {o, call[c].sel}
  BY VisitedOK DEF Here
<1> HIDE DEF o
<1>3. /\ node' \in [Ids -> NodeType] /\ node'[o].weight = node[o].weight /\ node'[o].cur = v
      /\ \A x \in Ids \ {o} : node'[x] = node[x]
  <2>1. WeightTypeOK /\ node' = [node EXCEPT ![o].cur = v]
    BY DEF WeightInv, o
  <2> QED
    BY <1>1, <2>1, CurSet
<1> HIDE DEF k
<1>4. call' = [call EXCEPT ![c] = k]
  BY DEF k, o
<1>5. CallMade(c)'
  <2>1. call'[c] = k
    BY <1>1, <1>4
  <2>2. CallMade(c) /\ Made(call[c].sel)
    BY DEF Ledger, CallMade
  <2>3. \A x : Made(x)' <=> Made(x)
    BY DEF Made
  <2>4. Made(k.sel) /\ \A i \in DOMAIN k.cand : Made(k.cand[i])
    BY <1>1, <1>2, <2>2 DEF CallMade
  <2> QED
    BY <1>2, <2>1, <2>3, <2>4 DEF CallMade
<1>6. ~raced' => \A d \in Calls \ {c} : call[d].at = "write" => Here(d) # o
  BY DEF o
<1>7. ~raced' /\ ~reset' =>
          (node'[o].cur - node[o].cur)
              - ((k.total - IF k.at = "write" THEN node'[o].eff ELSE 0) - InFlight[c]) \in {0, Word, -Word}
  <2>1. (k.total - IF k.at = "write" THEN node'[o].eff ELSE 0) = total
    BY <1>2 DEF Words
  <2> QED
    BY <1>3, <2>1 DEF o
<1>8. k.at # "write"
  BY <1>2
<1> QED
  BY <1>1, <1>2, <1>3, <1>4, <1>5, <1>6, <1>7, <1>8, OneLedger

LEMMA VisitLedger ==
    ASSUME WeightInv, Ledger, NEW c \in Calls, Visit(c)
    PROVE  Ledger'
<1> DEFINE o == Here(c)
           v == Add(node[o].cur, node[o].eff)
           total == Add(call[c].total, node[o].eff)
<1>1. /\ kind # "dynamic" /\ call[c].at = "visit" /\ node' = [node EXCEPT ![o].cur = v]
      /\ call' = [call EXCEPT ![c] = Visited(c, o, v, total)]
      /\ UNCHANGED <<kind, cache, build, picker, builds, raced, reset>>
  BY DEF Visit, Here
<1>2. /\ Word \in Nat /\ Word >= 2 /\ node \in [Ids -> NodeType] /\ call[c] \in CallType
  BY TypesOf DEF WeightInv
<1>3. o \in Ids /\ InFlight[c] = call[c].total
  <2>1. call[c].total \in Int
    BY <1>2 DEF CallType, Words
  <2>2. InFlight[c] = call[c].total - 0
    BY <1>1, LedgerTypes
  <2> QED
    BY <1>1, <2>1, <2>2, LedgerTypes
<1>4. \A d \in Calls : call[d].at # "write"
  BY <1>1 DEF Ledger, CallMade
<1> HIDE DEF o
<1>5. node[o].cur \in Words /\ node[o].eff \in Words /\ call[c].total \in Words
  BY <1>2, <1>3 DEF NodeType, CallType
<1>6. /\ v \in Words /\ total \in Words
      /\ v = IF node[o].cur + node[o].eff < Word THEN node[o].cur + node[o].eff
             ELSE node[o].cur + node[o].eff - Word
      /\ total = IF call[c].total + node[o].eff < Word THEN call[c].total + node[o].eff
                 ELSE call[c].total + node[o].eff - Word
  BY <1>2, <1>5, WordOps
<1> HIDE DEF v, total
<1>7. (v - node[o].cur) - (total - InFlight[c]) \in {0, Word, -Word}
  BY <1>2, <1>3, <1>5, <1>6 DEF Words
<1> QED
  BY <1>1, <1>4, <1>6, <1>7, AddedLedger DEF o

LEMMA WriteLedger ==
    ASSUME WeightInv, Ledger, NEW c \in Calls, DynamicWrite(c)
    PROVE  Ledger'
<1> DEFINE o == Here(c)
           v == Add(call[c].was, node[o].eff)
<1>1. /\ call[c].at = "write" /\ node' = [node EXCEPT ![o].cur = v]
      /\ call' = [call EXCEPT ![c] = Visited(c, o, v, call[c].total)]
      /\ UNCHANGED <<kind, cache, build, picker, builds, raced, reset>>
  BY DEF DynamicWrite, Here
<1>2. /\ Word \in Nat /\ Word >= 2 /\ node \in [Ids -> NodeType] /\ call[c] \in CallType
  BY TypesOf DEF WeightInv
<1>3. o \in Ids /\ InFlight[c] = call[c].total - node[o].eff
  BY <1>1, LedgerTypes
<1>4. Alone(c)
  BY DEF Ledger
<1>5. ~raced => /\ call[c].was = node[o].cur
                /\ \A d \in Calls \ {c} : call[d].at = "write" => Here(d) # o
  BY <1>1, <1>4 DEF Alone
<1> HIDE DEF o
<1>6. node[o].cur \in Words /\ node[o].eff \in Words /\ call[c].total \in Words /\ call[c].was \in Words
  BY <1>2, <1>3 DEF NodeType, CallType
<1>7. /\ v \in Words
      /\ v = IF call[c].was + node[o].eff < Word THEN call[c].was + node[o].eff
             ELSE call[c].was + node[o].eff - Word
  BY <1>2, <1>6, WordOps
<1> HIDE DEF v
<1>8. ~raced => (v - node[o].cur) - (call[c].total - InFlight[c]) \in {0, Word, -Word}
  BY <1>2, <1>3, <1>5, <1>6, <1>7 DEF Words
<1> QED
  BY <1>1, <1>5, <1>6, <1>7, <1>8, AddedLedger DEF o

LEMMA ReadLedger ==
    ASSUME WeightInv, Ledger, NEW c \in Calls, DynamicRead(c)
    PROVE  Ledger'
<1> DEFINE o == Here(c)
           total == Add(call[c].total, node[o].eff)
           k == [at |-> "write", cand |-> call[c].cand, i |-> call[c].i, total |-> total,
                 sel |-> call[c].sel, was |-> node[o].cur]
<1>1. /\ kind = "dynamic" /\ call[c].at = "visit" /\ raced' = (raced \/ ReadLocked(o))
      /\ UNCHANGED <<kind, node, cache, build, picker, builds, reset>>
      /\ call' = [call EXCEPT ![c] = [call[c] EXCEPT !.at = "write", !.was = node[o].cur, !.total = total]]
  BY DEF DynamicRead, Here
<1>2. /\ Word \in Nat /\ Word >= 2 /\ node \in [Ids -> NodeType] /\ call[c] \in CallType
      /\ call \in [Calls -> CallType]
  BY TypesOf DEF WeightInv
<1>3. o \in Ids /\ Made(o) /\ InFlight[c] = call[c].total
  <2>1. call[c].total \in Int
    BY <1>2 DEF CallType, Words
  <2>2. InFlight[c] = call[c].total - 0
    BY <1>1, LedgerTypes
  <2> QED
    BY <1>1, <2>1, <2>2, LedgerTypes
<1>4. call[c].cand[call[c].i] = o
  BY DEF Here
<1> HIDE DEF o
<1>5. node[o].cur \in Words /\ node[o].eff \in Words /\ call[c].total \in Words
  BY <1>2, <1>3 DEF NodeType, CallType
<1>6. /\ total \in Words
      /\ total = IF call[c].total + node[o].eff < Word THEN call[c].total + node[o].eff
                 ELSE call[c].total + node[o].eff - Word
  BY <1>2, <1>5, WordOps
<1> HIDE DEF total
<1>7. call' = [call EXCEPT ![c] = k]
  <2>1. [call[c] EXCEPT !.at = "write", !.was = node[o].cur, !.total = total] = k
    BY <1>2, ReadRec
  <2> QED
    BY <1>1, <2>1, Zenon
<1>8. k \in CallType
  BY <1>2, <1>5, <1>6 DEF CallType
<1>9. /\ k.at = "write" /\ k.total = total /\ k.was = node[o].cur /\ k.cand[k.i] = o
      /\ k.cand = call[c].cand /\ k.sel = call[c].sel
  BY <1>4
<1> HIDE DEF k
<1>10. CallMade(c)'
  <2>1. call'[c] = k
    BY <1>2, <1>7
  <2>2. CallMade(c)
    BY DEF Ledger
  <2>3. \A x : Made(x)' <=> Made(x)
    BY <1>1 DEF Made
  <2> QED
    BY <1>1, <1>9, <2>1, <2>2, <2>3 DEF CallMade
<1>11. ~raced' => \A d \in Calls \ {c} : call[d].at = "write" => Here(d) # o
  BY <1>1 DEF ReadLocked, Here
<1>12. (node'[o].cur - node[o].cur)
           - ((k.total - IF k.at = "write" THEN node'[o].eff ELSE 0) - InFlight[c]) \in {0, Word, -Word}
  <2>1. node' = node
    BY <1>1
  <2>2. (node[o].cur - node[o].cur) - ((total - node[o].eff) - call[c].total) \in {0, Word, -Word}
    BY <1>2, <1>5, <1>6 DEF Words
  <2> QED
    BY <1>3, <1>9, <2>1, <2>2
<1>13. /\ node' \in [Ids -> NodeType] /\ \A x \in Ids \ {o} : node'[x] = node[x]
       /\ node'[o].weight = node[o].weight /\ node'[o].cur = node[o].cur /\ (raced => raced')
  BY <1>1, <1>2
<1> QED
  BY <1>1, <1>3, <1>7, <1>8, <1>9, <1>10, <1>11, <1>12, <1>13, OneLedger

(* A call that is at no candidate ends its Pick, or is over. *)
LEMMA EndLedger ==
    ASSUME WeightInv, Ledger, NEW c \in Calls, call[c].at \in {"sub", "call"}, NEW k \in CallType,
           k.at \in {"call", "idle"}, k.cand = <<>>, k.total = 0, k.at = "call" => k.sel = call[c].sel,
           call' = [call EXCEPT ![c] = k], ~ReadLocked(call[c].sel),
           node' \in [Ids -> NodeType], \A x \in Ids \ {call[c].sel} : node'[x] = node[x],
           node'[call[c].sel].weight = node[call[c].sel].weight,
           UNCHANGED <<kind, cache, build, picker, builds, raced>>, reset => reset',
           ~reset' => node'[call[c].sel].cur - node[call[c].sel].cur + call[c].total \in {0, Word, -Word}
    PROVE  Ledger'
<1> DEFINE o == call[c].sel
<1>1. /\ Word \in Nat /\ node \in [Ids -> NodeType] /\ call[c] \in CallType /\ call \in [Calls -> CallType]
  BY TypesOf DEF WeightInv
<1>2. o \in Ids /\ Made(o)
  BY DEF WeightInv, CallOK, Ledger, CallMade
<1>3. InFlight[c] = call[c].total /\ call[c].total \in Int
  <2>1. call[c].total \in Int
    BY <1>1 DEF CallType, Words
  <2>2. InFlight[c] = call[c].total - 0
    BY LedgerTypes
  <2> QED
    BY <2>1, <2>2
<1>4. ~raced' => \A d \in Calls \ {c} : call[d].at = "write" => Here(d) # o
  BY DEF ReadLocked, Here
<1>5. CallMade(c)'
  <2>1. call'[c] = k
    BY <1>1
  <2>2. \A x : Made(x)' <=> Made(x)
    BY DEF Made
  <2>3. DOMAIN k.cand = {}
    OBVIOUS
  <2> QED
    BY <1>2, <2>1, <2>2, <2>3 DEF CallMade
<1>6. k.at # "write"
  OBVIOUS
<1>7. ~raced' /\ ~reset' =>
          (node'[o].cur - node[o].cur)
              - ((k.total - IF k.at = "write" THEN node'[o].eff ELSE 0) - InFlight[c]) \in {0, Word, -Word}
  <2>1. (k.total - IF k.at = "write" THEN node'[o].eff ELSE 0) = 0
    OBVIOUS
  <2>2. node'[o].cur \in Int /\ node[o].cur \in Int
    BY <1>1, <1>2 DEF NodeType, Words
  <2>3. ~reset' => node'[o].cur - node[o].cur + call[c].total \in {0, Word, -Word}
    OBVIOUS
  <2>4. (node'[o].cur - node[o].cur) - (0 - InFlight[c]) = node'[o].cur - node[o].cur + call[c].total
    BY <1>3, <2>2
  <2> QED
    BY <2>1, <2>3, <2>4
<1>8. /\ \A x \in Ids \ {o} : node'[x] = node[x]
      /\ node'[o].weight = node[o].weight
  OBVIOUS
<1> HIDE DEF o
<1> QED
  BY <1>2, <1>4, <1>5, <1>6, <1>7, <1>8, OneLedger

LEMMA SelectLedger ==
    ASSUME WeightInv, Ledger, NEW c \in Calls, Select(c)
    PROVE  Ledger'
<1> DEFINE o == call[c].sel
           k == [at |-> "call", cand |-> <<>>, i |-> 1, total |-> 0, sel |-> o, was |-> 0]
           v == Sub(node[o].cur, call[c].total)
<1>1. [Idle EXCEPT !.at = "call", !.sel = o] = k
  BY CalledRec
<1>2. /\ call[c].at = "sub" /\ ~ReadLocked(o) /\ node' = [node EXCEPT ![o].cur = Sub(@, call[c].total)]
      /\ call' = [call EXCEPT ![c] = k]
      /\ UNCHANGED <<kind, cache, build, picker, builds, raced, reset>>
  BY <1>1 DEF Select
<1>3. /\ Word \in Nat /\ Word >= 2 /\ 0 \in Words /\ node \in [Ids -> NodeType] /\ call[c] \in CallType
  BY TypesOf DEF WeightInv
<1>4. o \in Ids
  BY <1>2 DEF WeightInv, CallOK
<1>5. k \in CallType /\ k.at = "call" /\ k.cand = <<>> /\ k.total = 0 /\ k.sel = o
  BY <1>3, <1>4 DEF CallType
<1> HIDE DEF k
<1>6. node[o].cur \in Words /\ call[c].total \in Words
  BY <1>3, <1>4 DEF NodeType, CallType
<1>7. v \in Words /\ v = IF call[c].total <= node[o].cur THEN node[o].cur - call[c].total
                         ELSE node[o].cur - call[c].total + Word
  BY <1>3, <1>6, WordOps
<1>8. node' = [node EXCEPT ![o].cur = v]
  BY <1>2, <1>3, <1>4
<1> HIDE DEF v
<1>9. /\ node' \in [Ids -> NodeType] /\ node'[o].weight = node[o].weight /\ node'[o].cur = v
      /\ \A x \in Ids \ {o} : node'[x] = node[x]
  <2>1. WeightTypeOK /\ o \in Ids /\ v \in Words
    BY <1>4, <1>7 DEF WeightInv
  <2> HIDE DEF o
  <2>2. /\ node' \in [Ids -> NodeType]
        /\ \A x \in Ids : /\ node'[x].weight = node[x].weight
                          /\ node'[x].cur = IF x = o THEN v ELSE node[x].cur
                          /\ x # o => node'[x] = node[x]
    BY <1>8, <2>1, CurSet
  <2> QED
    BY <2>1, <2>2
<1>10. v - node[o].cur + call[c].total \in {0, Word, -Word}
  BY <1>3, <1>6, <1>7 DEF Words
<1> QED
  BY <1>2, <1>5, <1>9, <1>10, EndLedger

LEMMA DoneLedger ==
    ASSUME WeightInv, Ledger, kind # "hash", NEW c \in Calls, NEW r \in Outcomes, Done(c, r)
    PROVE  Ledger'
<1> DEFINE o == call[c].sel
<1>1. /\ call[c].at = "call" /\ ~ReadLocked(o) /\ call' = [call EXCEPT ![c] = Idle]
      /\ reset' = (reset \/ (kind = "rw" /\ r = "ok"))
      /\ UNCHANGED <<kind, cache, build, picker, builds, raced>>
  BY DEF Done
<1>2. /\ Word \in Nat /\ Word >= 2 /\ 0 \in Words /\ 1 \in Words /\ kind \in WeightKinds
  BY TypesOf DEF WeightInv, Kinds
<1>3. /\ o \in Ids /\ node[o] \in NodeType /\ node'[o] = Scored(node[o], r)
      /\ \A x \in Ids \ {o} : node'[x] = node[x]
      /\ node' \in [Ids -> NodeType] /\ Kept
  BY DoneNode
<1>4. Idle \in CallType /\ Idle.at = "idle" /\ Idle.cand = <<>> /\ Idle.total = 0
  BY <1>2 DEF Idle, CallType
<1>5. call[c].total = 0
  BY <1>1 DEF Ledger, CallMade
<1>6. node'[o].weight = node[o].weight
  BY <1>3 DEF Kept
<1>7. ~reset' => node'[o].cur = node[o].cur
  <2>1. (kind = "rw" /\ r = "ok") \/ Scored(node[o], r).cur = node[o].cur
    BY <1>2, <1>3, ScoredOK
  <2> QED
    BY <1>1, <1>3, <2>1
<1>8. ~reset' => node'[o].cur - node[o].cur + call[c].total \in {0, Word, -Word}
  <2>1. node[o].cur \in Int
    BY <1>2, <1>3 DEF NodeType, Words
  <2> QED
    BY <1>5, <1>7, <2>1
<1> QED
  BY <1>1, <1>3, <1>4, <1>6, <1>8, EndLedger

(* A Pick begins and has added nothing. *)
LEMMA PickLedger ==
    ASSUME WeightInv, Ledger, NEW c \in Calls, NEW u \in Services, NEW g \in Groups, Pick(c, u, g)
    PROVE  Ledger'
<1>1. /\ call[c].at = "idle" /\ UNCHANGED <<kind, node, cache, build, picker, builds, raced, reset>>
  BY DEF Pick
<1>2. PICK cand \in Candidates(u, g) :
          IF cand = <<>> THEN UNCHANGED call
          ELSE call' = [call EXCEPT ![c] = [Idle EXCEPT !.at = "visit", !.cand = cand, !.sel = cand[1]]]
  BY DEF Pick
<1>3. /\ Word \in Nat /\ 0 \in Words /\ node \in [Ids -> NodeType] /\ call \in [Calls -> CallType]
  BY TypesOf DEF WeightInv
<1>4. CASE cand = <<>>
  <2>1. UNCHANGED <<kind, node, cache, build, picker, builds, raced, reset, call>>
    BY <1>1, <1>2, <1>4
  <2> QED
    BY <2>1 DEF Ledger, AllMade, Made, CallMade, Alone, Here, Balanced, Gained, InFlight
<1>5. CASE cand # <<>>
  <2> DEFINE o == cand[1]
             k == [at |-> "visit", cand |-> cand, i |-> 1, total |-> 0, sel |-> o, was |-> 0]
  <2>1. /\ cand \in Seq(Ids) /\ o \in Ids /\ 1 \in 1..Len(cand)
        /\ \A i \in DOMAIN cand : \E j \in DOMAIN picker[u] : cand[i] = picker[u][j]
    BY <1>5, CandidatesOK DEF WeightInv
  <2>2. \A i \in DOMAIN cand : Made(cand[i])
    BY <2>1 DEF Ledger, AllMade
  <2>3. Made(o)
    BY <2>1, <2>2
  <2>4. call' = [call EXCEPT ![c] = k]
    BY <1>2, <1>5 DEF Idle
  <2>5. k \in CallType
    BY <1>3, <2>1 DEF CallType
  <2>6. k.at = "visit" /\ k.cand = cand /\ k.total = 0 /\ k.sel = o
    OBVIOUS
  <2> HIDE DEF k, o
  <2>7. CallMade(c)'
    <3>1. call'[c] = k
      BY <1>3, <2>4
    <3>2. \A x : Made(x)' <=> Made(x)
      BY <1>1 DEF Made
    <3> QED
      BY <2>2, <2>3, <2>6, <3>1, <3>2 DEF CallMade
  <2>8. InFlight[c] = 0
    <3>1. call[c].total = 0
      BY <1>1 DEF Ledger, CallMade
    <3>2. InFlight[c] = call[c].total - 0
      BY <1>1, LedgerTypes
    <3> QED
      BY <3>1, <3>2
  <2>9. (node'[o].cur - node[o].cur)
            - ((k.total - IF k.at = "write" THEN node'[o].eff ELSE 0) - InFlight[c]) \in {0, Word, -Word}
    <3>1. node'[o].cur = node[o].cur /\ node[o].cur \in Int
      BY <1>1, <1>3, <2>1 DEF NodeType, Words
    <3>2. (k.total - IF k.at = "write" THEN node'[o].eff ELSE 0) = 0
      BY <2>6
    <3> QED
      BY <2>8, <3>1, <3>2
  <2>10. /\ node' \in [Ids -> NodeType] /\ node'[o] = node[o] /\ node'[o].weight = node[o].weight
         /\ \A x \in Ids \ {o} : node'[x] = node[x]
    BY <1>1, <1>3
  <2>11. k.at # "write"
    BY <2>6
  <2> QED
    BY <1>1, <2>1, <2>3, <2>4, <2>5, <2>7, <2>9, <2>10, <2>11, OneLedger
<1> QED
  BY <1>4, <1>5

(* A step of Build gives a new node the weight it begins with, and takes no node from a
   call. *)
LEMMA OneBuildLedger ==
    ASSUME WeightInv, Ledger, UNCHANGED <<kind, call, raced, reset>>,
           \A o \in Ids : /\ node'[o].cur - node'[o].weight = node[o].cur - node[o].weight
                          /\ (Made(o) => Made(o)' /\ node'[o].cur = node[o].cur /\ node'[o].eff = node[o].eff)
                          /\ ~Made(o)' => node'[o] = node[o],
           AllMade(build.nodes)', \A u \in Services : AllMade(picker[u])',
           \A u \in Services : cache'[u] # <<>> => Made(cache[u])'
    PROVE  Ledger'
<1>1. call \in [Calls -> CallType]
  BY TypesOf DEF WeightInv
<1>2. Gained' = Gained
  <2> DEFINE f == [o \in Ids |-> node'[o].cur - node'[o].weight]
             g == [o \in Ids |-> node[o].cur - node[o].weight]
  <2>1. f = g
    OBVIOUS
  <2> QED
    BY <2>1 DEF Gained
<1>3. \A c \in Calls : call[c].at \in {"visit", "write"} => Here(c) \in Ids /\ Made(Here(c))
  BY LedgerTypes
<1>4. \A c \in Calls : Here(c)' = Here(c)
  BY DEF Here
<1>5. InFlight' = InFlight
  <2> DEFINE f == [c \in Calls |-> call[c].total - IF call[c].at = "write" THEN node'[Here(c)].eff ELSE 0]
             g == [c \in Calls |-> call[c].total - IF call[c].at = "write" THEN node[Here(c)].eff ELSE 0]
  <2>1. \A c \in Calls : call[c].at = "write" => node'[Here(c)].eff = node[Here(c)].eff
    BY <1>3
  <2>2. f = g
    BY <2>1
  <2> QED
    BY <2>2 DEF InFlight, Here
<1>6. ASSUME NEW o \in Ids, ~Made(o)' PROVE node'[o] = None
  BY <1>6 DEF Ledger
<1>7. ASSUME NEW c \in Calls PROVE CallMade(c)'
  <2>1. CallMade(c) /\ call[c].cand \in Seq(Ids) /\ (call[c].at # "idle" => call[c].sel \in Ids)
    BY <1>1 DEF Ledger, WeightInv, CallOK, CallType
  <2>2. \A i \in DOMAIN call[c].cand : call[c].cand[i] \in Ids
    BY <2>1
  <2>3. \A x \in Ids : Made(x) => Made(x)'
    OBVIOUS
  <2> QED
    BY <2>1, <2>2, <2>3 DEF CallMade
<1>8. ASSUME NEW c \in Calls PROVE Alone(c)'
  <2>1. Alone(c)
    BY DEF Ledger
  <2>2. call[c].at = "write" => node'[Here(c)].cur = node[Here(c)].cur
    BY <1>3
  <2> QED
    BY <1>4, <2>1, <2>2 DEF Alone
<1>9. (~raced /\ ~reset => Balanced)'
  BY <1>2, <1>5 DEF Ledger, Balanced
<1> QED
  BY <1>6, <1>7, <1>8, <1>9 DEF Ledger

(* The nodes that the Build, the pickers and the cache have. *)
LEMMA HeldMade ==
    ASSUME WeightInv, Ledger
    PROVE  /\ build.nodes \in Seq(Ids)
           /\ \A i \in DOMAIN build.nodes : build.nodes[i] \in Ids /\ Made(build.nodes[i])
           /\ \A u \in Services : \A i \in DOMAIN picker[u] : picker[u][i] \in Ids /\ Made(picker[u][i])
           /\ \A u \in Services : cache[u] # <<>> => cache[u] \in Ids /\ Made(cache[u])
           /\ \A x \in Ids : x[1] \in Conns /\ x[2] \in Nat
           /\ builds \in Nat
<1>1. /\ picker \in [Services -> Seq(Ids)] /\ cache \in [Services -> Ids \cup {<<>>}]
      /\ build \in BuildType /\ builds \in Nat
  BY TypesOf DEF WeightInv
<1>2. build.nodes \in Seq(Ids)
  BY <1>1 DEF BuildType
<1>3. \A i \in DOMAIN build.nodes : build.nodes[i] \in Ids /\ Made(build.nodes[i])
  BY <1>2 DEF Ledger, AllMade
<1>4. ASSUME NEW u \in Services, NEW i \in DOMAIN picker[u]
      PROVE  picker[u][i] \in Ids /\ Made(picker[u][i])
  <2>1. picker[u] \in Seq(Ids)
    BY <1>1
  <2> QED
    BY <2>1 DEF Ledger, AllMade
<1>5. \A u \in Services : cache[u] # <<>> => cache[u] \in Ids /\ Made(cache[u])
  BY <1>1 DEF Ledger
<1>6. \A x \in Ids : x[1] \in Conns /\ x[2] \in Nat
  BY WeightAssumption DEF Ids
<1> QED
  BY <1>1, <1>2, <1>3, <1>4, <1>5, <1>6

(* A round of the loop of Build: it may make the node of its connection, and it takes a node
   that is made. *)
LEMMA RoundLedger ==
    ASSUME WeightInv, Ledger, NEW c \in build.todo, NEW o \in Ids,
           UNCHANGED <<kind, call, raced, reset, picker, builds>>,
           build'.todo = build.todo \ {c},
           build'.nodes \in {build.nodes, Append(build.nodes, o)}, Made(o)',
           \A u \in Services : cache'[u] \in {cache[u], o},
           \A x \in Ids : /\ node'[x].cur - node'[x].weight = node[x].cur - node[x].weight
                          /\ Made(x) => node'[x].cur = node[x].cur /\ node'[x].eff = node[x].eff
                          /\ ~Made(x)' => node'[x] = node[x]
    PROVE  Ledger'
<1>1. /\ build.nodes \in Seq(Ids)
      /\ \A i \in DOMAIN build.nodes : build.nodes[i] \in Ids /\ Made(build.nodes[i])
      /\ \A u \in Services : \A i \in DOMAIN picker[u] : picker[u][i] \in Ids /\ Made(picker[u][i])
      /\ \A u \in Services : cache[u] # <<>> => cache[u] \in Ids /\ Made(cache[u])
  BY HeldMade
<1>2. \A x : Made(x) => Made(x)'
  BY DEF Made
<1>3. AllMade(build.nodes)'
  <2>0. PICK s : s = build.nodes
    OBVIOUS
  <2> DEFINE t == Append(s, o)
  <2>1. s \in Seq(Ids) /\ \A i \in DOMAIN s : Made(s[i])'
    BY <1>1, <1>2, <2>0
  <2>2. ASSUME NEW i \in DOMAIN t PROVE (i \in DOMAIN s /\ t[i] = s[i]) \/ t[i] = o
    <3>1. Len(s) \in Nat /\ DOMAIN s = 1..Len(s) /\ i \in 1..(Len(s) + 1)
      BY <2>1
    <3>2. CASE i = Len(s) + 1
      BY <2>1, <3>2
    <3>3. CASE i # Len(s) + 1
      <4>1. i \in 1..Len(s)
        BY <3>1, <3>3
      <4> QED
        BY <2>1, <3>1, <4>1
    <3> QED
      BY <3>2, <3>3
  <2>3. PICK r : r = build'.nodes
    OBVIOUS
  <2>4. r = s \/ r = t
    BY <2>0, <2>3
  <2> HIDE DEF t
  <2>5. \A i \in DOMAIN r : Made(r[i])'
    BY <2>1, <2>2, <2>4
  <2> QED
    BY <2>3, <2>5 DEF AllMade, Made
<1>5. \A u \in Services : AllMade(picker[u])'
  BY <1>1, <1>2 DEF AllMade, Made
<1>6. \A u \in Services : cache'[u] # <<>> => Made(cache[u])'
  BY <1>1, <1>2 DEF Made
<1> QED
  BY <1>2, <1>3, <1>5, <1>6, OneBuildLedger

LEMMA BuildStartLedger ==
    ASSUME WeightInv, Ledger, NEW u \in Services, BuildStart(u)
    PROVE  Ledger'
<1>1. /\ builds' = builds + 1 /\ UNCHANGED <<kind, node, cache, picker, call, raced, reset>>
  BY DEF BuildStart
<1>2. build'.nodes = <<>>
  BY DEF BuildStart
<1>3. /\ \A v \in Services : \A i \in DOMAIN picker[v] : picker[v][i] \in Ids /\ Made(picker[v][i])
      /\ \A v \in Services : cache[v] # <<>> => cache[v] \in Ids /\ Made(cache[v])
      /\ \A x \in Ids : x[1] \in Conns /\ x[2] \in Nat
      /\ builds \in Nat
  BY HeldMade
<1>4. \A x \in Ids : Made(x) => Made(x)'
  BY <1>1, <1>3 DEF Made
<1>5. AllMade(build.nodes)'
  BY <1>2 DEF AllMade
<1>6. \A v \in Services : AllMade(picker[v])'
  BY <1>1, <1>3, <1>4 DEF AllMade, Made
<1>7. \A v \in Services : cache'[v] # <<>> => Made(cache[v])'
  BY <1>1, <1>3, <1>4 DEF Made
<1> QED
  BY <1>1, <1>4, <1>5, <1>6, <1>7, OneBuildLedger

LEMMA SkipConnLedger ==
    ASSUME WeightInv, Ledger, NEW c \in Conns, SkipConn(c)
    PROVE  Ledger'
<1>1. /\ c \in build.todo /\ build' = [build EXCEPT !.todo = @ \ {c}]
      /\ UNCHANGED <<kind, node, cache, picker, builds, call, raced, reset>>
  BY DEF SkipConn
<1>2. <<c, builds>> \in Ids
  BY <1>1, TodoOf
<1>3. build'.todo = build.todo \ {c} /\ build'.nodes = build.nodes
  BY <1>1, <1>2, BuiltRec
<1>4. Made(<<c, builds>>)'
  BY <1>1, <1>3 DEF Made
<1> QED
  BY <1>1, <1>2, <1>3, <1>4, RoundLedger

LEMMA ReuseNodeLedger ==
    ASSUME WeightInv, Ledger, NEW c \in Conns, ReuseNode(c)
    PROVE  Ledger'
<1>0. PICK o : o = Lookup(c)
  OBVIOUS
<1>1. UNCHANGED <<kind, cache, picker, builds, call, raced, reset>>
  BY DEF ReuseNode
<1>2. /\ c \in build.todo /\ o \in Ids /\ o = cache[build.by] /\ build' = Built(c, o)
      /\ \A x \in Ids : node'[x].weight = node[x].weight /\ node'[x].cur = node[x].cur
                        /\ node'[x].eff = node[x].eff /\ (x # o => node'[x] = node[x])
  BY <1>0, ReuseNodes
<1>3. o # <<>> /\ build.by \in Services
  BY <1>0, <1>2, TodoOf DEF ReuseNode, Reused
<1>4. Made(o)
  BY <1>2, <1>3, HeldMade
<1>5. build'.todo = build.todo \ {c} /\ build'.nodes = Append(build.nodes, o)
  BY <1>2, BuiltRec
<1>6. Made(o)'
  BY <1>1, <1>4, <1>5 DEF Made
<1> QED
  BY <1>1, <1>2, <1>5, <1>6, RoundLedger

LEMMA MakeNodeLedger ==
    ASSUME WeightInv, Ledger, NEW c \in Conns, MakeNode(c)
    PROVE  Ledger'
<1>0. PICK o : o = <<c, builds>>
  OBVIOUS
<1>1. UNCHANGED <<kind, picker, builds, call, raced, reset>>
  BY DEF MakeNode
<1>2. /\ c \in build.todo /\ o \in Ids /\ build' = Built(c, o) /\ node'[o] = NewNode(c)
      /\ \A x \in Ids \ {o} : node'[x].weight = node[x].weight /\ node'[x].cur = node[x].cur
                              /\ node'[x].eff = node[x].eff
                              /\ (x # Lookup(c) => node'[x] = node[x])
      /\ \A u \in Services : cache'[u] = cache[u] \/ (u = build.by /\ cache'[u] = o)
  BY <1>0, MakeNodes
<1>3. build'.todo = build.todo \ {c} /\ build'.nodes = Append(build.nodes, o)
  BY <1>2, BuiltRec
<1>4. ~Made(o) /\ Made(o)'
  <2>1. builds \in Nat
    BY HeldMade
  <2> QED
    BY <1>0, <1>1, <1>2, <1>3, <2>1 DEF Made
<1>5. Lookup(c) = cache[build.by] /\ build.by \in Services /\ Lookup(c) \in Ids \cup {<<>>}
  BY <1>2, TodoOf
<1>6. \A x : Made(x) => Made(x)'
  BY <1>1, <1>3 DEF Made
<1>7. node'[o].cur - node'[o].weight = node[o].cur - node[o].weight
  <2>1. Word \in Nat /\ Word >= 2
    BY WeightAssumption
  <2>2. node'[o] \in NodeType /\ node'[o].cur = node'[o].weight
    BY <1>2, <2>1, NewNodeType
  <2>3. node'[o].cur \in Int
    BY <2>1, <2>2 DEF NodeType, Words
  <2>4. node[o] = None
    BY <1>2, <1>4 DEF Ledger
  <2>5. node[o].cur = 0 /\ node[o].weight = 0
    BY <2>4 DEF None
  <2> QED
    BY <2>2, <2>3, <2>5
<1>8. ASSUME NEW x \in Ids, ~Made(x)' PROVE node'[x] = node[x]
  <2>1. x # o /\ ~Made(x)
    BY <1>4, <1>6, <1>8
  <2>2. x # Lookup(c)
    <3>1. x # <<>>
      BY <1>8 DEF Ids
    <3>2. cache[build.by] # <<>> => Made(cache[build.by])
      BY <1>5, HeldMade
    <3> QED
      BY <1>5, <2>1, <3>1, <3>2
  <2> QED
    BY <1>2, <2>1, <2>2
<1>9. \A x \in Ids : /\ node'[x].cur - node'[x].weight = node[x].cur - node[x].weight
                     /\ Made(x) => node'[x].cur = node[x].cur /\ node'[x].eff = node[x].eff
                     /\ ~Made(x)' => node'[x] = node[x]
  BY <1>2, <1>4, <1>7, <1>8
<1> QED
  BY <1>1, <1>2, <1>3, <1>4, <1>9, RoundLedger

LEMMA BuildEndLedger ==
    ASSUME WeightInv, Ledger, BuildEnd
    PROVE  Ledger'
<1>1. /\ build # NoBuild /\ build.todo = {} /\ build' = NoBuild
      /\ cache' = [u \in Services |-> IF u \in build.seen THEN cache[u] ELSE <<>>]
      /\ picker' = [picker EXCEPT ![build.by] = build.nodes]
      /\ UNCHANGED <<kind, node, builds, call, raced, reset>>
  BY DEF BuildEnd
<1>2. build'.todo = {} /\ build'.nodes = <<>>
  BY <1>1 DEF NoBuild
<1>3. /\ \A i \in DOMAIN build.nodes : Made(build.nodes[i])
      /\ \A u \in Services : \A i \in DOMAIN picker[u] : Made(picker[u][i])
      /\ \A u \in Services : cache[u] # <<>> => Made(cache[u])
  BY HeldMade
<1>4. \A x : Made(x)' <=> Made(x)
  BY <1>1, <1>2 DEF Made
<1>5. AllMade(build.nodes)'
  BY <1>2 DEF AllMade
<1>6. ASSUME NEW u \in Services PROVE AllMade(picker[u])'
  <2>1. picker \in [Services -> Seq(Ids)]
    BY TypesOf DEF WeightInv
  <2>2. picker'[u] \in {picker[u], build.nodes}
    BY <1>1, <2>1
  <2>3. \A i \in DOMAIN picker'[u] : Made(picker'[u][i])
    BY <1>3, <2>2
  <2> QED
    BY <1>4, <2>3 DEF AllMade, Made
<1>7. \A u \in Services : cache'[u] # <<>> => Made(cache[u])'
  BY <1>1, <1>3, <1>4 DEF Made
<1> QED
  BY <1>1, <1>4, <1>5, <1>6, <1>7, OneBuildLedger

LEMMA InitLedger == Init => Ledger
<1> SUFFICES ASSUME Init PROVE Ledger
  OBVIOUS
<1>1. /\ builds = 0 /\ picker = [u \in Services |-> <<>>] /\ cache = [u \in Services |-> <<>>]
      /\ build.nodes = <<>> /\ node = [o \in Ids |-> None] /\ call = [c \in Calls |-> Idle]
  BY DEF Init, WeightInit, NoBuild
<1>2. Gained \in [Ids -> Int] /\ \A o \in Ids : Gained[o] = 0
  BY <1>1 DEF Gained, None
<1>3. InFlight \in [Calls -> Int] /\ \A c \in Calls : InFlight[c] = 0
  BY <1>1 DEF InFlight, Idle
<1>4. SumFunction(Gained) = 0 /\ SumFunction(InFlight) = 0
  BY <1>2, <1>3, FiniteIds, SumZero
<1>5. Balanced
  <2>1. 0 - 0 = 0 * Word
    BY WeightAssumption
  <2> QED
    BY <1>4, <2>1 DEF Balanced
<1>6. \A c \in Calls : CallMade(c) /\ Alone(c)
  BY <1>1 DEF CallMade, Alone, Idle
<1> QED
  BY <1>1, <1>5, <1>6 DEF Ledger, AllMade

(* No Pick gains or loses weight, whatever the number of nodes and calls and however they
   interleave: the nodes have the weight they began with and what the Picks in progress have
   added, until two Picks of the dynamic balancer meet at a node
   (dynamic_weight_balancer.go:50-57) or a success of the rw balancer sets a current weight
   (rw_weight_balancer.go:158,169). *)
THEOREM NoWeightLost == Spec => []WeightConserved
<1>1. ASSUME WeightInv, Ledger, [Next]_vars PROVE Ledger'
  <2>1. CASE kind # "hash" /\ WeightNext
    BY <1>1, <2>1, BuildStartLedger, SkipConnLedger, ReuseNodeLedger, MakeNodeLedger, BuildEndLedger,
       PickLedger, VisitLedger, ReadLedger, WriteLedger, SelectLedger,
       DoneLedger DEF WeightNext
  <2>2. CASE UNCHANGED wvars
    <3>1. UNCHANGED <<kind, node, cache, build, picker, builds, raced, reset, call>>
      BY <2>2 DEF wvars
    <3> QED
      BY <1>1, <3>1 DEF Ledger, AllMade, Made, CallMade, Alone, Here, Balanced, Gained, InFlight
  <2> QED
    BY <1>1, <2>1, <2>2 DEF Next, vars
<1>2. ClientInv => WeightInv
  BY DEF ClientInv
<1>3. Ledger => WeightConserved
  <2>1. \A q \in Int : (q * Word) % Word = 0
    <3>1. Word \in Nat /\ Word >= 2
      BY WeightAssumption
    <3> QED
      BY <3>1
  <2> QED
    BY <2>1 DEF Ledger, Balanced, WeightConserved
<1> QED
  BY <1>1, <1>2, <1>3, InitLedger, ClientInvariant, PTL DEF Spec
====
