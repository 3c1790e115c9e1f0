--------------------------- MODULE HashRingProofs ---------------------------
(***************************************************************************)
(* Consistent hashing for any number of addresses, virtual nodes and       *)
(* hashes: every lookup is exact, and a change of the nodes moves only the *)
(* keys it must.                                                           *)
(***************************************************************************)
EXTENDS HashRing, FiniteSetTheorems, WellFoundedInduction, TLAPS

(* What addNode and removeNode leave behind: the ring is sorted by hash and holds the
   virtual nodes of the connected addresses and no others. *)
RingSorted ==
    \A i, j \in 1..Len(ring) : i < j => ring[i].hash <= ring[j].hash

RingHolds ==
    /\ \A i \in 1..Len(ring) : ring[i].addr \in ccs
                            /\ ring[i].hash \in Points(hash, ring[i].addr)
    /\ \A a \in ccs : \A h \in Points(hash, a) :
          \E i \in 1..Len(ring) : ring[i].addr = a /\ ring[i].hash = h

(* The least element of a set of positions of the ring. *)
LEMMA MinOf ==
    ASSUME NEW S \in SUBSET Nat, S # {}
    PROVE  Min(S) \in S /\ \A i \in S : Min(S) <= i
  <1>1. PICK x \in S : \A y \in S : ~(<<y, x>> \in OpToRel(<, Nat))
    BY NatLessThanWellFounded, WFMin
  <1>2. ASSUME NEW y \in S
        PROVE  x <= y
    <2>1. <<y, x>> \in OpToRel(<, Nat) <=> y < x
      BY DEF OpToRel
    <2>2. ~(y < x)
      BY <1>1, <2>1, Zenon
    <2> QED
      BY <2>2
  <1> QED
    BY <1>2 DEF Min

(* The elements of the ring. *)
LEMMA RingTyped ==
    ASSUME RingTypeOK
    PROVE  Len(ring) \in Nat /\ \A i \in 1..Len(ring) : ring[i].hash \in Hashes
  <1> DEFINE R == [hash : Hashes, addr : Addrs]
  <1>1. ring \in Seq(R)
    BY DEF RingTypeOK
  <1>2. \A x \in R : x.hash \in Hashes
    OBVIOUS
  <1> HIDE DEF R
  <1>3. Len(ring) \in Nat /\ \A i \in 1..Len(ring) : ring[i] \in R
    BY <1>1
  <1> QED
    BY <1>2, <1>3

(* The search finds the first position whose hash is not below the key, or one past the end
   (consistent_hash_balancer.go:175-177). *)
LEMMA SearchFirst ==
    ASSUME RingTypeOK, NEW k \in Hashes
    PROVE  /\ Search(k) \in 1..(Len(ring) + 1)
           /\ Search(k) <= Len(ring) => ring[Search(k)].hash >= k
           /\ \A i \in 1..Len(ring) : i < Search(k) => ring[i].hash < k
  <1> DEFINE S == {i \in 1..Len(ring) : ring[i].hash >= k} \cup {Len(ring) + 1}
  <1>1. Len(ring) \in Nat /\ \A i \in 1..Len(ring) : ring[i].hash \in Int
    BY RingTyped DEF Hashes
  <1>2. k \in Int
    BY DEF Hashes
  <1>3. S \in SUBSET Nat /\ S # {}
    BY <1>1
  <1>4. Min(S) \in S /\ \A i \in S : Min(S) <= i
    BY <1>3, MinOf
  <1>5. Search(k) = Min(S)
    BY DEF Search
  <1> HIDE DEF S
  <1>6. Search(k) \in 1..(Len(ring) + 1)
    BY <1>1, <1>4, <1>5 DEF S
  <1>7. Search(k) <= Len(ring) => ring[Search(k)].hash >= k
    BY <1>1, <1>4, <1>5 DEF S
  <1>8. ASSUME NEW i \in 1..Len(ring), i < Search(k)
        PROVE  ring[i].hash < k
    <2>1. i \notin S
      BY <1>1, <1>4, <1>5, <1>6, <1>8
    <2> QED
      BY <2>1, <1>1, <1>2 DEF S
  <1> QED
    BY <1>6, <1>7, <1>8

(* The lookup is exact on every sorted ring: the address it returns has the virtual node
   next to the key clockwise, also when the search runs past the end of the ring and when
   hashes collide (consistent_hash_balancer.go:168-186). *)
LEMMA SortedRingExact ==
    ASSUME RingTypeOK, RingSorted, RingHolds
    PROVE  RingExact
  <1> SUFFICES ASSUME ccs # {}, NEW k \in Hashes
               PROVE  Near(hash, ccs, k, PickAddr(k))
    BY DEF RingExact
  <1> DEFINE n == Len(ring)
             p == IF Search(k) > n THEN 1 ELSE Search(k)
  <1>1. n \in Nat /\ \A i \in 1..n : ring[i].hash \in Hashes
    BY RingTyped
  <1>2. HashSize \in Nat \ {0} /\ VirtualNodeCnt \in Nat \ {0}
    BY RingAssumption
  <1>3. 1..n # {}
    <2>1. PICK a \in ccs : TRUE
      OBVIOUS
    <2>2. 1 \in 1..VirtualNodeCnt
      BY <1>2
    <2>3. hash[<<a, 1>>] \in Points(hash, a)
      BY <2>2, Zenon DEF Points
    <2> QED
      BY <2>1, <2>3 DEF RingHolds
  <1>4. p \in 1..n
    BY <1>1, <1>3, SearchFirst
  <1>5. \A i \in 1..n : Distance(k, ring[p].hash) <= Distance(k, ring[i].hash)
    <2> SUFFICES ASSUME NEW i \in 1..n
                 PROVE  Distance(k, ring[p].hash) <= Distance(k, ring[i].hash)
      OBVIOUS
    <2>1. /\ k \in 0..(HashSize - 1) /\ ring[p].hash \in 0..(HashSize - 1)
          /\ ring[i].hash \in 0..(HashSize - 1)
      BY <1>1, <1>4 DEF Hashes
    <2>2. CASE Search(k) > n
      <3>1. p = 1 /\ ring[p].hash <= ring[i].hash
        BY <2>2, <1>1, <1>4, <2>1 DEF RingSorted
      <3>2. ring[i].hash < k
        BY <2>2, <1>1, SearchFirst
      <3>3. ring[p].hash < k
        BY <3>1, <3>2, <2>1, <1>2
      <3> QED
        BY <3>1, <3>2, <3>3, <2>1, <1>2 DEF Distance
    <2>3. CASE Search(k) <= n
      <3>1. p = Search(k) /\ ring[p].hash >= k
        BY <2>3, <1>1, <1>4, SearchFirst
      <3>2. CASE i < p
        <4>1. ring[i].hash < k
          BY <3>1, <3>2, SearchFirst
        <4> QED
          BY <3>1, <4>1, <2>1, <1>2 DEF Distance
      <3>3. CASE i >= p
        <4>1. ring[p].hash <= ring[i].hash
          BY <3>3, <1>1, <1>4, <2>1 DEF RingSorted
        <4> QED
          BY <3>1, <4>1, <2>1, <1>2 DEF Distance
      <3> QED
        BY <3>2, <3>3, <1>1, <1>4
    <2> QED
      BY <2>2, <2>3, <1>1, SearchFirst
  <1>6. GetNodeAddr(k) = ring[p].addr
    BY DEF GetNodeAddr
  <1> HIDE DEF p, n
  <1>7. ring[p].addr \in ccs /\ ring[p].hash \in Points(hash, ring[p].addr)
    BY <1>4 DEF RingHolds, n
  <1>8. \A b \in ccs : \A g \in Points(hash, b) : Distance(k, ring[p].hash) <= Distance(k, g)
    BY <1>5 DEF RingHolds, n
  <1>9. ring # <<>>
    BY <1>3 DEF n
  <1>10. PickAddr(k) = ring[p].addr
    BY <1>6, <1>7, <1>9 DEF PickAddr
  <1> QED
    BY <1>7, <1>8, <1>10 DEF Near

(* The inductive invariant. *)
RingInv == RingTypeOK /\ RingSorted /\ RingHolds

LEMMA InitRingInv == RingInit => RingInv
  <1> SUFFICES ASSUME RingInit PROVE RingInv
    OBVIOUS
  <1>1. hash \in Hash /\ ccs = {} /\ ring = <<>> /\ Len(ring) = 0
    BY DEF RingInit
  <1> QED
    BY <1>1 DEF RingInv, RingTypeOK, RingSorted, RingHolds

(* Adding the virtual nodes of an address and sorting the indices leaves a sorted ring of the
   old nodes and the new. *)
LEMMA AddNodeInv ==
    ASSUME RingInv, NEW a \in Addrs, AddNode(a)
    PROVE  RingInv'
  <1> DEFINE R == [hash : Hashes, addr : Addrs]
             new == [i \in 1..VirtualNodeCnt |-> [hash |-> hash[<<a, i>>], addr |-> a]]
             s == ring \o new
             n == Len(ring)
             m == Len(s)
  <1>1. hash \in [Addrs \X (1..VirtualNodeCnt) -> Hashes] /\ VirtualNodeCnt \in Nat
    BY RingAssumption DEF RingInv, RingTypeOK
  <1>2. new \in Seq(R) /\ Len(new) = VirtualNodeCnt
    <2>1. \A i \in 1..VirtualNodeCnt : hash[<<a, i>>] \in Hashes
      BY <1>1
    <2> QED
      BY <1>1, <2>1
  <1>3. ring \in Seq(R)
    BY DEF RingInv, RingTypeOK
  <1> HIDE DEF R
  <1>4. /\ n \in Nat /\ m = n + VirtualNodeCnt /\ s \in Seq(R)
        /\ \A i \in 1..n : s[i] = ring[i]
        /\ \A i \in 1..VirtualNodeCnt : s[n + i] = new[i]
    BY <1>1, <1>2, <1>3
  <1>5. PICK p \in SortRing(s) : ring' = [i \in 1..m |-> s[p[i]]]
    BY DEF AddNode
  <1> HIDE DEF s, n, m
  <1>6. \A i \in 1..VirtualNodeCnt : s[n + i].hash = hash[<<a, i>>] /\ s[n + i].addr = a
    <2> SUFFICES ASSUME NEW i \in 1..VirtualNodeCnt
                 PROVE  s[n + i].hash = hash[<<a, i>>] /\ s[n + i].addr = a
      OBVIOUS
    <2>1. new[i] = [hash |-> hash[<<a, i>>], addr |-> a]
      OBVIOUS
    <2> HIDE DEF new
    <2> QED
      BY <2>1, <1>4
  <1> HIDE DEF new
  <1>7. /\ p \in [1..m -> 1..m]
        /\ \A i \in 1..m : \E j \in 1..m : p[j] = i
        /\ \A i, j \in 1..m : i < j => s[p[i]].hash <= s[p[j]].hash
    BY <1>5 DEF SortRing, m
  <1>8. m \in Nat /\ \A i \in 1..m : s[i] \in R
    BY <1>4, <1>1 DEF m
  <1>9. ring' \in Seq(R) /\ Len(ring') = m
    <2>1. \A i \in 1..m : s[p[i]] \in R
      BY <1>7, <1>8
    <2> QED
      BY <2>1, <1>5, <1>8
  <1>10. hash' = hash /\ ccs' = ccs \cup {a}
    BY DEF AddNode
  <1>11. RingTypeOK'
    BY <1>9, <1>10 DEF RingInv, RingTypeOK, R
  <1>12. RingSorted'
    BY <1>5, <1>7, <1>9 DEF RingSorted
  <1>13. \A i \in 1..m : s[i].addr \in ccs' /\ s[i].hash \in Points(hash, s[i].addr)
    <2> SUFFICES ASSUME NEW i \in 1..m
                 PROVE  s[i].addr \in ccs' /\ s[i].hash \in Points(hash, s[i].addr)
      OBVIOUS
    <2>1. CASE i <= n
      <3>1. i \in 1..n /\ s[i] = ring[i]
        BY <2>1, <1>4
      <3> QED
        BY <3>1, <1>10 DEF RingInv, RingHolds, n
    <2>2. CASE i > n
      <3>1. i - n \in 1..VirtualNodeCnt /\ n + (i - n) = i
        BY <2>2, <1>1, <1>4
      <3>2. s[i].hash = hash[<<a, i - n>>] /\ s[i].addr = a
        BY <3>1, <1>6
      <3>3. s[i].hash \in Points(hash, a)
        BY <3>1, <3>2 DEF Points
      <3> QED
        BY <3>2, <3>3, <1>10
    <2> QED
      BY <2>1, <2>2, <1>4
  <1>14. \A b \in ccs' : \A h \in Points(hash, b) :
            \E i \in 1..m : s[i].addr = b /\ s[i].hash = h
    <2> SUFFICES ASSUME NEW b \in ccs', NEW h \in Points(hash, b)
                 PROVE  \E i \in 1..m : s[i].addr = b /\ s[i].hash = h
      OBVIOUS
    <2>1. CASE b \in ccs
      <3>1. PICK i \in 1..n : ring[i].addr = b /\ ring[i].hash = h
        BY <2>1 DEF RingInv, RingHolds, n
      <3>2. i \in 1..m /\ s[i] = ring[i]
        BY <1>1, <1>4
      <3> QED
        BY <3>1, <3>2
    <2>2. CASE b = a
      <3>1. PICK i \in 1..VirtualNodeCnt : h = hash[<<a, i>>]
        BY <2>2 DEF Points
      <3>2. n + i \in 1..m
        BY <1>1, <1>4
      <3> QED
        BY <3>1, <3>2, <1>6, <2>2
    <2> QED
      BY <2>1, <2>2, <1>10
  <1>15. RingHolds'
    <2>1. \A i \in 1..m : ring'[i] = s[p[i]] /\ p[i] \in 1..m
      BY <1>5, <1>7
    <2>2. \A i \in 1..m : ring'[i].addr \in ccs' /\ ring'[i].hash \in Points(hash, ring'[i].addr)
      BY <2>1, <1>13
    <2>3. ASSUME NEW b \in ccs', NEW h \in Points(hash, b)
          PROVE  \E i \in 1..m : ring'[i].addr = b /\ ring'[i].hash = h
      <3>1. PICK i \in 1..m : s[i].addr = b /\ s[i].hash = h
        BY <1>14
      <3>2. PICK j \in 1..m : p[j] = i
        BY <1>7
      <3>3. ring'[j] = s[i]
        BY <2>1, <3>2
      <3> QED
        BY <3>1, <3>3
    <2>4. \A b : Points(hash, b)' = Points(hash, b)
      BY <1>10 DEF Points
    <2> QED
      BY <2>2, <2>3, <2>4, <1>9 DEF RingHolds
  <1> QED
    BY <1>11, <1>12, <1>15 DEF RingInv

(* Removing the virtual nodes of an address leaves the others in their order. *)
LEMMA RemoveNodeInv ==
    ASSUME RingInv, NEW a \in Addrs, RemoveNode(a)
    PROVE  RingInv'
  <1> DEFINE R == [hash : Hashes, addr : Addrs]
             n == Len(ring)
             kept == {i \in 1..n : ring[i].addr # a}
             m == Cardinality(kept)
  <1>1. ring \in Seq(R)
    BY DEF RingInv, RingTypeOK
  <1> HIDE DEF R
  <1>2. n \in Nat /\ \A i \in 1..n : ring[i] \in R
    BY <1>1
  <1>3. m \in Nat
    <2>1. IsFiniteSet(1..n)
      BY <1>2, FS_Interval
    <2>2. IsFiniteSet(kept)
      BY <2>1, FS_Subset
    <2> QED
      BY <2>2, FS_CardinalityType
  <1>4. PICK f \in [1..m -> kept] :
           /\ \A i \in kept : \E j \in DOMAIN f : f[j] = i
           /\ \A i, j \in DOMAIN f : i < j => f[i] < f[j]
           /\ ring' = [i \in 1..m |-> ring[f[i]]]
    BY DEF RemoveNode
  <1> HIDE DEF n, m
  <1>5. \A i \in 1..m : f[i] \in 1..n /\ ring[f[i]].addr # a /\ ring'[i] = ring[f[i]]
    BY <1>4
  <1>6. ring' \in Seq(R) /\ Len(ring') = m
    BY <1>2, <1>3, <1>4, <1>5
  <1>7. hash' = hash /\ ccs' = ccs \ {a}
    BY DEF RemoveNode
  <1>8. RingTypeOK'
    BY <1>6, <1>7 DEF RingInv, RingTypeOK, R
  <1>9. RingSorted'
    <2>1. \A i, j \in 1..m : i < j => f[i] < f[j]
      BY <1>4
    <2> QED
      BY <2>1, <1>5, <1>6 DEF RingSorted, RingInv, n
  <1>10. RingHolds'
    <2>1. \A i \in 1..m : ring'[i].addr \in ccs' /\ ring'[i].hash \in Points(hash, ring'[i].addr)
      BY <1>5, <1>7 DEF RingInv, RingHolds, n
    <2>2. ASSUME NEW b \in ccs', NEW h \in Points(hash, b)
          PROVE  \E i \in 1..m : ring'[i].addr = b /\ ring'[i].hash = h
      <3>1. b \in ccs /\ b # a
        BY <1>7
      <3>2. PICK i \in 1..n : ring[i].addr = b /\ ring[i].hash = h
        BY <3>1 DEF RingInv, RingHolds, n
      <3>3. PICK j \in 1..m : f[j] = i
        BY <3>1, <3>2, <1>4
      <3> QED
        BY <3>2, <3>3, <1>5
    <2>3. \A b : Points(hash, b)' = Points(hash, b)
      BY <1>7 DEF Points
    <2> QED
      BY <2>1, <2>2, <2>3, <1>6 DEF RingHolds
  <1> QED
    BY <1>8, <1>9, <1>10 DEF RingInv

LEMMA RingStep ==
    ASSUME RingInv, [RingNext]_rvars
    PROVE  RingInv'
  <1>1. ASSUME NEW a \in Addrs, AddNode(a)
        PROVE  RingInv'
    BY <1>1, AddNodeInv
  <1>2. ASSUME NEW a \in Addrs, RemoveNode(a)
        PROVE  RingInv'
    BY <1>2, RemoveNodeInv
  <1>3. CASE UNCHANGED rvars
    <2>1. hash' = hash /\ ccs' = ccs /\ ring' = ring
      BY <1>3 DEF rvars
    <2>2. RingTypeOK' /\ RingSorted'
      BY <2>1 DEF RingInv, RingTypeOK, RingSorted
    <2>3. \A b : Points(hash, b)' = Points(hash, b)
      BY <2>1 DEF Points
    <2>4. RingHolds'
      BY <2>1, <2>3 DEF RingInv, RingHolds
    <2> QED
      BY <2>2, <2>4 DEF RingInv
  <1> QED
    BY <1>1, <1>2, <1>3 DEF RingNext

(* RingExact is an invariant: through any sequence of nodes added and removed, a key goes to
   the address that is next to it (consistent_hash_balancer.go:69-186). *)
THEOREM RingCorrect == RingSpec => []RingExact
  <1>1. RingInit => RingInv
    BY InitRingInv
  <1>2. RingInv /\ [RingNext]_rvars => RingInv'
    BY RingStep
  <1>3. RingInv => RingExact
    BY SortedRingExact DEF RingInv
  <1> QED
    BY <1>1, <1>2, <1>3, PTL DEF RingSpec

(* Two different hashes are at different distances from a key. *)
LEMMA DistanceInjective ==
    ASSUME NEW k \in Hashes, NEW g \in Hashes, NEW h \in Hashes,
           Distance(k, g) = Distance(k, h)
    PROVE  g = h
  BY RingAssumption DEF Hashes, Distance

(* Where no two addresses share a hash, no two of them are nearest to a key. *)
LEMMA NearUnique ==
    ASSUME NEW f \in [Addrs \X (1..VirtualNodeCnt) -> Hashes], NEW S \in SUBSET Addrs,
           Apart(f, S),
           NEW k \in Hashes, NEW a, NEW b, Near(f, S, k, a), Near(f, S, k, b)
    PROVE  a = b
  <1>1. \A x \in S : Points(f, x) \subseteq Hashes
    BY DEF Points
  <1>2. PICK g \in Points(f, a) : \A x \in S : \A y \in Points(f, x) : Distance(k, g) <= Distance(k, y)
    BY DEF Near
  <1>3. PICK h \in Points(f, b) : \A x \in S : \A y \in Points(f, x) : Distance(k, h) <= Distance(k, y)
    BY DEF Near
  <1>4. a \in S /\ b \in S
    BY DEF Near
  <1>5. g \in Hashes /\ h \in Hashes
    BY <1>1, <1>4
  <1>6. Distance(k, g) <= Distance(k, h) /\ Distance(k, h) <= Distance(k, g)
    BY <1>2, <1>3, <1>4
  <1>7. Distance(k, g) \in Int /\ Distance(k, h) \in Int
    BY <1>5, RingAssumption DEF Distance, Hashes
  <1>8. g = h
    BY <1>5, <1>6, <1>7, DistanceInjective
  <1> QED
    BY <1>4, <1>8 DEF Apart

(* The address of a key, in a ring that holds the connected addresses. *)
PickedNear ==
    \A k \in Hashes : /\ ccs # {} => Near(hash, ccs, k, PickAddr(k))
                      /\ ccs = {} => PickAddr(k) = ""

LEMMA InvPicked == RingInv => PickedNear
  <1> SUFFICES ASSUME RingInv PROVE PickedNear
    OBVIOUS
  <1>1. RingExact
    BY SortedRingExact DEF RingInv
  <1> QED
    BY <1>1 DEF RingExact, PickAddr, PickedNear

(* An addition or a removal moves a key to the address that joined or from the one that
   left: between the others both rings agree on the nearest, and there is one. *)
LEMMA StepMoves ==
    ASSUME RingInv, PickedNear, PickedNear', RingNext, Apart(hash, ccs \cup ccs'), NEW k \in Hashes
    PROVE  \/ PickAddr(k)' = PickAddr(k)
           \/ PickAddr(k)' \in ccs' \ ccs
           \/ PickAddr(k) \in ccs \ ccs'
  <1>1. hash' = hash
    BY DEF RingNext, AddNode, RemoveNode
  <1>2. PICK a : a = PickAddr(k)
    OBVIOUS
  <1>3. PICK b : b = PickAddr(k)'
    OBVIOUS
  <1>4. ccs # {} => Near(hash, ccs, k, a) /\ a \in ccs
    BY <1>2 DEF PickedNear, Near
  <1>5. ccs' # {} => Near(hash, ccs', k, b) /\ b \in ccs'
    <2>1. ccs' # {} => Near(hash, ccs, k, PickAddr(k))'
      BY DEF PickedNear
    <2>2. ccs' # {} => Near(hash', ccs', k, b)
      BY <1>3, <2>1 DEF Near, Points
    <2> QED
      BY <1>1, <2>2 DEF Near
  <1>6. hash \in [Addrs \X (1..VirtualNodeCnt) -> Hashes] /\ ccs \in SUBSET Addrs
    BY RingAssumption DEF RingInv, RingTypeOK
  <1>7. ASSUME NEW x \in Addrs, AddNode(x), b \notin ccs' \ ccs PROVE b = a
    <2>1. ccs' = ccs \cup {x} /\ b \in ccs /\ Near(hash, ccs', k, b)
      BY <1>5, <1>7 DEF AddNode
    <2>2. Near(hash, ccs, k, b) /\ Near(hash, ccs, k, a)
      BY <1>4, <2>1 DEF Near
    <2>3. Apart(hash, ccs)
      BY DEF Apart
    <2> QED
      BY <1>6, <2>2, <2>3, NearUnique
  <1>8. ASSUME NEW x \in Addrs, RemoveNode(x), a \notin ccs \ ccs' PROVE b = a
    <2>1. ccs' = ccs \ {x} /\ a \in ccs' /\ Near(hash, ccs, k, a)
      BY <1>4, <1>8 DEF RemoveNode
    <2>2. Near(hash, ccs', k, b) /\ Near(hash, ccs', k, a)
      BY <1>5, <2>1 DEF Near
    <2>3. Apart(hash, ccs') /\ ccs' \in SUBSET Addrs
      BY <1>6, <2>1 DEF Apart
    <2> QED
      BY <1>6, <2>2, <2>3, NearUnique
  <1> QED
    BY <1>2, <1>3, <1>7, <1>8 DEF RingNext

(* RingMoves holds of every step: an address that joins takes keys and one that leaves gives
   its own away, and no other key changes its address, as long as no hashes collide
   (consistent_hash_balancer.go:69-137). *)
THEOREM KeysStay == RingSpec => RingMoves
  <1>1. RingInv /\ RingInv' /\ [RingNext]_rvars =>
            [Apart(hash, ccs \cup ccs') =>
                \A k \in Hashes : \/ PickAddr(k)' = PickAddr(k)
                                  \/ PickAddr(k)' \in ccs' \ ccs
                                  \/ PickAddr(k) \in ccs \ ccs']_rvars
    <2>1. RingInv' => PickedNear'
      BY InvPicked, PTL
    <2> QED
      BY InvPicked, <2>1, StepMoves
  <1>2. RingInit => RingInv
    BY InitRingInv
  <1>3. RingInv /\ [RingNext]_rvars => RingInv'
    BY RingStep
  <1> QED
    BY <1>1, <1>2, <1>3, PTL DEF RingSpec, RingMoves
=============================================================================
