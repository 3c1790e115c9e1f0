------------------------------ MODULE HashRing ------------------------------
(***************************************************************************)
(* CHBalancer: a ring of the hashes of VirtualNodeCnt virtual nodes per    *)
(* address, sorted, with the address of each; a call goes to the first     *)
(* virtual node at or after the hash of its key, and from the last one     *)
(* round to the first.                                                     *)
(*                                                                         *)
(* Hashes are 0..HashSize-1, in the code those of 32 bits.  sort.Slice is  *)
(* not stable: where two addresses share a hash, their order after a sort  *)
(* is arbitrary.                                                           *)
(***************************************************************************)
EXTENDS Integers, Sequences, FiniteSets, FiniteSetsExt, TLC

CONSTANTS
    Addrs,           \* addresses of the service
    VirtualNodeCnt,  \* virtual nodes per address
    HashSize,        \* number of hash values
    Hash             \* the functions [Addrs \X (1..VirtualNodeCnt) -> Hashes] to try

Hashes == 0..(HashSize - 1)

ASSUME RingAssumption ==
    /\ HashSize \in Nat \ {0} /\ VirtualNodeCnt \in Nat \ {0}
    /\ \A h \in Hash : h \in [Addrs \X (1..VirtualNodeCnt) -> Hashes]

VARIABLES
    hash,  \* the hash of each virtual node
    ccs,   \* the addresses that have a connection
    ring   \* the ring: a sequence of [hash, addr]

rvars == <<hash, ccs, ring>>

RingInit == hash \in Hash /\ ccs = {} /\ ring = <<>>

-----------------------------------------------------------------------------
(* sortRing: the orders of the indices that sort a ring by hash.  (The first line lets TLC
   enumerate them; the provers read the second.) *)
SortRing(s) ==
    {p \in Permutations(1..Len(s)) :
        /\ p \in [1..Len(s) -> 1..Len(s)] /\ \A i \in 1..Len(s) : \E j \in 1..Len(s) : p[j] = i
        /\ \A i, j \in 1..Len(s) : i < j => s[p[i]].hash <= s[p[j]].hash}

(* addNode.  Build calls it for the ready connections in any order. *)
AddNode(a) ==
    /\ a \notin ccs /\ ccs' = ccs \cup {a}
    /\ LET s == ring \o [i \in 1..VirtualNodeCnt |-> [hash |-> hash[<<a, i>>], addr |-> a]]
       IN \E p \in SortRing(s) : ring' = [i \in 1..Len(s) |-> s[p[i]]]
    /\ UNCHANGED hash

(* A bug: the ring is cut off at the first virtual node of the address. *)
RemoveNodeCut(a) ==
    /\ a \in ccs /\ ccs' = ccs \ {a}
    /\ ring' = SubSeq(ring, 1, Min({i \in 1..Len(ring) : ring[i].addr = a}) - 1)
    /\ UNCHANGED hash

(* removeNode: what is kept stays in its order. *)
RemoveNode(a) ==
    /\ a \in ccs /\ ccs' = ccs \ {a}
    /\ LET kept == {i \in 1..Len(ring) : ring[i].addr # a}
       IN \E f \in [1..Cardinality(kept) -> kept] :
             /\ \A i \in kept : \E j \in DOMAIN f : f[j] = i
             /\ \A i, j \in DOMAIN f : i < j => f[i] < f[j]
             /\ ring' = [i \in 1..Cardinality(kept) |-> ring[f[i]]]
    /\ UNCHANGED hash

(* sort.Search: the first index of the ring whose hash is not below, or one past the end. *)
Search(k) == Min({i \in 1..Len(ring) : ring[i].hash >= k} \cup {Len(ring) + 1})

(* A bug: a key behind the last virtual node stays with it. *)
GetNodeAddrLast(k) == ring[IF Search(k) > Len(ring) THEN Len(ring) ELSE Search(k)].addr

(* getNodeAddr, of a ring that has a node. *)
GetNodeAddr(k) == ring[IF Search(k) > Len(ring) THEN 1 ELSE Search(k)].addr

(* Pick: without a connection, or with an address that has none, there is no one to call. *)
PickAddr(k) ==
    IF ccs = {} \/ ring = <<>> \/ GetNodeAddr(k) \notin ccs THEN "" ELSE GetNodeAddr(k)

RingNext == \E a \in Addrs : AddNode(a) \/ RemoveNode(a)

RingSpec == RingInit /\ [][RingNext]_rvars

-----------------------------------------------------------------------------
(* What consistent hashing promises, without a ring: the distance from a key clockwise to a
   hash, and the addresses of S that have a virtual node nearest to the key. *)
Distance(k, h) == IF h >= k THEN h - k ELSE h + HashSize - k

Points(f, a) == {f[<<a, i>>] : i \in 1..VirtualNodeCnt}

Near(f, S, k, a) ==
    /\ a \in S
    /\ \E h \in Points(f, a) : \A b \in S : \A g \in Points(f, b) : Distance(k, h) <= Distance(k, g)

RingTypeOK ==
    /\ hash \in Hash /\ ccs \subseteq Addrs
    /\ ring \in Seq([hash : Hashes, addr : Addrs])

(* Through any sequence of nodes added and removed, every call finds an address as long as
   there is a connection, and one whose virtual node is the next to its key clockwise, also
   past the end of the ring and where hashes collide (consistent_hash_balancer.go:139-186). *)
RingExact ==
    ccs # {} => \A k \in Hashes : Near(hash, ccs, k, PickAddr(k))

(* No two addresses share a hash. *)
Apart(f, S) == \A a, b \in S : a # b => Points(f, a) \cap Points(f, b) = {}

(* A node that joins or leaves moves no call between the others: when addNode or removeNode
   changes the address of a key, the new address is the one that joined or the old one is
   the one that left (consistent_hash_balancer.go:69-137).  Of colliding hashes this is not
   true: addNode sorts the whole ring again, and the sort is not stable. *)
RingMoves ==
    [][Apart(hash, ccs \cup ccs') =>
          \A k \in Hashes : \/ PickAddr(k)' = PickAddr(k)
                            \/ PickAddr(k)' \in ccs' \ ccs
                            \/ PickAddr(k) \in ccs \ ccs']_rvars
=============================================================================
