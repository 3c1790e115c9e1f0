------------------------- MODULE MCClientBalancers --------------------------
(* The instance of ClientBalancers for TLC. *)
EXTENDS ClientBalancers

CONSTANTS c1, c2

CallSymmetry == Permutations({c1, c2})

Of(t, w, g, n) == [typed |-> t, weight |-> w, group |-> g, name |-> n]

(* Three connections to one service, of which two have the same weight and two the same
   group; and two to another, one of them without usable attributes. *)
MCAttr ==
    ("a1" :> Of(TRUE, 1, "g", "a")) @@ ("a2" :> Of(TRUE, 2, "g", "a")) @@ ("a3" :> Of(TRUE, 1, "h", "a"))
    @@ ("b1" :> Of(TRUE, 1, "g", "b")) @@ ("b2" :> Of(FALSE, 1, "g", "b"))

MCReadySets ==
    ("a" :> {{"a1", "a2"}, {"a1", "a3"}}) @@ ("b" :> {{"b1", "b2"}})

(* The ways in which two virtual nodes of three addresses can lie on a ring of five hashes,
   collisions included; which of its two an address puts first makes no difference. *)
MCHash ==
    {h \in [Addrs \X (1..VirtualNodeCnt) -> Hashes] :
        /\ h[<<"x", 1>>] = 1
        /\ \A a \in Addrs : h[<<a, 1>>] <= h[<<a, 2>>]}
====
