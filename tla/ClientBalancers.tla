-------------------------- MODULE ClientBalancers ---------------------------
(***************************************************************************)
(* The balancer of a gRPC client: one of the weighted ones, or consistent  *)
(* hashing.  The others keep no state but a counter, or are stubs.         *)
(***************************************************************************)
EXTENDS WeightBalancers, HashRing

Kinds == WeightKinds \cup {"hash"}

vars == <<wvars, rvars>>

Init ==
    /\ kind \in Kinds /\ WeightInit /\ RingInit
    /\ kind # "hash" => hash = CHOOSE h \in Hash : TRUE

Next ==
    \/ kind # "hash" /\ WeightNext /\ UNCHANGED rvars
    \/ kind = "hash" /\ RingNext /\ UNCHANGED wvars

Spec == Init /\ [][Next]_vars

TypeOK == kind \in Kinds /\ WeightTypeOK /\ RingTypeOK
=============================================================================
