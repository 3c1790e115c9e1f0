------------------------- MODULE MCServiceDiscovery -------------------------
(* The instance of ServiceDiscovery for TLC. *)
EXTENDS ServiceDiscovery
====
