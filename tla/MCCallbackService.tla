-------------------------- MODULE MCCallbackService --------------------------
(* The instance of CallbackService for TLC: three logs in batches of two, a process with
   two threads and another with one. *)
EXTENDS CallbackService

CONSTANTS t1, t2, t3

MCProcOf == (t1 :> "p") @@ (t2 :> "p") @@ (t3 :> "q")

Progs(a, b, c) == (t1 :> a) @@ (t2 :> b) @@ (t3 :> c)

Dials   == [insecure |-> TRUE, bb |-> FALSE]
AsWired == [insecure |-> FALSE, bb |-> TRUE]

(* Ids of notifications are far above those of logs. *)
Snowflake == [l \in 1..3 |-> 10 + l]

Scenario(prog, due, ns, cb, policy, opts) ==
    [prog |-> prog, nid |-> Snowflake, due |-> due, ns |-> ns, callback |-> cb, policy |-> policy,
     opts |-> opts, timed |-> FALSE]

(* Callbacks of one process against each other, and GetById of two processes against the clock. *)
MCScenarios ==
    {Scenario(Progs("Send", b, "none"), due, ns, {2}, "valid", Dials) :
        b \in {"ByNotifications", "ByNotification"}, due \in {1, 3}, ns \in {{12, 13}, {13, 14}}}
    \cup {Scenario(Progs("Send", "none", "none"), due, {}, cb, policy, opts) :
        due \in 0..3, cb \in {{1, 2}, {1}}, policy \in {"valid", "unknown", "nil"},
        opts \in {Dials, AsWired}}
    \cup {[Scenario(Progs("GetById", "none", "GetById"), 0, {}, {}, "valid", Dials)
              EXCEPT !.timed = TRUE]}
====
