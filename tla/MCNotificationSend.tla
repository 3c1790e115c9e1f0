------------------------- MODULE MCNotificationSend -------------------------
(* Instances of NotificationSend for TLC: two channels of which only "sms" is
   registered, as in ioc, and two databases. *)
EXTENDS NotificationSend, IdSharding

CONSTANTS r1, r2

MCRequests == {r1, r2}

(* Hashes of three pairs of business and key: two that share a database and one apart. *)
MCHash == <<4, 7, 1>>
MCDbOf == [i \in DOMAIN MCHash |->
              IF Shard(MCHash[i]).db = 0 THEN "jotify_0" ELSE "jotify_1"]

(* Enough for any one call, and not for two of some. *)
MCQ0 == [c \in Channels |-> IF c = "sms" THEN 2 ELSE 1]

Call(b, i, cb, cs) == [batch |-> b, immediate |-> i, callback |-> cb, items |-> cs]

MCSingle ==
    {Call(FALSE, FALSE, cb, <<"sms">>) : cb \in BOOLEAN}
        \cup {Call(FALSE, TRUE, FALSE, <<c>>) : c \in {"sms", "email"}}

MCBatch ==
    {Call(TRUE, FALSE, TRUE, <<"sms", "email">>),
     Call(TRUE, TRUE, FALSE, <<"email", "sms">>), Call(TRUE, TRUE, FALSE, <<"email">>),
     Call(TRUE, FALSE, TRUE, <<"sms", "sms", "email">>)}

MCCalls     == MCSingle \cup MCBatch
MCImmediate == {Call(FALSE, TRUE, FALSE, <<"sms">>)}
MCDefault   == {Call(FALSE, FALSE, FALSE, <<"sms">>)}
====
