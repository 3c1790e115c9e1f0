---------------------------- MODULE EventWindow ----------------------------
(***************************************************************************)
(* What a bit ring promises: it remembers, oldest first, whether each of   *)
(* the last Size events happened, and its threshold is triggered when the  *)
(* last Consecutive of them all did or when too large a share of them did. *)
(***************************************************************************)
EXTENDS Integers, Sequences, FiniteSets

CONSTANTS Size, Consecutive, Rate

VARIABLE window

Last(s, k) == IF Len(s) <= k THEN s ELSE SubSeq(s, Len(s) - k + 1, Len(s))

Happened == {i \in DOMAIN window : window[i]}

Triggered ==
    \/ /\ Len(window) >= Consecutive
       /\ \A i \in (Len(window) - Consecutive + 1)..Len(window) : window[i]
    \/ Cardinality(Happened) * 100 > Rate * Len(window)

Init == window = <<>>

Record(happened) == window' = Last(Append(window, happened), Size)

Next == \E happened \in BOOLEAN : Record(happened)

Spec == Init /\ [][Next]_window
====
