----------------------------- MODULE ReplayFilter -----------------------------
(***************************************************************************)
(* What the datagram replay filter promises: the verdict on a counter      *)
(* depends on the set of counters accepted so far and nothing else. A      *)
(* counter is accepted when it is not zero, was never accepted before, and *)
(* is less than Window behind every accepted one.                          *)
(***************************************************************************)
EXTENDS Integers

CONSTANTS Window, Counter

VARIABLES
    seen,      \* the counters accepted so far
    answer     \* the last counter checked and the verdict on it

Acceptable(c) == c # 0 /\ c \notin seen /\ \A d \in seen : d - c < Window

Init == seen = {} /\ answer = <<0, "reject">>

Check(c) ==
    \/ Acceptable(c) /\ seen' = seen \cup {c} /\ answer' = <<c, "accept">>
    \/ ~Acceptable(c) /\ seen' = seen /\ answer' = <<c, "reject">>

Next == \E c \in Counter : Check(c)

Spec == Init /\ [][Next]_<<seen, answer>>

=============================================================================
