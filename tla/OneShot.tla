------------------------------- MODULE OneShot -------------------------------
(***************************************************************************)
(* What the handshake promises of a credential: it opens one connection,   *)
(* once. "The same bearer is accepted exactly once" (server/mod.rs:293).   *)
(***************************************************************************)
EXTENDS Naturals

CONSTANT Credential

VARIABLE uses    \* how often each credential has been accepted

Init == uses = [c \in Credential |-> 0]

Use(c) == uses[c] = 0 /\ uses' = [uses EXCEPT ![c] = 1]

Next == \E c \in Credential : Use(c)

Spec == Init /\ [][Next]_uses

=============================================================================
