----------------------------- MODULE MCUnauthGate -----------------------------
(* UnauthGate for TLC: attempts are interchangeable, and so are addresses. *)
EXTENDS UnauthGate, TLC

GateSymmetry == Permutations(Peer) \cup Permutations(Ip)

=============================================================================
