----------------------------- MODULE MCSessionHub -----------------------------
(* Small instances of SessionHub for TLC. *)
EXTENDS SessionHub, TLC

(* Requests differ only in what Init chooses for them, and session ids are *)
(* only compared, so both may be permuted.                                 *)
HubSymmetry == Permutations(Task) \cup Permutations(Sid)
=============================================================================
