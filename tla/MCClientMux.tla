----------------------------- MODULE MCClientMux -----------------------------
(***************************************************************************)
(* TLC instance of ClientMux: callers, and channel slots, are alike.       *)
(***************************************************************************)
EXTENDS ClientMux, TLC

Alike == Permutations(Caller) \cup Permutations(Chan)
=============================================================================
