---------------------------- MODULE CircuitBreaker ----------------------------
(***************************************************************************)
(* The client's choice between the WebTransport path and the HTTPS         *)
(* fallback (Outbound::Both): the circuit breaker, and the concurrent      *)
(* requests that consult it before their attempt and report to it after.   *)
(*                                                                         *)
(* Source: client/outbound.rs. TCP opens and UDP associations take the     *)
(* same steps. Each method of the breaker holds its mutex: one step.       *)
(***************************************************************************)
EXTENDS Integers

CONSTANTS
    Request,     \* slots for requests in flight; a slot is used again and again
    Threshold    \* BREAKER_THRESHOLD

ASSUME BreakerAssumption == Threshold \in Nat \ {0}

VARIABLES
    failures,    \* consecutive_failures
    tripped,     \* tripped_until: "no" (None), "cooling" (in the future), "elapsed" (past)
    pc,          \* where each request is
    streak       \* history: transport failures since the last success, up to Threshold

vars == <<failures, tripped, pc, streak>>

Init ==
    /\ failures = 0 /\ tripped = "no"
    /\ pc = [r \in Request |-> "idle"]
    /\ streak = 0

-----------------------------------------------------------------------------
can_try == tripped # "cooling"

\* mutant: a success closes the breaker but does not restart the count
record_success_KeepsCount ==
    /\ tripped' = "no" /\ UNCHANGED failures
    /\ streak' = 0

record_success ==
    /\ failures' = 0 /\ tripped' = "no"
    /\ streak' = 0

\* mutant: the threshold is compared with > instead of >=
record_failure_Late ==
    /\ \/ tripped = "cooling" /\ UNCHANGED <<failures, tripped>>
       \/ tripped = "elapsed" /\ tripped' = "cooling" /\ UNCHANGED failures
       \/ /\ tripped = "no" /\ failures + 1 <= Threshold
          /\ failures' = failures + 1 /\ UNCHANGED tripped
       \/ /\ tripped = "no" /\ failures + 1 > Threshold
          /\ failures' = 0 /\ tripped' = "cooling"
    /\ streak' = IF streak < Threshold THEN streak + 1 ELSE streak

record_failure ==
    /\ \/ tripped = "cooling" /\ UNCHANGED <<failures, tripped>>
       \/ tripped = "elapsed" /\ tripped' = "cooling" /\ UNCHANGED failures
       \/ /\ tripped = "no" /\ failures + 1 < Threshold
          /\ failures' = failures + 1 /\ UNCHANGED tripped
       \/ /\ tripped = "no" /\ failures + 1 >= Threshold
          /\ failures' = 0 /\ tripped' = "cooling"
    /\ streak' = IF streak < Threshold THEN streak + 1 ELSE streak

-----------------------------------------------------------------------------
(* open_tcp / udp_associate: consult the breaker, then take a path. *)
Ask(r) ==
    /\ pc[r] = "idle"
    /\ pc' = [pc EXCEPT ![r] = IF can_try THEN "primary" ELSE "fallback"]
    /\ UNCHANGED <<failures, tripped, streak>>

(* The pool answered with a session, or the server refused in a way the    *)
(* other path would repeat: the request is over and the transport works.   *)
PrimaryAnswers(r) ==
    /\ pc[r] = "primary" /\ record_success
    /\ pc' = [pc EXCEPT ![r] = "idle"]

(* The server refused for lack of capacity (fallback_worthwhile). *)
PrimaryRefuses(r) ==
    /\ pc[r] = "primary" /\ record_success
    /\ pc' = [pc EXCEPT ![r] = "fallback"]

(* Transport-level failure. *)
PrimaryFails(r) ==
    /\ pc[r] = "primary" /\ record_failure
    /\ pc' = [pc EXCEPT ![r] = "fallback"]

(* The fallback's answer, good or bad, is the request's. *)
FallbackEnds(r) ==
    /\ pc[r] = "fallback"
    /\ pc' = [pc EXCEPT ![r] = "idle"]
    /\ UNCHANGED <<failures, tripped, streak>>

(* The clock passes tripped_until. *)
CooldownElapses ==
    /\ tripped = "cooling" /\ tripped' = "elapsed"
    /\ UNCHANGED <<failures, pc, streak>>

-----------------------------------------------------------------------------
Next ==
    \/ \E r \in Request : \/ Ask(r) \/ FallbackEnds(r)
                           \/ PrimaryAnswers(r) \/ PrimaryRefuses(r) \/ PrimaryFails(r)
    \/ CooldownElapses

Spec == Init /\ [][Next]_vars

-----------------------------------------------------------------------------
(* Properties. *)

TypeOK ==
    /\ failures \in 0 .. Threshold - 1 /\ streak \in 0 .. Threshold
    /\ tripped \in {"no", "cooling", "elapsed"}
    /\ pc \in [Request -> {"idle", "primary", "fallback"}]

(* The breaker is tripped exactly when the last Threshold outcomes that    *)
(* were reported are transport failures, although the attempts overlap and *)
(* report late: stragglers neither trip it early nor leave it closed.      *)
TripsExactly == tripped # "no" <=> streak = Threshold

=============================================================================
