------------------------------ MODULE PathHealth ------------------------------
(***************************************************************************)
(* The client's two judges of the WebTransport path at work on one link:   *)
(* the heartbeat that expires a silent connection, and the breaker that    *)
(* sends requests to the fallback after a streak of failures. A request    *)
(* gets an answer only while the link is up; it may fail at any time.      *)
(*                                                                         *)
(* Sources: client/wt.rs and client/outbound.rs, as in Heartbeat and       *)
(* CircuitBreaker.                                                         *)
(***************************************************************************)
EXTENDS CircuitBreaker, Heartbeat, FiniteSets

ASSUME PathAssumption == IsFiniteSet(Request)

VARIABLE wasted   \* history: attempts sent down the path after the link died, up to a bound

pathVars == <<vars, beatVars, wasted>>

(* More attempts than ProbeBound allows need not be told apart. *)
MaxWasted == Threshold + Cardinality(Request)

PathInit == Init /\ BeatInit /\ wasted = 0

-----------------------------------------------------------------------------
(* The breaker is asked. An attempt that starts on a dead link is wasted. *)
AskPath(r) ==
    /\ Ask(r)
    /\ wasted' = IF link = "dead" /\ can_try /\ wasted < MaxWasted THEN wasted + 1 ELSE wasted
    /\ UNCHANGED beatVars

(* A reply of the server comes over the link. *)
Replies(r) ==
    /\ link = "up"
    /\ PrimaryAnswers(r) \/ PrimaryRefuses(r)
    /\ UNCHANGED <<beatVars, wasted>>

(* A timeout, a refused dial, a connection the heartbeat expired. *)
Fails(r) == PrimaryFails(r) /\ UNCHANGED <<beatVars, wasted>>

Rest ==
    /\ CooldownElapses \/ \E r \in Request : FallbackEnds(r)
    /\ UNCHANGED <<beatVars, wasted>>

Beat == BeatNext /\ UNCHANGED <<vars, wasted>>

PathNext ==
    \/ \E r \in Request : AskPath(r) \/ Replies(r) \/ Fails(r)
    \/ Rest \/ Beat

PathSpec == PathInit /\ [][PathNext]_pathVars /\ BeatFairness

-----------------------------------------------------------------------------
(* Properties. *)

(* A dead path costs a bounded number of attempts before the breaker sends *)
(* everyone to the fallback: Threshold - 1 that reported and one for each  *)
(* request still out, even if the link dies in the middle of a success.    *)
ProbeBound ==
    tripped = "no" => wasted <= Threshold - 1 + Cardinality(Request)

=============================================================================
