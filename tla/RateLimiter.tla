----------------------------- MODULE RateLimiter -----------------------------
(***************************************************************************)
(* The token bucket that all connections of one user share. A caller locks *)
(* the bucket, refills it for the time that passed and takes what it needs *)
(* or sleeps for what is missing and tries again; nothing is reserved for  *)
(* a sleeper.                                                              *)
(*                                                                         *)
(* Source: server/limit.rs (RateLimiter). Tokens are integers; a limiter   *)
(* that is disabled (rate 0) is not modelled, since it never waits.        *)
(***************************************************************************)
EXTENDS Clock, FiniteSets

CONSTANTS
    Caller,      \* the calls of acquire, one each
    Charge,      \* the sizes they may ask for
    Rate,        \* tokens per unit of time
    Burst,       \* the smallest capacity (64 KiB)
    MaxLate      \* how late the executor runs a caller that is ready

ASSUME RateAssumption ==
    /\ IsFiniteSet(Caller) /\ Charge \subseteq Nat
    /\ Rate \in Nat \ {0} /\ Burst \in Nat /\ MaxLate \in Nat

VARIABLES
    tokens,      \* Inner.tokens
    last,        \* Inner.last
    call,        \* where each call is
    need,        \* its n
    due,         \* when its sleep ends, or when it was called
    taken        \* history: tokens handed out since each instant

rateVars == <<tokens, last, call, need, due, taken>>

Lower(a, b) == IF a < b THEN a ELSE b

cap == IF Rate > Burst THEN Rate ELSE Burst

RateInit ==
    /\ tokens = cap /\ last = 0
    /\ call = [c \in Caller |-> "new"]
    /\ need = [c \in Caller |-> 0]
    /\ due = [c \in Caller |-> 0]
    /\ taken = [i \in 0 .. MaxTime |-> 0]

-----------------------------------------------------------------------------
\* mutant: the refill is not capped
Refilled_Unbounded == tokens + (now - last) * Rate

Refilled == Lower(tokens + (now - last) * Rate, cap)

\* mutant: a charge above the capacity is not cut down to it
Charged_Whole(c) == need[c]

Charged(c) == Lower(need[c], cap)

(* acquire(n) is called. *)
Call(c, n) ==
    /\ call[c] = "new"
    /\ call' = [call EXCEPT ![c] = "called"]
    /\ need' = [need EXCEPT ![c] = n]
    /\ due' = [due EXCEPT ![c] = now]
    /\ UNCHANGED <<clock, tokens, last, taken>>

Awake(c) == call[c] \in {"called", "asleep"} /\ now >= due[c]

Granted(c) ==
    /\ Awake(c) /\ Refilled >= Charged(c)
    /\ tokens' = Refilled - Charged(c) /\ last' = now
    /\ call' = [call EXCEPT ![c] = "done"]
    /\ taken' = [i \in 0 .. MaxTime |-> IF i <= now THEN taken[i] + Charged(c) ELSE 0]
    /\ UNCHANGED <<clock, need, due>>

(* Sleep for the missing tokens, rounded up. *)
Waits(c) ==
    /\ Awake(c) /\ Refilled < Charged(c)
    /\ tokens' = Refilled /\ last' = now
    /\ call' = [call EXCEPT ![c] = "asleep"]
    /\ due' = [due EXCEPT ![c] = now + (Charged(c) - Refilled + Rate - 1) \div Rate]
    /\ UNCHANGED <<clock, need, taken>>

(* Time passes, but the executor is not later than MaxLate. *)
RateTick ==
    /\ Tick
    /\ \A c \in Caller : Awake(c) => now < due[c] + MaxLate
    /\ UNCHANGED rateVars

RateStep(c) == (\E n \in Charge : Call(c, n)) \/ Granted(c) \/ Waits(c)

(* The limiter on its own; ServerTables runs it beside the other tables. *)
RateNext ==
    \/ RateTick \/ \E c \in Caller : RateStep(c)
    \/ \E o \in -MaxOffset .. MaxOffset : Sync(o) /\ UNCHANGED rateVars
RateSpec == ClockInit /\ RateInit /\ [][RateNext]_<<clock, rateVars>>

-----------------------------------------------------------------------------
(* Properties. *)

RateTypeOK ==
    /\ now \in 0 .. MaxTime
    /\ tokens \in 0 .. cap /\ last \in 0 .. now
    /\ call \in [Caller -> {"new", "called", "asleep", "done"}]
    /\ need \in [Caller -> Nat] /\ due \in [Caller -> Nat]
    /\ taken \in [0 .. MaxTime -> Nat]

(* Over every interval, from any instant up to now, the user gets at most  *)
(* the bucket's capacity and what flowed in meanwhile, however many        *)
(* callers wait, wake together or come after a pause.                      *)
RateConforms ==
    \A a \in 0 .. now : taken[a] <= cap + (now - a) * Rate

(* Time for the demand of all callers to flow in, each charge rounded up   *)
(* to whole units and its caller late.                                     *)
Horizon == Cardinality(Caller) * (cap \div Rate + 1 + MaxLate)

(* A caller is not kept waiting for ever, not even by a charge larger than *)
(* the bucket: with finitely many competitors it is served by the time the *)
(* demand of all of them has flowed in.                                    *)
AcquireEnds ==
    \A c \in Caller :
        (call[c] = "asleep" /\ now + Horizon <= MaxTime)
            ~> call[c] = "done"

=============================================================================
