--------------------------- MODULE PathHealthProofs ---------------------------
(***************************************************************************)
(* The two judges of the WebTransport path, for every threshold, miss      *)
(* limit and number of concurrent requests, each alone and both at work on *)
(* one link.                                                               *)
(*                                                                         *)
(* The breaker's count is the streak while it is closed, and zero once it  *)
(* has tripped. The heartbeat's count of misses is backed by pings that    *)
(* were sent and not answered. The attempts a dead path has cost have      *)
(* either been counted by the breaker or are still out.                    *)
(***************************************************************************)
EXTENDS PathHealth, FiniteSetTheorems, TLAPS

-----------------------------------------------------------------------------
(* The circuit breaker. *)
BreakerInv ==
    /\ TypeOK
    /\ tripped = "no" => failures = streak /\ streak < Threshold
    /\ tripped # "no" => failures = 0 /\ streak = Threshold

LEMMA BreakerInitially == Init => BreakerInv
BY BreakerAssumption DEF Init, BreakerInv, TypeOK

LEMMA BreakerInductive ==
    ASSUME BreakerInv, [Next]_vars
    PROVE  BreakerInv'
<1> USE BreakerAssumption DEF BreakerInv, TypeOK
<1>1. ASSUME NEW r \in Request, Ask(r) PROVE BreakerInv'
    BY <1>1 DEF Ask
<1>2. ASSUME NEW r \in Request, PrimaryAnswers(r) PROVE BreakerInv'
    BY <1>2 DEF PrimaryAnswers, record_success
<1>3. ASSUME NEW r \in Request, PrimaryRefuses(r) PROVE BreakerInv'
    BY <1>3 DEF PrimaryRefuses, record_success
<1>4. ASSUME NEW r \in Request, PrimaryFails(r) PROVE BreakerInv'
    BY <1>4 DEF PrimaryFails, record_failure
<1>5. ASSUME NEW r \in Request, FallbackEnds(r) PROVE BreakerInv'
    BY <1>5 DEF FallbackEnds
<1>6. CASE CooldownElapses
    BY <1>6 DEF CooldownElapses
<1>7. CASE UNCHANGED vars
    BY <1>7 DEF vars
<1> QED BY <1>1, <1>2, <1>3, <1>4, <1>5, <1>6, <1>7 DEF Next

(* However the attempts of concurrent requests overlap, the breaker is     *)
(* tripped exactly while the last Threshold reports are failures.          *)
THEOREM BreakerTripsExactly == Spec => []TripsExactly
<1>1. BreakerInv => TripsExactly
    BY BreakerAssumption DEF BreakerInv, TypeOK, TripsExactly
<1> QED BY <1>1, BreakerInitially, BreakerInductive, PTL DEF Spec

-----------------------------------------------------------------------------
(* The heartbeat. Without a Pong since the last tick, a ping is out for    *)
(* every miss counted, but for the one that is being sent.                 *)
BeatInv ==
    /\ BeatTypeOK
    /\ alive => missed_pings < Limit
    /\ judge = "send" => alive /\ sent < MaxPings
    /\ pings + pongs <= sent /\ unanswered <= sent
    /\ alive /\ ~pong_seen =>
          missed_pings <= unanswered + (IF judge = "send" THEN 1 ELSE 0)
    /\ DeathNeedsSilence

LEMMA BeatInitially == BeatInit => BeatInv
<1> SUFFICES ASSUME BeatInit PROVE BeatInv
    OBVIOUS
<1>1. alive /\ alive \in BOOLEAN /\ ~pong_seen /\ pong_seen \in BOOLEAN /\ full \in BOOLEAN
    BY ZenonT(60) DEF BeatInit
<1>2. /\ missed_pings = 0 /\ sent = 0 /\ pings = 0 /\ pongs = 0 /\ unanswered = 0
      /\ judge = "sleep" /\ link = "up"
    BY DEF BeatInit
<1> QED BY <1>1, <1>2, HeartbeatAssumption DEF BeatInv, BeatTypeOK, DeathNeedsSilence

LEMMA BeatInductive ==
    ASSUME BeatInv, [BeatNext]_beatVars
    PROVE  BeatInv'
<1> USE HeartbeatAssumption DEF BeatInv, BeatTypeOK, DeathNeedsSilence
<1>1. CASE TickAnswered
  <2>1. pong_seen' \in BOOLEAN /\ alive' = alive /\ alive /\ full' = full
      BY <1>1, ZenonT(60) DEF TickAnswered
  <2> QED BY <1>1, <2>1 DEF TickAnswered
<1>2. CASE TickMissed
  <2>1. CASE missed_pings + 1 < Limit /\ judge' = "send" /\ UNCHANGED alive
      BY <1>2, <2>1 DEF TickMissed
  <2>2. CASE missed_pings + 1 >= Limit /\ alive' = FALSE /\ UNCHANGED judge
    <3>1. ~alive' /\ alive' \in BOOLEAN
        BY <2>2, ZenonT(60)
    <3>2. unanswered >= Limit - 1 /\ judge = "sleep"
        BY <1>2, <2>2 DEF TickMissed
    <3> QED BY <1>2, <2>2, <3>1, <3>2 DEF TickMissed
  <2> QED BY <1>2, <2>1, <2>2 DEF TickMissed
<1>3. CASE SendPing
    BY <1>3 DEF SendPing
<1>4. CASE QueueFills
    BY <1>4 DEF QueueFills
<1>5. CASE Answer
    BY <1>5 DEF Answer
<1>6. CASE PongArrives
    BY <1>6 DEF PongArrives
<1>7. CASE LinkDies
    BY <1>7 DEF LinkDies
<1>8. CASE UNCHANGED beatVars
    BY <1>8 DEF beatVars
<1> QED BY <1>1, <1>2, <1>3, <1>4, <1>5, <1>6, <1>7, <1>8 DEF BeatNext

(* A connection is expired only after Limit - 1 pings went unanswered,     *)
(* however late and in what bursts the Pongs to earlier ones came.         *)
THEOREM ExpiryNeedsSilence == BeatSpec => []DeathNeedsSilence
<1>1. BeatInv => DeathNeedsSilence
    BY DEF BeatInv
<1> QED BY <1>1, BeatInitially, BeatInductive, PTL DEF BeatSpec

-----------------------------------------------------------------------------
(* Both on one link. *)

LEMMA PathBreakerStep == [PathNext]_pathVars => [Next]_vars
BY DEF PathNext, pathVars, AskPath, Replies, Fails, Rest, Beat, Next

LEMMA PathBeatStep == [PathNext]_pathVars => [BeatNext]_beatVars
BY DEF PathNext, pathVars, AskPath, Replies, Fails, Rest, Beat

(* The composed path takes no step that the breaker or the heartbeat alone *)
(* could not take: what holds of either holds of it.                       *)
THEOREM PathImplementsJudges == PathSpec => Spec /\ BeatSpec
<1>1. PathInit => Init /\ BeatInit
    BY DEF PathInit
<1> QED BY <1>1, PathBreakerStep, PathBeatStep, PTL DEF PathSpec, Spec, BeatSpec

(* Requests whose attempt on the WebTransport path is out. *)
Out == {r \in Request : pc[r] = "primary"}

WasteInv ==
    /\ wasted \in Nat
    /\ link = "up" => wasted = 0
    /\ link = "dead" /\ tripped = "no" => wasted <= failures + Cardinality(Out)

PathInv == BreakerInv /\ BeatInv /\ WasteInv

LEMMA OutFinite ==
    /\ IsFiniteSet(Out) /\ IsFiniteSet(Out')
    /\ Cardinality(Out) \in Nat /\ Cardinality(Out') \in Nat
    /\ Cardinality(Out) <= Cardinality(Request) /\ Cardinality(Request) \in Nat
<1>1. Out \subseteq Request /\ Out' \subseteq Request
    BY DEF Out
<1> QED BY <1>1, PathAssumption, FS_Subset, FS_CardinalityType

(* An attempt that starts is out; one that ends is not. *)
LEMMA OutMoves ==
    ASSUME BreakerInv, NEW r \in Request, NEW l, pc' = [pc EXCEPT ![r] = l]
    PROVE  /\ l = "primary" /\ pc[r] # "primary" => Cardinality(Out') = Cardinality(Out) + 1
           /\ l # "primary" /\ pc[r] = "primary" => Cardinality(Out') = Cardinality(Out) - 1
           /\ (l = "primary" <=> pc[r] = "primary") => Cardinality(Out') = Cardinality(Out)
<1>t. pc \in [Request -> {"idle", "primary", "fallback"}]
    BY DEF BreakerInv, TypeOK
<1>1. CASE l = "primary" /\ pc[r] # "primary"
  <2>1. Out' = Out \cup {r} /\ r \notin Out
      BY <1>t, <1>1 DEF Out
  <2> QED BY <1>1, <2>1, OutFinite, FS_AddElement
<1>2. CASE l # "primary" /\ pc[r] = "primary"
  <2>1. Out' = Out \ {r} /\ r \in Out
      BY <1>t, <1>2 DEF Out
  <2> QED BY <1>2, <2>1, OutFinite, FS_RemoveElement
<1>3. CASE l = "primary" <=> pc[r] = "primary"
  <2>1. Out' = Out
      BY <1>t, <1>3 DEF Out
  <2> QED BY <1>3, <2>1, OutFinite
<1> QED BY <1>1, <1>2, <1>3

LEMMA WasteInductive ==
    ASSUME PathInv, [PathNext]_pathVars
    PROVE  WasteInv'
<1> USE DEF PathInv
<1>t. /\ failures \in Nat /\ link \in {"up", "dead"} /\ Cardinality(Out) \in Nat
      /\ tripped \in {"no", "cooling", "elapsed"}
    BY BreakerAssumption, OutFinite DEF BreakerInv, TypeOK, BeatInv, BeatTypeOK
<1>s. "fallback" # "primary" /\ "idle" # "primary"
    OBVIOUS
<1>1. ASSUME NEW r \in Request, AskPath(r) PROVE WasteInv'
  <2>1. pc[r] = "idle" /\ pc' = [pc EXCEPT ![r] = IF can_try THEN "primary" ELSE "fallback"]
      BY <1>1 DEF AskPath, Ask
  <2>2. CASE can_try
    <3>1. Cardinality(Out') = Cardinality(Out) + 1
        BY <2>1, <2>2, OutMoves, ZenonT(60)
    <3> QED BY <1>1, <1>t, <2>2, <3>1 DEF WasteInv, AskPath, Ask, beatVars
  <2>3. CASE ~can_try
    <3>1. tripped = "cooling" /\ UNCHANGED <<failures, tripped, wasted, link>>
        BY <1>1, <2>3 DEF AskPath, Ask, can_try, beatVars
    <3> QED BY <3>1 DEF WasteInv
  <2> QED BY <2>2, <2>3
<1>2. ASSUME NEW r \in Request, Replies(r) PROVE WasteInv'
    BY <1>2, <1>t DEF WasteInv, Replies, beatVars
<1>3. ASSUME NEW r \in Request, Fails(r) PROVE WasteInv'
  <2>1. pc[r] = "primary" /\ pc' = [pc EXCEPT ![r] = "fallback"]
      BY <1>3 DEF Fails, PrimaryFails
  <2>2. Cardinality(Out') = Cardinality(Out) - 1
      BY <1>s, <2>1, OutMoves, ZenonT(60)
  <2> QED BY <1>3, <1>t, <2>2 DEF WasteInv, Fails, PrimaryFails, record_failure, beatVars
<1>4. CASE Rest
  <2>1. CASE CooldownElapses
      BY <1>4, <2>1 DEF WasteInv, Rest, CooldownElapses, beatVars
  <2>2. ASSUME NEW r \in Request, FallbackEnds(r) PROVE WasteInv'
    <3>1. pc[r] = "fallback" /\ pc' = [pc EXCEPT ![r] = "idle"]
        BY <2>2 DEF FallbackEnds
    <3>2. Cardinality(Out') = Cardinality(Out)
        BY <1>s, <3>1, OutMoves, ZenonT(60)
    <3> QED BY <1>4, <2>2, <3>2 DEF WasteInv, Rest, FallbackEnds, beatVars
  <2> QED BY <1>4, <2>1, <2>2 DEF Rest
<1>5. CASE Beat
  <2>1. Out' = Out /\ UNCHANGED <<failures, tripped, wasted>>
      BY <1>5 DEF Beat, vars, Out
  <2>2. link' = link \/ (link = "up" /\ link' = "dead")
      BY <1>5, ZenonT(60) DEF Beat, BeatNext, TickAnswered, TickMissed, SendPing, QueueFills,
                              Answer, PongArrives, LinkDies
  <2> QED BY <1>t, <2>1, <2>2 DEF WasteInv
<1>6. CASE UNCHANGED pathVars
  <2>1. Out' = Out /\ UNCHANGED <<failures, tripped, wasted, link>>
      BY <1>6 DEF pathVars, vars, beatVars, Out
  <2> QED BY <2>1 DEF WasteInv
<1> QED BY <1>1, <1>2, <1>3, <1>4, <1>5, <1>6 DEF PathNext

LEMMA PathInductive == PathInv /\ [PathNext]_pathVars => PathInv'
BY PathBreakerStep, PathBeatStep, BreakerInductive, BeatInductive, WasteInductive DEF PathInv

LEMMA PathInitially == PathInit => PathInv
<1> SUFFICES ASSUME PathInit PROVE PathInv
    OBVIOUS
<1>1. WasteInv
    BY DEF PathInit, BeatInit, WasteInv
<1> QED BY <1>1, BreakerInitially, BeatInitially DEF PathInit, PathInv

(* A dead path costs at most Threshold - 1 attempts that the breaker has   *)
(* counted and one for each request still out before it trips, wherever in *)
(* a run of successes and failures the link dies.                          *)
THEOREM DeadPathIsBounded == PathSpec => []ProbeBound
<1>1. PathInv => ProbeBound
  <2> SUFFICES ASSUME PathInv, tripped = "no"
               PROVE  wasted <= Threshold - 1 + Cardinality(Request)
      BY DEF ProbeBound
  <2>1. failures \in 0 .. Threshold - 1 /\ link \in {"up", "dead"}
      BY DEF PathInv, BreakerInv, TypeOK, BeatInv, BeatTypeOK
  <2> QED BY <2>1, OutFinite, BreakerAssumption DEF PathInv, WasteInv
<1> QED BY <1>1, PathInitially, PathInductive, PTL DEF PathSpec

=============================================================================
