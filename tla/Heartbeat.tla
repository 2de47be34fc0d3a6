------------------------------ MODULE Heartbeat ------------------------------
(***************************************************************************)
(* The client's liveness judge for one WebTransport connection: a Ping per *)
(* heartbeat period on the control stream, the server's Pong, and the      *)
(* count of periods without one that declares the link half-dead.          *)
(*                                                                         *)
(* Sources: client/wt.rs (spawn_lifecycle, dispatch, expire), server/wt.rs *)
(* (spawn_ctrl_reader answers Ping). The control stream is reliable and    *)
(* ordered, so frames are only counted; they may take any time.            *)
(***************************************************************************)
EXTENDS Integers

CONSTANTS
    Limit,       \* PONG_MISS_LIMIT
    MaxPings     \* bound: pings sent in the connection's life

ASSUME HeartbeatAssumption == Limit \in Nat \ {0} /\ MaxPings \in Nat

VARIABLES
    alive,         \* WtConn.alive, as far as the judge decides it
    pong_seen,     \* WtConn.pong_seen
    missed_pings,  \* WtConn.missed_pings
    judge,         \* the heartbeat task: "sleep" or, with a Ping to queue, "send"
    full,          \* ctrl_tx is full, and its writer blocked
    sent,          \* pings sent
    pings,         \* pings on their way to the server
    pongs,         \* Pongs on their way back
    link,          \* "up", or "dead" when the server's answers stop
    unanswered     \* history: pings sent since the last Pong came in

beatVars == <<alive, pong_seen, missed_pings, judge, full, sent, pings, pongs, link, unanswered>>

(* connect starts the judge: no Pong seen, and no Ping sent yet either. *)
BeatInit ==
    /\ alive = TRUE /\ pong_seen = FALSE /\ missed_pings = 0
    /\ judge = "sleep" /\ full = FALSE
    /\ sent = 0 /\ pings = 0 /\ pongs = 0
    /\ link = "up" /\ unanswered = 0

-----------------------------------------------------------------------------
\* mutant: pong_seen is read but not cleared
TickAnswered_Sticky ==
    /\ alive /\ judge = "sleep" /\ pong_seen /\ sent < MaxPings
    /\ missed_pings' = 0 /\ judge' = "send"
    /\ UNCHANGED <<alive, pong_seen, full, sent, pings, pongs, link, unanswered>>

(* A period ended and a Pong came in during it. *)
TickAnswered ==
    /\ alive /\ judge = "sleep" /\ pong_seen /\ sent < MaxPings
    /\ pong_seen' = FALSE /\ missed_pings' = 0 /\ judge' = "send"
    /\ UNCHANGED <<alive, full, sent, pings, pongs, link, unanswered>>

\* mutant: the limit is one too low
TickMissed_OffByOne ==
    /\ alive /\ judge = "sleep" /\ ~pong_seen /\ sent < MaxPings
    /\ missed_pings' = missed_pings + 1
    /\ \/ missed_pings + 1 < Limit - 1 /\ judge' = "send" /\ UNCHANGED alive
       \/ missed_pings + 1 >= Limit - 1 /\ alive' = FALSE /\ UNCHANGED judge
    /\ UNCHANGED <<pong_seen, full, sent, pings, pongs, link, unanswered>>

(* A period ended without a Pong: the miss that reaches the limit expires  *)
(* the connection, any other is followed by the next Ping.                 *)
TickMissed ==
    /\ alive /\ judge = "sleep" /\ ~pong_seen /\ sent < MaxPings
    /\ missed_pings' = missed_pings + 1
    /\ \/ missed_pings + 1 < Limit /\ judge' = "send" /\ UNCHANGED alive
       \/ missed_pings + 1 >= Limit /\ alive' = FALSE /\ UNCHANGED judge
    /\ UNCHANGED <<pong_seen, full, sent, pings, pongs, link, unanswered>>

(* ctrl_tx.send(Ping), with no timeout: it waits for room in the queue. *)
SendPing ==
    /\ judge = "send" /\ ~full
    /\ judge' = "sleep"
    /\ sent' = sent + 1 /\ pings' = pings + 1 /\ unanswered' = unanswered + 1
    /\ UNCHANGED <<alive, pong_seen, missed_pings, full, pongs, link>>

(* The control writer is blocked on a link that takes nothing any more,    *)
(* and other tasks fill the queue.                                         *)
QueueFills ==
    /\ link = "dead" /\ ~full /\ full' = TRUE
    /\ UNCHANGED <<alive, pong_seen, missed_pings, judge, sent, pings, pongs, link, unanswered>>

(* The server's control reader answers a Ping. *)
Answer ==
    /\ alive /\ link = "up" /\ pings > 0
    /\ pings' = pings - 1 /\ pongs' = pongs + 1
    /\ UNCHANGED <<alive, pong_seen, missed_pings, judge, full, sent, link, unanswered>>

(* dispatch: a Pong came in. (An expired connection is closed.) *)
PongArrives ==
    /\ alive /\ link = "up" /\ pongs > 0
    /\ pongs' = pongs - 1 /\ pong_seen' = TRUE /\ unanswered' = 0
    /\ UNCHANGED <<alive, missed_pings, judge, full, sent, pings, link>>

LinkDies ==
    /\ link = "up" /\ link' = "dead"
    /\ UNCHANGED <<alive, pong_seen, missed_pings, judge, full, sent, pings, pongs, unanswered>>

-----------------------------------------------------------------------------
BeatNext ==
    \/ TickAnswered \/ TickMissed \/ SendPing
    \/ QueueFills \/ Answer \/ PongArrives \/ LinkDies

BeatSpec == BeatInit /\ [][BeatNext]_beatVars

(* The heartbeat timer keeps firing and a queue with room takes the Ping;  *)
(* nothing is assumed of the network.                                      *)
BeatFairness == WF_beatVars(TickAnswered \/ TickMissed \/ SendPing)

-----------------------------------------------------------------------------
(* Properties. *)

BeatTypeOK ==
    /\ alive \in BOOLEAN /\ pong_seen \in BOOLEAN
    /\ missed_pings \in 0 .. Limit
    /\ judge \in {"sleep", "send"} /\ full \in BOOLEAN
    /\ sent \in 0 .. MaxPings /\ pings \in 0 .. MaxPings /\ pongs \in 0 .. MaxPings
    /\ link \in {"up", "dead"} /\ unanswered \in 0 .. MaxPings

(* The judge never expires a connection on a Pong that is merely not due   *)
(* yet: Limit - 1 whole periods passed with a Ping out and no Pong in,     *)
(* even when answers to older pings come late and in bursts. One less than *)
(* Limit, because the first tick counts a miss before any Ping was sent.   *)
DeathNeedsSilence == ~alive => unanswered >= Limit - 1

(* A half-dead link is found: once no answer gets through, the connection  *)
(* is expired, unless the judge itself is stuck behind the full control    *)
(* queue, its only unbounded wait; provided the bound leaves room for the  *)
(* pings that it takes.                                                    *)
HalfDeadFound ==
    (link = "dead" /\ sent + Limit + 2 <= MaxPings) ~> (~alive \/ (judge = "send" /\ full))

=============================================================================
