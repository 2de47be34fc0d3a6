-------------------------------- MODULE WtPool --------------------------------
(***************************************************************************)
(* The client's pool of WebTransport connections: callers that pick a      *)
(* connection and open a TCP session or a UDP association on it, the       *)
(* maintenance task that trims and refills the pool, and the way a         *)
(* connection dies (expire, and the death watcher).                        *)
(*                                                                         *)
(* Source: client/wt.rs. The pool's vector is behind a mutex, so what is   *)
(* done under the lock is one step; atomics, DashMap operations and awaits *)
(* are steps of their own.                                                 *)
(***************************************************************************)
EXTENDS Integers, FiniteSets

CONSTANTS
    Conn,        \* connections ever dialled
    Caller,      \* slots for requests; a slot is used again and again
    NoConn,      \* a caller without a connection
    Size,        \* --conns
    MaxPerConn   \* MAX_PER_CONN

ASSUME PoolAssumption ==
    /\ IsFiniteSet(Caller) /\ NoConn \notin Conn
    /\ Size \in Nat \ {0} /\ MaxPerConn \in Nat \ {0}

VARIABLES
    quic,        \* the QUIC connection: "new" (never dialled), "up", "closed"
    alive,       \* connections whose alive flag is set
    cancelled,   \* connections whose close token is cancelled
    pool,        \* WtPool.conns
    sessions,    \* WtConn.sessions
    pending_udp, \* WtConn.pending_udp: the callers that wait
    udp,         \* WtConn.udp: the callers that have a route
    expiring,    \* the steps of expire its two runners still have to take
    pc, at,      \* where each caller is, and with which connection
    need         \* dials the maintenance task still has to make in this tick

life == <<quic, alive, cancelled>>
routes == <<pending_udp, udp>>
vars == <<life, pool, sessions, routes, expiring, pc, at, need>>

(* expire is called by the reader that sees its channel end (or by the     *)
(* heartbeat), and again by the death watcher.                             *)
Runner == {"reader", "watcher"}

Init ==
    /\ quic = [c \in Conn |-> "new"] /\ alive = {} /\ cancelled = {} /\ pool = {}
    /\ sessions = [c \in Conn |-> 0]
    /\ pending_udp = [c \in Conn |-> {}] /\ udp = [c \in Conn |-> {}]
    /\ expiring = [e \in Runner \X Conn |-> "idle"]
    /\ pc = [k \in Caller |-> "idle"] /\ at = [k \in Caller |-> NoConn]
    /\ need = 0

(* A caller whose request is over forgets its connection. *)
Goto(k, l) ==
    /\ pc' = [pc EXCEPT ![k] = l]
    /\ at' = IF l = "idle" THEN [at EXCEPT ![k] = NoConn] ELSE at

Use(k, c, l) == pc' = [pc EXCEPT ![k] = l] /\ at' = [at EXCEPT ![k] = c]

-----------------------------------------------------------------------------
(* Connecting. WtConn::connect succeeds: the connection is up and alive.   *)
Connected(c) ==
    /\ quic[c] = "new"
    /\ quic' = [quic EXCEPT ![c] = "up"] /\ alive' = alive \cup {c}
    /\ UNCHANGED cancelled

(* WtPool::acquire, under the lock: the alive connection with the fewest   *)
(* sessions, if one is below the limit; otherwise the caller dials.        *)
Usable == {c \in pool \cap alive : sessions[c] < MaxPerConn}

Acquire(k) ==
    /\ pc[k] = "idle"
    /\ \/ \E c \in Usable :
            /\ \A d \in Usable : sessions[c] <= sessions[d]
            /\ Use(k, c, "have")
       \/ Usable = {} /\ Goto(k, "dial")
    /\ UNCHANGED <<life, pool, sessions, routes, expiring, need>>

DialOk(k, c) ==
    /\ pc[k] = "dial" /\ Connected(c)
    /\ Use(k, c, "push")
    /\ UNCHANGED <<pool, sessions, routes, expiring, need>>

DialErr(k) ==
    /\ pc[k] = "dial" /\ Goto(k, "idle")
    /\ UNCHANGED <<life, pool, sessions, routes, expiring, need>>

(* The tail of acquire, under the lock again. *)
Push(k) ==
    /\ pc[k] = "push"
    /\ pool' = (pool \cap alive) \cup {at[k]}
    /\ Goto(k, "have")
    /\ UNCHANGED <<life, sessions, routes, expiring, need>>

-----------------------------------------------------------------------------
(* WtConn::open_tcp and WtConn::udp_associate start alike. *)
CheckAlive(k) ==
    /\ pc[k] = "have"
    /\ IF at[k] \in alive THEN Goto(k, "count") \/ Goto(k, "pend") ELSE Goto(k, "kill")
    /\ UNCHANGED <<life, pool, sessions, routes, expiring, need>>

\* mutant: the value fetch_add returns is not compared with the limit
Count_Unchecked(k) ==
    /\ pc[k] = "count"
    /\ sessions' = [sessions EXCEPT ![at[k]] = @ + 1]
    /\ Goto(k, "opening")
    /\ UNCHANGED <<life, pool, routes, expiring, need>>

(* fetch_add; the caller that finds the limit reached takes it back. *)
Count(k) ==
    /\ pc[k] = "count"
    /\ sessions' = [sessions EXCEPT ![at[k]] = @ + 1]
    /\ Goto(k, IF sessions[at[k]] >= MaxPerConn THEN "uncount" ELSE "opening")
    /\ UNCHANGED <<life, pool, routes, expiring, need>>

(* do_open_tcp, up to the write of the Open frame. Opening the stream has a *)
(* timeout; the write has none, and ends when the transport takes the      *)
(* frame or the connection closes.                                         *)
SendOpen(k) ==
    /\ pc[k] = "opening"
    /\ (quic[at[k]] = "up" /\ Goto(k, "reply")) \/ Goto(k, "uncount_kill")
    /\ UNCHANGED <<life, pool, sessions, routes, expiring, need>>

(* The server accepts, refuses, or the transport fails or times out. *)
OpenReply(k) ==
    /\ pc[k] = "reply"
    /\ \/ quic[at[k]] = "up" /\ (Goto(k, "open") \/ Goto(k, "uncount"))
       \/ Goto(k, "uncount_kill")
    /\ UNCHANGED <<life, pool, sessions, routes, expiring, need>>

(* The session ended, with its stream or with the connection. *)
SessionEnds(k) ==
    /\ pc[k] = "open" /\ Goto(k, "uncount")
    /\ UNCHANGED <<life, pool, sessions, routes, expiring, need>>

\* mutant: the error path and the guard both give the place back
Uncount_Twice(k) ==
    /\ pc[k] \in {"uncount", "uncount_kill"}
    /\ sessions' = [sessions EXCEPT ![at[k]] = @ - (IF pc[k] = "uncount" THEN 1 ELSE 2)]
    /\ Goto(k, IF pc[k] = "uncount" THEN "idle" ELSE "kill")
    /\ UNCHANGED <<life, pool, routes, expiring, need>>

(* fetch_sub. *)
Uncount(k) ==
    /\ pc[k] \in {"uncount", "uncount_kill"}
    /\ sessions' = [sessions EXCEPT ![at[k]] = @ - 1]
    /\ Goto(k, IF pc[k] = "uncount" THEN "idle" ELSE "kill")
    /\ UNCHANGED <<life, pool, routes, expiring, need>>

(* A transport-level error: the pool declares the connection dead. *)
Kill(k) ==
    /\ pc[k] = "kill"
    /\ alive' = alive \ {at[k]} /\ cancelled' = cancelled \cup {at[k]}
    /\ Goto(k, "idle")
    /\ UNCHANGED <<quic, pool, sessions, routes, expiring, need>>

-----------------------------------------------------------------------------
(* udp_associate. *)
Pend(k) ==
    /\ pc[k] = "pend"
    /\ pending_udp' = [pending_udp EXCEPT ![at[k]] = @ \cup {k}]
    /\ Goto(k, "ask")
    /\ UNCHANGED <<life, pool, sessions, udp, expiring, need>>

(* The request enters the control queue, which has no timeout either, or    *)
(* the queue's writer is gone.                                             *)
AskUdp(k) ==
    /\ pc[k] = "ask"
    /\ Goto(k, "wait") \/ (quic[at[k]] = "closed" /\ Goto(k, "unpend"))
    /\ UNCHANGED <<life, pool, sessions, routes, expiring, need>>

(* dispatch: UdpOk or OpenErr takes the waiter out and wakes it. The reply  *)
(* may have come in before QUIC closed.                                    *)
UdpReply(k) ==
    /\ pc[k] = "wait" /\ k \in pending_udp[at[k]]
    /\ pending_udp' = [pending_udp EXCEPT ![at[k]] = @ \ {k}]
    /\ Goto(k, "route") \/ Goto(k, "idle")
    /\ UNCHANGED <<life, pool, sessions, udp, expiring, need>>

\* mutant: no timeout on the reply, only a dropped waiter wakes the caller
UdpGivesUp_NoTimeout(k) ==
    /\ pc[k] = "wait" /\ k \notin pending_udp[at[k]] /\ Goto(k, "unpend")
    /\ UNCHANGED <<life, pool, sessions, routes, expiring, need>>

(* HANDSHAKE_TIMEOUT, or expire dropped the waiter: an error either way. *)
UdpGivesUp(k) ==
    /\ pc[k] = "wait" /\ Goto(k, "unpend")
    /\ UNCHANGED <<life, pool, sessions, routes, expiring, need>>

Unpend(k) ==
    /\ pc[k] = "unpend"
    /\ pending_udp' = [pending_udp EXCEPT ![at[k]] = @ \ {k}]
    /\ Goto(k, "kill")
    /\ UNCHANGED <<life, pool, sessions, udp, expiring, need>>

(* The route is inserted, with no second look at alive. *)
RouteUdp(k) ==
    /\ pc[k] = "route"
    /\ udp' = [udp EXCEPT ![at[k]] = @ \cup {k}]
    /\ Goto(k, "assoc")
    /\ UNCHANGED <<life, pool, sessions, pending_udp, expiring, need>>

(* The user of the pipe drops it, or sends into a closed connection: the   *)
(* association's task removes its route.                                   *)
AssocEnds(k) ==
    /\ pc[k] = "assoc"
    /\ udp' = [udp EXCEPT ![at[k]] = @ \ {k}]
    /\ Goto(k, "idle")
    /\ UNCHANGED <<life, pool, sessions, pending_udp, expiring, need>>

-----------------------------------------------------------------------------
(* Death. QUIC closes by itself: peer, idle timeout, network. *)
QuicCloses(c) ==
    /\ quic[c] = "up" /\ quic' = [quic EXCEPT ![c] = "closed"]
    /\ UNCHANGED <<alive, cancelled, pool, sessions, routes, expiring, pc, at, need>>

(* A reader sees its channel end, or the heartbeat its silence: expire     *)
(* starts by clearing alive.                                               *)
ReaderExpires(c) ==
    /\ quic[c] # "new" /\ expiring[<<"reader", c>>] = "idle"
    /\ alive' = alive \ {c}
    /\ expiring' = [expiring EXCEPT ![<<"reader", c>>] = "pending"]
    /\ UNCHANGED <<quic, cancelled, pool, sessions, routes, pc, at, need>>

\* mutant: a cancelled token ends the watcher but leaves QUIC open
WatcherWakes_NoClose(c) ==
    /\ quic[c] # "new" /\ expiring[<<"watcher", c>>] = "idle"
    /\ quic[c] = "closed" \/ c \in cancelled
    /\ alive' = alive \ {c}
    /\ expiring' = [expiring EXCEPT ![<<"watcher", c>>] = "pending"]
    /\ UNCHANGED <<quic, cancelled, pool, sessions, routes, pc, at, need>>

(* The death watcher: QUIC closed, or the token was cancelled and it       *)
(* closes QUIC; then it calls expire.                                      *)
WatcherWakes(c) ==
    /\ quic[c] # "new" /\ expiring[<<"watcher", c>>] = "idle"
    /\ quic[c] = "closed" \/ c \in cancelled
    /\ quic' = [quic EXCEPT ![c] = "closed"] /\ alive' = alive \ {c}
    /\ expiring' = [expiring EXCEPT ![<<"watcher", c>>] = "pending"]
    /\ UNCHANGED <<cancelled, pool, sessions, routes, pc, at, need>>

ClearPending(e) ==
    /\ expiring[e] = "pending"
    /\ pending_udp' = [pending_udp EXCEPT ![e[2]] = {}]
    /\ expiring' = [expiring EXCEPT ![e] = "routes"]
    /\ UNCHANGED <<life, pool, sessions, udp, pc, at, need>>

ClearRoutes(e) ==
    /\ expiring[e] = "routes"
    /\ udp' = [udp EXCEPT ![e[2]] = {}]
    /\ expiring' = [expiring EXCEPT ![e] = "cancel"]
    /\ UNCHANGED <<life, pool, sessions, pending_udp, pc, at, need>>

CancelClose(e) ==
    /\ expiring[e] = "cancel"
    /\ cancelled' = cancelled \cup {e[2]}
    /\ expiring' = [expiring EXCEPT ![e] = "done"]
    /\ UNCHANGED <<quic, alive, pool, sessions, routes, pc, at, need>>

-----------------------------------------------------------------------------
\* mutant: dead connections are not dropped from the vector
MaintTick_NoRetain ==
    LET idle == {c \in pool : sessions[c] = 0}
        surplus == IF Cardinality(pool) > Size THEN Cardinality(pool) - Size ELSE 0 IN
    /\ need = 0
    /\ \E V \in SUBSET idle :
         /\ Cardinality(V) = IF surplus < Cardinality(idle) THEN surplus ELSE Cardinality(idle)
         /\ pool' = pool \ V
         /\ alive' = alive \ V /\ cancelled' = cancelled \cup V
         /\ need' \in {0, IF Cardinality(pool') < Size THEN Size - Cardinality(pool') ELSE 0}
    /\ UNCHANGED <<quic, sessions, routes, expiring, pc, at>>

(* spawn_maintenance, the part under the lock: drop the dead, then retire  *)
(* connections without sessions while the pool is above its size. Then     *)
(* dial what is missing, unless backing off.                               *)
MaintTick ==
    LET kept == pool \cap alive
        idle == {c \in kept : sessions[c] = 0}
        surplus == IF Cardinality(kept) > Size THEN Cardinality(kept) - Size ELSE 0 IN
    /\ need = 0
    /\ \E V \in SUBSET idle :
         /\ Cardinality(V) = IF surplus < Cardinality(idle) THEN surplus ELSE Cardinality(idle)
         /\ pool' = kept \ V
         /\ alive' = alive \ V /\ cancelled' = cancelled \cup V
         /\ need' \in {0, IF Cardinality(pool') < Size THEN Size - Cardinality(pool') ELSE 0}
    /\ UNCHANGED <<quic, sessions, routes, expiring, pc, at>>

MaintDialOk(c) ==
    /\ need > 0 /\ Connected(c)
    /\ pool' = pool \cup {c} /\ need' = need - 1
    /\ UNCHANGED <<sessions, routes, expiring, pc, at>>

MaintDialErr ==
    /\ need > 0 /\ need' = need - 1
    /\ UNCHANGED <<life, pool, sessions, routes, expiring, pc, at>>

-----------------------------------------------------------------------------
(* The steps a caller takes without waiting for anything but a timeout, ... *)
CallerStep(k) ==
    \/ DialErr(k) \/ Push(k) \/ CheckAlive(k) \/ Count(k) \/ OpenReply(k) \/ Uncount(k)
    \/ Kill(k) \/ Pend(k) \/ UdpGivesUp(k) \/ Unpend(k) \/ RouteUdp(k)

(* ... and the two that wait for the transport to take a frame. *)
SendStep(k) == SendOpen(k) \/ AskUdp(k)

Expire(e) == ClearPending(e) \/ ClearRoutes(e) \/ CancelClose(e)

Next ==
    \/ \E k \in Caller : \/ Acquire(k) \/ CallerStep(k) \/ SendStep(k) \/ UdpReply(k)
                          \/ SessionEnds(k) \/ AssocEnds(k)
                          \/ \E c \in Conn : DialOk(k, c)
    \/ \E c \in Conn : QuicCloses(c) \/ ReaderExpires(c) \/ WatcherWakes(c) \/ MaintDialOk(c)
    \/ \E e \in Runner \X Conn : Expire(e)
    \/ MaintTick \/ MaintDialErr

Spec == Init /\ [][Next]_vars

(* Ready tasks run, the maintenance timer fires, and what has a timeout    *)
(* ends. A dial ends too: the awaits of connect that have no timeout (the   *)
(* control stream and the AUTH frame) use the credit that comes with the   *)
(* QUIC handshake. A blocked write is only sure to end once QUIC is closed. *)
(* Sessions and associations may last for ever, and no connection need     *)
(* ever be established.                                                    *)
SendUnblocked(k) == pc[k] \in {"opening", "ask"} /\ quic[at[k]] = "closed" /\ SendStep(k)

CallerRuns(k) == WF_vars(CallerStep(k)) /\ WF_vars(SendUnblocked(k))
WatcherRuns(c) == WF_vars(WatcherWakes(c))
ExpireRuns(e) == WF_vars(Expire(e))
MaintRuns == WF_vars(MaintTick \/ MaintDialErr)

FairSpec ==
    /\ Spec /\ MaintRuns
    /\ \A k \in Caller : CallerRuns(k)
    /\ \A c \in Conn : WatcherRuns(c)
    /\ \A e \in Runner \X Conn : ExpireRuns(e)

-----------------------------------------------------------------------------
(* Properties. *)

TypeOK ==
    /\ quic \in [Conn -> {"new", "up", "closed"}]
    /\ alive \subseteq Conn /\ cancelled \subseteq Conn /\ pool \subseteq Conn
    /\ IsFiniteSet(pool)
    /\ sessions \in [Conn -> Nat]
    /\ pending_udp \in [Conn -> SUBSET Caller] /\ udp \in [Conn -> SUBSET Caller]
    /\ expiring \in [Runner \X Conn -> {"idle", "pending", "routes", "cancel", "done"}]
    /\ pc \in [Caller -> {"idle", "dial", "push", "have", "count", "opening", "reply", "open",
                          "uncount", "uncount_kill", "kill",
                          "pend", "ask", "wait", "unpend", "route", "assoc"}]
    /\ at \in [Caller -> Conn \cup {NoConn}]
    /\ \A k \in Caller : pc[k] \notin {"idle", "dial"} => at[k] \in Conn
    /\ need \in Nat

Counted(c) == {k \in Caller : at[k] = c /\ pc[k] \in {"opening", "reply", "open", "uncount", "uncount_kill"}}
Admitted(c) == {k \in Caller : at[k] = c /\ pc[k] \in {"opening", "reply", "open"}}

(* The session count of a connection never drifts and never goes below     *)
(* zero, whichever way opens fail, time out or lose the race for the last  *)
(* place; and no more sessions than MAX_PER_CONN are ever admitted, though *)
(* acquire reads the count long before the place is taken.                 *)
SessionsExact ==
    \A c \in Conn : /\ sessions[c] = Cardinality(Counted(c))
                    /\ Cardinality(Admitted(c)) <= MaxPerConn

(* A retired connection is closed explicitly: its QUIC connection does not *)
(* live on because background tasks hold clones of it.                     *)
RetiredCloses == \A c \in Conn : c \in cancelled ~> quic[c] = "closed"

(* A dead connection does not stay in the pool. *)
DeadLeavesPool == \A c \in Conn : c \in pool \ alive ~> c \notin pool

(* Whatever happens to its connection, a caller gets an answer (a session, *)
(* an association or an error). The only place where it can hang is a      *)
(* write that an open QUIC connection does not take; it never waits on a   *)
(* closed one.                                                             *)
RequestEnds ==
    \A k \in Caller :
        []<>(\/ pc[k] \in {"idle", "open", "assoc"}
             \/ pc[k] \in {"opening", "ask"} /\ quic[at[k]] = "up")

=============================================================================
