------------------------------ MODULE SessionHub ------------------------------
(***************************************************************************)
(* The server's session engine: the sessions a remote connection carries,  *)
(* the routes that feed them and the process-wide session quota.           *)
(*                                                                         *)
(* Sources: server/state.rs (ConnState, try_acquire_session,               *)
(* release_session, drop_session, reap_idle, sweep_conns), server/hub.rs   *)
(* (Hooks, spawn_tcp_pumps, handle_wt_stream and its pumps),               *)
(* proto/mux.rs (run_server_mux), server/fallback.rs                       *)
(* (spawn_mode_a_channel) and server/wt.rs (ctrl_reader, death_watcher).   *)
(*                                                                         *)
(* One step is one access to shared state, because the tasks run on a      *)
(* multi-threaded executor: a DashMap operation, an atomic, a token.       *)
(***************************************************************************)
EXTENDS Integers, FiniteSets

CONSTANTS
    Conn,         \* connection ids the server ever hands out
    Mux,          \* the connections on the mode-A path; the others are WebTransport
    Sid,          \* session ids a client may put in a frame
    Kind,         \* the kinds of session requested, out of "tcp" and "udp"
    Task,         \* the Open / UdpAssociate requests that ever arrive, one task each
    NoTask,       \* an empty map entry
    MaxSessions,  \* --max-sessions
    MaxPerConn,   \* ConnState.max_per_conn
    Permits,      \* MAX_MUX_TASKS
    Word          \* number of values of the quota counter (an AtomicU64)

ASSUME HubAssumption ==
    /\ IsFiniteSet(Conn) /\ IsFiniteSet(Sid) /\ IsFiniteSet(Task)
    /\ NoTask \notin Task
    /\ Mux \subseteq Conn /\ Kind \subseteq {"tcp", "udp"}
    /\ MaxSessions \in Nat \ {0} /\ MaxPerConn \in Nat \ {0} /\ Permits \in Nat \ {0}
    /\ Word \in Nat /\ MaxSessions < Word

Key == Conn \X Sid
Request == [key : Key, kind : Kind]

(* Who can be inside drop_session: the task that serves the request, the   *)
(* pump (or UDP watcher) that owns the teardown, the client->target pump,  *)
(* the connection's frame reader and the reaper.                           *)
Actor == ({"worker", "out", "in"} \X Task) \cup ({"reader", "reaper"} \X Key)

VARIABLES
    active,      \* ServerState.active_sessions
    conns,       \* ServerState.conns
    cancelled,   \* connections whose token is cancelled
    chan,        \* life of the connection's driver (mux loop, or WT transport)
    sessions,    \* ConnState.sessions: the request whose handle is registered
    tcp_routes,  \* ConnState.tcp_routes
    udp_routes,  \* ConnState.udp_routes
    cut,         \* requests whose own session token was cancelled
    relayCut,    \* requests whose UdpRelay.cancel was cancelled
    req,         \* what each request asks for
    pc,          \* where the task serving the request is
    out,         \* the target->client pump, or the UDP watcher
    inp,         \* the client->target pump
    stage,       \* progress of each actor inside drop_session
    reap         \* the reaper's tick: connections to visit, the one being visited,
                 \* and its expired sessions

maps == <<sessions, tcp_routes, udp_routes>>
tokens == <<cancelled, cut, relayCut>>
vars == <<active, conns, chan, maps, tokens, req, pc, out, inp, stage, reap>>

-----------------------------------------------------------------------------
ConnOf(t) == req[t].key[1]
Target(a) == IF a[1] \in {"reader", "reaper"} THEN a[2] ELSE req[a[2]].key

SessionsOf(c) == {s \in Sid : sessions[<<c, s>>] # NoTask}
session_count(c) == Cardinality(SessionsOf(c))

TokenCancelled(t) == t \in cut \/ ConnOf(t) \in cancelled

(* Requests whose task is between its first poll and its last await. *)
Running(t) == pc[t] \notin {"new", "done", "aborted"}

ReaderFree(c) ==
    /\ \A s \in Sid : stage[<<"reader", <<c, s>>>>] = "none"
    \* the WT control reader awaits udp_associate before its next frame
    /\ c \notin Mux => \A t \in Task : ~(Running(t) /\ ConnOf(t) = c /\ req[t].kind = "udp")

StartDrop(a) == stage' = [stage EXCEPT ![a] = "tcp"]

Init ==
    /\ active = 0
    /\ conns = {} /\ cancelled = {}
    /\ chan = [c \in Conn |-> "absent"]
    /\ sessions = [k \in Key |-> NoTask]
    /\ tcp_routes = [k \in Key |-> NoTask]
    /\ udp_routes = [k \in Key |-> NoTask]
    /\ cut = {} /\ relayCut = {}
    /\ req \in [Task -> Request]
    /\ pc = [t \in Task |-> "new"]
    /\ out = [t \in Task |-> "none"]
    /\ inp = [t \in Task |-> "none"]
    /\ stage = [a \in Actor |-> "none"]
    /\ reap = [phase |-> "sleep", todo |-> {}, at |-> {}, expired |-> {}]

-----------------------------------------------------------------------------
(* Admission: Hooks::admit, Hooks::udp_associate and the head of           *)
(* handle_wt_stream take the same steps in the same order.                 *)

(* A frame reader hands the request to its task. The mode-A loop takes one *)
(* of the worker permits first.                                            *)
Arrive(t) ==
    LET c == ConnOf(t) IN
    /\ pc[t] = "new"
    /\ \/ /\ c \in Mux /\ chan[c] = "open" /\ ReaderFree(c)
          /\ Cardinality({u \in Task : ConnOf(u) = c /\ Running(u)}) < Permits
       \/ c \notin Mux /\ req[t].kind = "udp" /\ chan[c] = "open" /\ ReaderFree(c)
       \/ c \notin Mux /\ req[t].kind = "tcp" /\ chan[c] \in {"open", "deaf"}
    /\ pc' = [pc EXCEPT ![t] = "contains"]
    /\ UNCHANGED <<active, conns, chan, maps, tokens, req, out, inp, stage, reap>>

CheckContains(t) ==
    LET k == req[t].key IN
    /\ pc[t] = "contains"
    /\ pc' = [pc EXCEPT ![t] =
                IF \/ sessions[k] # NoTask
                   \/ req[t].kind = "udp" /\ udp_routes[k] # NoTask
                THEN "reply" ELSE "count"]
    /\ UNCHANGED <<active, conns, chan, maps, tokens, req, out, inp, stage, reap>>

\* mutant: the per-connection check lets one session too many through
CheckCount_OffByOne(t) ==
    /\ pc[t] = "count"
    /\ pc' = [pc EXCEPT ![t] =
                IF session_count(ConnOf(t)) > MaxPerConn THEN "reply" ELSE "acquire"]
    /\ UNCHANGED <<active, conns, chan, maps, tokens, req, out, inp, stage, reap>>

CheckCount(t) ==
    /\ pc[t] = "count"
    /\ pc' = [pc EXCEPT ![t] =
                IF session_count(ConnOf(t)) >= MaxPerConn THEN "reply" ELSE "acquire"]
    /\ UNCHANGED <<active, conns, chan, maps, tokens, req, out, inp, stage, reap>>

\* mutant: the comparison with max_sessions is strict
Acquire_OffByOne(t) ==
    /\ pc[t] = "acquire"
    /\ IF active > MaxSessions
       THEN pc' = [pc EXCEPT ![t] = "reply"] /\ UNCHANGED active
       ELSE pc' = [pc EXCEPT ![t] = "register"] /\ active' = active + 1
    /\ UNCHANGED <<conns, chan, maps, tokens, req, out, inp, stage, reap>>

(* ServerState::try_acquire_session: the compare-exchange loop is one step. *)
Acquire(t) ==
    /\ pc[t] = "acquire"
    /\ IF active >= MaxSessions
       THEN pc' = [pc EXCEPT ![t] = "reply"] /\ UNCHANGED active
       ELSE pc' = [pc EXCEPT ![t] = "register"] /\ active' = active + 1
    /\ UNCHANGED <<conns, chan, maps, tokens, req, out, inp, stage, reap>>

(* try_register_with under the map entry; a lost race gives the quota back *)
(* (the "release" stage). A UDP request spawns its watcher right after.    *)
Register(t) ==
    LET k == req[t].key IN
    /\ pc[t] = "register"
    /\ \/ /\ sessions[k] # NoTask
          /\ pc' = [pc EXCEPT ![t] = "reply"]
          /\ stage' = [stage EXCEPT ![<<"worker", t>>] = "release"]
          /\ UNCHANGED <<sessions, out>>
       \/ /\ sessions[k] = NoTask
          /\ sessions' = [sessions EXCEPT ![k] = t]
          /\ \/ /\ req[t].kind = "udp"
                /\ pc' = [pc EXCEPT ![t] = "route"]
                /\ out' = [out EXCEPT ![t] = "run"]
             \/ /\ req[t].kind = "tcp"
                /\ pc' = [pc EXCEPT ![t] = "dial"]
                /\ UNCHANGED out
          /\ UNCHANGED stage
    /\ UNCHANGED <<active, conns, chan, tcp_routes, udp_routes, tokens, req, inp, reap>>

(* Hooks::udp_associate inserts the relay only after spawning its watcher. *)
InsertUdpRoute(t) ==
    /\ pc[t] = "route"
    /\ udp_routes' = [udp_routes EXCEPT ![req[t].key] = t]
    /\ pc' = [pc EXCEPT ![t] = "reply"]
    /\ UNCHANGED <<active, conns, chan, sessions, tcp_routes, tokens, req, out, inp, stage, reap>>

(* The target answered. The mode-A path publishes the route and spawns     *)
(* both pumps; the WT path, once OpenOk is written, just spawns them.      *)
DialOk(t) ==
    /\ pc[t] = "dial"
    /\ pc' = [pc EXCEPT ![t] = "reply"]
    /\ out' = [out EXCEPT ![t] = "run"]
    /\ inp' = [inp EXCEPT ![t] = "run"]
    /\ tcp_routes' = IF ConnOf(t) \in Mux
                     THEN [tcp_routes EXCEPT ![req[t].key] = t] ELSE tcp_routes
    /\ UNCHANGED <<active, conns, chan, sessions, udp_routes, tokens, req, stage, reap>>

\* mutant: the error path forgets the session it registered
DialErr_Leaks(t) ==
    /\ pc[t] = "dial"
    /\ pc' = [pc EXCEPT ![t] = "reply"]
    /\ UNCHANGED <<active, conns, chan, maps, tokens, req, out, inp, stage, reap>>

(* The dial failed or timed out, the target did not decode (WT), or OpenOk *)
(* could not be written (WT).                                              *)
DialErr(t) ==
    /\ pc[t] = "dial"
    /\ pc' = [pc EXCEPT ![t] = "reply"]
    /\ StartDrop(<<"worker", t>>)
    /\ UNCHANGED <<active, conns, chan, maps, tokens, req, out, inp, reap>>

(* The worker's last await: the answer enters the sink. (The WT stream path *)
(* writes its answer before the drop instead; nothing can see the          *)
(* difference, for it holds no permit and is never aborted.)               *)
Reply(t) ==
    /\ pc[t] = "reply" /\ stage[<<"worker", t>>] = "none"
    /\ pc' = [pc EXCEPT ![t] = "done"]
    /\ UNCHANGED <<active, conns, chan, maps, tokens, req, out, inp, stage, reap>>

-----------------------------------------------------------------------------
(* Pumps. *)

\* mutant: the pump that owns the teardown returns without it
OutEnds_NoTeardown(t) ==
    /\ out[t] = "run" /\ req[t].kind = "tcp"
    /\ out' = [out EXCEPT ![t] = "done"]
    /\ UNCHANGED <<active, conns, chan, maps, tokens, req, pc, inp, stage, reap>>

(* The target->client pump of a TCP session stops: target EOF or error, a  *)
(* dead frame sink, or a cancelled token. It always tears the session down. *)
OutEnds(t) ==
    /\ out[t] = "run" /\ req[t].kind = "tcp"
    /\ out' = [out EXCEPT ![t] = "done"]
    /\ StartDrop(<<"out", t>>)
    /\ UNCHANGED <<active, conns, chan, maps, tokens, req, pc, inp, reap>>

\* mutant: the watcher waits for its relay only, not for the session token
WatcherWakes_RelayOnly(t) ==
    /\ out[t] = "run" /\ req[t].kind = "udp"
    /\ t \in relayCut
    /\ out' = [out EXCEPT ![t] = "done"]
    /\ StartDrop(<<"out", t>>)
    /\ UNCHANGED <<active, conns, chan, maps, tokens, req, pc, inp, reap>>

(* The UDP watcher wakes when the session token or the relay is cancelled. *)
WatcherWakes(t) ==
    /\ out[t] = "run" /\ req[t].kind = "udp"
    /\ TokenCancelled(t) \/ t \in relayCut
    /\ out' = [out EXCEPT ![t] = "done"]
    /\ StartDrop(<<"out", t>>)
    /\ UNCHANGED <<active, conns, chan, maps, tokens, req, pc, inp, reap>>

(* The client->target pump stops and leaves the session to the other pump: *)
(* always on the mode-A path, and on a WT half-close (FIN, Close+FIN, EOF). *)
InHalfCloses(t) ==
    /\ inp[t] = "run"
    /\ inp' = [inp EXCEPT ![t] = "done"]
    /\ UNCHANGED <<active, conns, chan, maps, tokens, req, pc, out, stage, reap>>

(* A WT reset, protocol error, failed write or cancelled token ends the    *)
(* client->target pump with a teardown.                                    *)
InAborts(t) ==
    /\ inp[t] = "run" /\ ConnOf(t) \notin Mux
    /\ inp' = [inp EXCEPT ![t] = "done"]
    /\ StartDrop(<<"in", t>>)
    /\ UNCHANGED <<active, conns, chan, maps, tokens, req, pc, out, reap>>

-----------------------------------------------------------------------------
(* ConnState::drop_session followed, when it returned true, by             *)
(* release_session; four accesses that other actors can interleave with.   *)

DropTcpRoute(a) ==
    /\ stage[a] = "tcp"
    /\ tcp_routes' = [tcp_routes EXCEPT ![Target(a)] = NoTask]
    /\ stage' = [stage EXCEPT ![a] = "udp"]
    /\ UNCHANGED <<active, conns, chan, sessions, udp_routes, tokens, req, pc, out, inp, reap>>

\* mutant: cancels whatever remove returned, without looking whether it is there
DropUdpRoute_Unchecked(a) ==
    LET k == Target(a) IN
    /\ stage[a] = "udp"
    /\ udp_routes' = [udp_routes EXCEPT ![k] = NoTask]
    /\ relayCut' = relayCut \cup {udp_routes[k]}
    /\ stage' = [stage EXCEPT ![a] = "session"]
    /\ UNCHANGED <<active, conns, chan, sessions, tcp_routes, cancelled, cut, req, pc, out, inp, reap>>

DropUdpRoute(a) ==
    LET k == Target(a) IN
    /\ stage[a] = "udp"
    /\ udp_routes' = [udp_routes EXCEPT ![k] = NoTask]
    /\ relayCut' = relayCut \cup ({udp_routes[k]} \ {NoTask})
    /\ stage' = [stage EXCEPT ![a] = "session"]
    /\ UNCHANGED <<active, conns, chan, sessions, tcp_routes, cancelled, cut, req, pc, out, inp, reap>>

\* mutant: drop_session always returns true, so every caller releases
DropSession_AlwaysTrue(a) ==
    LET k == Target(a) IN
    /\ stage[a] = "session"
    /\ sessions' = [sessions EXCEPT ![k] = NoTask]
    /\ cut' = cut \cup ({sessions[k]} \ {NoTask})
    /\ stage' = [stage EXCEPT ![a] = "release"]
    /\ UNCHANGED <<active, conns, chan, tcp_routes, udp_routes, cancelled, relayCut, req, pc, out, inp, reap>>

DropSession(a) ==
    LET k == Target(a) IN
    /\ stage[a] = "session"
    /\ sessions' = [sessions EXCEPT ![k] = NoTask]
    /\ cut' = cut \cup ({sessions[k]} \ {NoTask})
    /\ stage' = [stage EXCEPT ![a] = IF sessions[k] # NoTask THEN "release" ELSE "none"]
    /\ UNCHANGED <<active, conns, chan, tcp_routes, udp_routes, cancelled, relayCut, req, pc, out, inp, reap>>

(* ServerState::release_session: fetch_sub, which wraps at zero. *)
Release(a) ==
    /\ stage[a] = "release"
    /\ active' = IF active = 0 THEN Word - 1 ELSE active - 1
    /\ stage' = [stage EXCEPT ![a] = "none"]
    /\ UNCHANGED <<conns, chan, maps, tokens, req, pc, out, inp, reap>>

-----------------------------------------------------------------------------
(* Frames that end a session. *)

(* Close (without FIN), Error, or on the mode-A path a Data frame with RST. *)
ReadClose(k) ==
    /\ chan[k[1]] = "open" /\ ReaderFree(k[1])
    /\ StartDrop(<<"reader", k>>)
    /\ UNCHANGED <<active, conns, chan, maps, tokens, req, pc, out, inp, reap>>

(* Hooks::feed_tcp when the pump behind the route is gone: send fails. *)
ReadDataFails(k) ==
    /\ k[1] \in Mux /\ chan[k[1]] = "open" /\ ReaderFree(k[1])
    /\ tcp_routes[k] # NoTask /\ inp[tcp_routes[k]] = "done"
    /\ StartDrop(<<"reader", k>>)
    /\ UNCHANGED <<active, conns, chan, maps, tokens, req, pc, out, inp, reap>>

-----------------------------------------------------------------------------
(* The reaper: reap_idle visits every connection, then sweep_conns.        *)

ReaperIdle == \A k \in Key : stage[<<"reaper", k>>] = "none"

ReapTick ==
    /\ reap.phase = "sleep"
    /\ reap' = [reap EXCEPT !.phase = "tick", !.todo = conns]
    /\ UNCHANGED <<active, conns, chan, maps, tokens, req, pc, out, inp, stage>>

(* Collect the expired sessions of the next connection. How long a session *)
(* has been idle is not modelled: any subset may have expired.             *)
ReapVisit(c) ==
    /\ c \in reap.todo /\ reap.at = {}
    /\ \E E \in SUBSET SessionsOf(c) :
         reap' = [reap EXCEPT !.todo = @ \ {c},
                              !.at = {c} \cap conns,
                              !.expired = ({c} \cap conns) \X E]
    /\ UNCHANGED <<active, conns, chan, maps, tokens, req, pc, out, inp, stage>>

ReapSession(k) ==
    /\ k \in reap.expired /\ ReaperIdle
    /\ StartDrop(<<"reaper", k>>)
    /\ reap' = [reap EXCEPT !.expired = @ \ {k}]
    /\ UNCHANGED <<active, conns, chan, maps, tokens, req, pc, out, inp>>

(* All expired sessions of the visited connection are dropped: if it has   *)
(* none left and was quiet for three idle periods it is cancelled as well. *)
ReapLeave(c) ==
    /\ c \in reap.at /\ reap.expired = {} /\ ReaperIdle
    /\ \/ UNCHANGED cancelled
       \/ SessionsOf(c) = {} /\ cancelled' = cancelled \cup {c}
    /\ reap' = [reap EXCEPT !.at = {}]
    /\ UNCHANGED <<active, conns, chan, maps, cut, relayCut, req, pc, out, inp, stage>>

(* The connections cancelled during the tick leave the table, and so does  *)
(* every other one whose token is cancelled (sweep_conns).                 *)
ReapSweep ==
    /\ reap.phase = "tick" /\ reap.todo = {} /\ reap.at = {}
    /\ conns' = conns \ cancelled
    /\ reap' = [reap EXCEPT !.phase = "sleep"]
    /\ UNCHANGED <<active, chan, maps, tokens, req, pc, out, inp, stage>>

-----------------------------------------------------------------------------
(* Connections come and go. *)

(* An authenticated connection enters the table and its driver starts. *)
AcceptMux(c) ==
    /\ c \in Mux /\ chan[c] = "absent"
    /\ chan' = [chan EXCEPT ![c] = "open"]
    /\ conns' = conns \cup {c}
    /\ UNCHANGED <<active, maps, tokens, req, pc, out, inp, stage, reap>>

AcceptWt(c) ==
    /\ c \notin Mux /\ chan[c] = "absent"
    /\ chan' = [chan EXCEPT ![c] = "open"]
    /\ conns' = conns \cup {c}
    /\ UNCHANGED <<active, maps, tokens, req, pc, out, inp, stage, reap>>

(* graceful_shutdown, and any other owner of the token, cancels it. *)
CancelConn(c) ==
    /\ c \in conns \ cancelled
    /\ cancelled' = cancelled \cup {c}
    /\ UNCHANGED <<active, conns, chan, maps, cut, relayCut, req, pc, out, inp, stage, reap>>

(* run_server_mux leaves its loop (EOF, bad frame, cancelled token),       *)
(* cancels the connection and calls abort_all.                             *)
MuxBreaks(c) ==
    /\ c \in Mux /\ chan[c] = "open" /\ ReaderFree(c)
    /\ chan' = [chan EXCEPT ![c] = "aborting"]
    /\ cancelled' = cancelled \cup {c}
    /\ UNCHANGED <<active, conns, maps, cut, relayCut, req, pc, out, inp, stage, reap>>

(* An aborted worker vanishes at an await point: before its first poll,    *)
(* inside dial_target, or answering. Nothing after that point runs.        *)
Abort(t) ==
    /\ chan[ConnOf(t)] = "aborting"
    /\ pc[t] \in {"contains", "dial", "reply"} /\ stage[<<"worker", t>>] = "none"
    /\ pc' = [pc EXCEPT ![t] = "aborted"]
    /\ UNCHANGED <<active, conns, chan, maps, tokens, req, out, inp, stage, reap>>

(* join_all: it panics when a worker was aborted, and then the task never  *)
(* reaches conns.remove; the sweep will.                                   *)
MuxJoins(c) ==
    LET mine == {t \in Task : ConnOf(t) = c} IN
    /\ chan[c] = "aborting" /\ \A t \in mine : ~Running(t)
    /\ chan' = [chan EXCEPT ![c] = "closed"]
    /\ conns' = IF \E t \in mine : pc[t] = "aborted" THEN conns ELSE conns \ {c}
    /\ UNCHANGED <<active, maps, tokens, req, pc, out, inp, stage, reap>>

(* spawn_ctrl_reader: the control stream ended; nobody reads it any more. *)
WtControlEnds(c) ==
    /\ c \notin Mux /\ chan[c] = "open" /\ ReaderFree(c)
    /\ chan' = [chan EXCEPT ![c] = "deaf"]
    /\ cancelled' = cancelled \cup {c}
    /\ UNCHANGED <<active, conns, maps, cut, relayCut, req, pc, out, inp, stage, reap>>

(* spawn_death_watcher: the transport closed or the token was cancelled. *)
WtDies(c) ==
    /\ c \notin Mux /\ chan[c] \in {"open", "deaf"}
    /\ chan' = [chan EXCEPT ![c] = "closed"]
    /\ cancelled' = cancelled \cup {c}
    /\ conns' = conns \ {c}
    /\ UNCHANGED <<active, maps, cut, relayCut, req, pc, out, inp, stage, reap>>

-----------------------------------------------------------------------------
Worker(t) ==
    \/ CheckContains(t) \/ CheckCount(t) \/ Acquire(t) \/ Register(t)
    \/ InsertUdpRoute(t) \/ DialOk(t) \/ DialErr(t) \/ Reply(t) \/ Abort(t)

DropStep(a) == DropTcpRoute(a) \/ DropUdpRoute(a) \/ DropSession(a) \/ Release(a)

Reaper ==
    \/ ReapTick \/ ReapSweep
    \/ \E c \in Conn : ReapVisit(c) \/ ReapLeave(c)
    \/ \E k \in Key : ReapSession(k)

Sessions ==
    \/ \E t \in Task : \/ Arrive(t) \/ Worker(t) \/ OutEnds(t) \/ WatcherWakes(t)
                        \/ InHalfCloses(t) \/ InAborts(t)
    \/ \E a \in Actor : DropStep(a)
    \/ \E k \in Key : ReadClose(k) \/ ReadDataFails(k)

Accept(c) == AcceptMux(c) \/ AcceptWt(c)

Ending(c) == MuxBreaks(c) \/ MuxJoins(c) \/ WtControlEnds(c) \/ WtDies(c)

Next == Sessions \/ Reaper \/ \E c \in Conn : Accept(c) \/ CancelConn(c) \/ Ending(c)

Spec == Init /\ [][Next]_vars

(* The executor runs every ready task. A dial ends by its timeouts; a pump *)
(* or a WT transport need end only once its connection is cancelled, when  *)
(* the transport is closed and every blocked write fails. The reaper and   *)
(* the peer are not needed for progress.                                   *)
WorkerRuns(t) == (Worker(t) /\ pc'[t] # "aborted") \/ DropStep(<<"worker", t>>)

OutRuns(t) ==
    \/ ConnOf(t) \in cancelled /\ OutEnds(t)
    \/ WatcherWakes(t)
    \/ DropStep(<<"out", t>>)

TaskFairness(t) ==
    WF_vars(WorkerRuns(t)) /\ WF_vars(OutRuns(t)) /\ WF_vars(DropStep(<<"in", t>>))

KeyFairness(k) == WF_vars(DropStep(<<"reader", k>>)) /\ WF_vars(DropStep(<<"reaper", k>>))

ConnFairness(c) == WF_vars(c \in cancelled /\ WtDies(c))

Fairness ==
    /\ \A t \in Task : TaskFairness(t)
    /\ \A k \in Key : KeyFairness(k)
    /\ \A c \in Conn : ConnFairness(c)

FairSpec == Spec /\ Fairness

-----------------------------------------------------------------------------
(* Properties. *)

TypeOK ==
    /\ active \in 0 .. (Word - 1)
    /\ conns \subseteq Conn /\ cancelled \subseteq Conn
    /\ chan \in [Conn -> {"absent", "open", "deaf", "aborting", "closed"}]
    /\ sessions \in [Key -> Task \cup {NoTask}]
    /\ tcp_routes \in [Key -> Task \cup {NoTask}]
    /\ udp_routes \in [Key -> Task \cup {NoTask}]
    /\ cut \subseteq Task /\ relayCut \subseteq Task
    /\ req \in [Task -> Request]
    /\ pc \in [Task -> {"new", "contains", "count", "acquire", "register", "route",
                        "dial", "reply", "done", "aborted"}]
    /\ out \in [Task -> {"none", "run", "done"}]
    /\ inp \in [Task -> {"none", "run", "done"}]
    /\ stage \in [Actor -> {"none", "tcp", "udp", "session", "release"}]
    /\ reap \in [phase : {"sleep", "tick"}, todo : SUBSET Conn, at : SUBSET Conn, expired : SUBSET Key]

Registered == {k \in Key : sessions[k] # NoTask}
Releasing == {a \in Actor : stage[a] = "release"}
Acquired == {t \in Task : pc[t] = "register"}

(* The quota counter is exact at every instant: it counts the registered   *)
(* handles, the actors between removing a handle and release_session, and  *)
(* the tasks between try_acquire_session and try_register_with. However    *)
(* pumps, reaper, Close frames and reused ids race, a session's quota is   *)
(* released at most once and never before its handle is gone.              *)
QuotaExact ==
    active = Cardinality(Registered) + Cardinality(Releasing) + Cardinality(Acquired)

(* The counter never passes --max-sessions, and so never wraps below zero  *)
(* to lock every later session out (the hazard release_session asserts).   *)
QuotaWithinLimit == active <= MaxSessions

(* admit reads session_count and registers later, so a mode-A connection   *)
(* can exceed max_per_conn, but by no more than the other workers that     *)
(* were past the check at that moment.                                     *)
PerConnBound == \A c \in Mux : session_count(c) <= MaxPerConn - 1 + Permits

(* A tcp_routes entry never outlives its session's teardown: whenever a    *)
(* route is present its target->client pump is running or about to remove  *)
(* it, even when the session was dropped while the dial was in flight.     *)
TcpRouteOwned ==
    \A k \in Key : tcp_routes[k] # NoTask =>
        \/ out[tcp_routes[k]] = "run"
        \/ stage[<<"out", tcp_routes[k]>>] = "tcp"

(* Someone is still bound to tear the session down: its dialling task, its *)
(* pump or watcher, or an actor already inside drop_session for its id.    *)
Owned(k) ==
    \/ pc[sessions[k]] = "dial"
    \/ out[sessions[k]] = "run"
    \/ \E a \in Actor : stage[a] \in {"tcp", "udp", "session"} /\ Target(a) = k

(* No WebTransport session is ever left registered with nobody to drop it. *)
WtSessionOwned == \A k \in Key : k[1] \notin Mux /\ sessions[k] # NoTask => Owned(k)

(* The same for every path: a session whose connection has left the table, *)
(* so that the reaper no longer sees it, has somebody to tear it down and  *)
(* return its quota ("when the connection dies (or is swept), every        *)
(* session is cancelled and its global quota released").                   *)
NoOrphanSession ==
    \A k \in Key : sessions[k] # NoTask => k[1] \in conns \/ Owned(k)

(* On a live connection a relay in udp_routes has its watcher, so that     *)
(* dropping its session also unbinds it ("... cancels the UDP relay, so    *)
(* the relay socket is unbound instead of receiving forever").             *)
RelayWatched ==
    \A k \in Key : udp_routes[k] # NoTask /\ k[1] \notin cancelled =>
        \/ out[udp_routes[k]] = "run"
        \/ stage[<<"out", udp_routes[k]>>] \in {"tcp", "udp"}

(* Cancelling a WebTransport connection drains it: from some point on it   *)
(* holds no session, whatever was being dialled, pumped or torn down.      *)
CancelDrains ==
    \A c \in Conn \ Mux : c \in cancelled ~> [](SessionsOf(c) = {})

=============================================================================
