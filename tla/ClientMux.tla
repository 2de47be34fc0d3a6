------------------------------ MODULE ClientMux ------------------------------
(***************************************************************************)
(* The client's fallback path: the one mode-A channel that HttpOutbound    *)
(* keeps and replaces, and the multiplexer that opens TCP sessions and UDP *)
(* associations on it.                                                     *)
(*                                                                         *)
(* Source: client/fallback.rs (ensure_mux, the one retry) and the client   *)
(* half of proto/mux.rs. DashMap operations, awaits and the lock are steps *)
(* of their own; each clear of teardown_all is one.                        *)
(*                                                                         *)
(* A session id is the pair of a channel and the caller that allocated it: *)
(* the 32-bit counter behind alloc_sid does not come round while a trace   *)
(* of an id is left. Queues are abstracted to whether a frame finds room.  *)
(***************************************************************************)
CONSTANTS
    Caller,      \* requests of the fallback path
    Kind,        \* a subset of {"tcp", "udp"}
    Chan,        \* slots for channels; a slot is used again and again
    NoCaller, NoChan

ASSUME MuxAssumption ==
    /\ NoCaller \notin Caller /\ NoChan \notin Chan
    /\ Kind \subseteq {"tcp", "udp"}

VARIABLES
    mux, lock,               \* HttpOutbound.mux, and the caller that holds its lock
    life,                    \* per channel: "unused", "open", or the next step of teardown_all
    writer,                  \* channels whose writer task still takes frames
    eof,                     \* channels whose incoming half has ended
    reader,                  \* per channel: <<>>, or <<c, fin>> while a Data frame waits for room
    sessions, udp,           \* MuxInner's routes
    pending_open, pending_udp, \* MuxInner's waiters
    kind, at, again,         \* a caller's request: "tcp" or "udp", its channel, is it the retry
    step,                    \* where each caller is
    reply,                   \* the value in a caller's oneshot
    rx,                      \* callers whose in_rx still exists
    srv                      \* what the server has yet to say about a caller's session

channel == <<life, writer, eof>>
routes == <<sessions, udp>>
waiters == <<pending_open, pending_udp>>
request == <<kind, at, again>>
vars == <<mux, lock, channel, reader, routes, waiters, request, step, reply, rx, srv>>

Init ==
    /\ mux = NoChan /\ lock = NoCaller
    /\ life = [g \in Chan |-> "unused"] /\ writer = {} /\ eof = {}
    /\ reader = [g \in Chan |-> <<>>]
    /\ sessions = [g \in Chan |-> {}] /\ udp = [g \in Chan |-> {}]
    /\ pending_open = [g \in Chan |-> {}] /\ pending_udp = [g \in Chan |-> {}]
    /\ kind = [c \in Caller |-> "tcp"] /\ at = [c \in Caller |-> NoChan]
    /\ again = {}
    /\ step = [c \in Caller |-> "idle"]
    /\ reply = [c \in Caller |-> "none"] /\ rx = {}
    /\ srv = [c \in Caller |-> "none"]

is_closed(g) == life[g] \notin {"unused", "open"}

Goto(c, l) == step' = [step EXCEPT ![c] = l]

Add(map, c) == [map EXCEPT ![at[c]] = @ \cup {c}]
Remove(map, c) == [map EXCEPT ![at[c]] = @ \ {c}]

-----------------------------------------------------------------------------
(* HttpOutbound::open_tcp and udp_associate begin with ensure_mux. *)
Begin(c, k) ==
    /\ step[c] = "idle"
    /\ kind' = [kind EXCEPT ![c] = k] /\ Goto(c, "ensure")
    /\ UNCHANGED <<mux, lock, channel, reader, routes, waiters, at, again, reply, rx, srv>>

(* The lock is free and the channel is alive: no await, one step. *)
EnsureKeeps(c) ==
    /\ step[c] = "ensure" /\ lock = NoCaller
    /\ mux # NoChan /\ ~is_closed(mux)
    /\ at' = [at EXCEPT ![c] = mux] /\ Goto(c, "route")
    /\ UNCHANGED <<mux, lock, channel, reader, routes, waiters, kind, again, reply, rx, srv>>

\* mutant: another caller may look at the slot while this one connects
EnsureDials_Unlocked(c) ==
    /\ step[c] = "ensure" /\ lock = NoCaller
    /\ mux # NoChan => is_closed(mux)
    /\ Goto(c, "connect")
    /\ UNCHANGED <<mux, lock, channel, reader, routes, waiters, request, reply, rx, srv>>

(* Otherwise the lock is held through connect. *)
EnsureDials(c) ==
    /\ step[c] = "ensure" /\ lock = NoCaller
    /\ mux # NoChan => is_closed(mux)
    /\ lock' = c /\ Goto(c, "connect")
    /\ UNCHANGED <<mux, channel, reader, routes, waiters, request, reply, rx, srv>>

(* A channel slot nobody refers to any more stands for the new channel. *)
Unused(g) == life[g] \in {"unused", "done"} /\ \A d \in Caller : at[d] # g

ConnectOk(c, g) ==
    /\ step[c] = "connect" /\ Unused(g)
    /\ mux' = g /\ lock' = NoCaller
    /\ life' = [life EXCEPT ![g] = "open"] /\ writer' = writer \cup {g} /\ eof' = eof \ {g}
    /\ at' = [at EXCEPT ![c] = g] /\ Goto(c, "route")
    /\ UNCHANGED <<reader, routes, waiters, kind, again, reply, rx, srv>>

(* Refused, broken, or one of connect's timeouts: the request fails. *)
ConnectErr(c) ==
    /\ step[c] = "connect"
    /\ lock' = NoCaller /\ Goto(c, "failed")
    /\ UNCHANGED <<mux, channel, reader, routes, waiters, request, reply, rx, srv>>

-----------------------------------------------------------------------------
(* MuxClient::open_tcp and udp_associate: the route, then the waiter, then *)
(* the frame, so that an answer however early finds both.                  *)
InsertRoute(c) ==
    /\ step[c] = "route"
    /\ IF kind[c] = "tcp" THEN sessions' = Add(sessions, c) /\ UNCHANGED udp
                          ELSE udp' = Add(udp, c) /\ UNCHANGED sessions
    /\ rx' = rx \cup {c} /\ Goto(c, "wait_in")
    /\ UNCHANGED <<mux, lock, channel, reader, waiters, request, reply, srv>>

InsertWaiter(c) ==
    /\ step[c] = "wait_in"
    /\ IF kind[c] = "tcp"
       THEN pending_open' = Add(pending_open, c) /\ UNCHANGED pending_udp
       ELSE pending_udp' = Add(pending_udp, c) /\ UNCHANGED pending_open
    /\ Goto(c, "send")
    /\ UNCHANGED <<mux, lock, channel, reader, routes, request, reply, rx, srv>>

RemoveRoute(c) ==
    IF kind[c] = "tcp" THEN sessions' = Remove(sessions, c) /\ UNCHANGED udp
                       ELSE udp' = Remove(udp, c) /\ UNCHANGED sessions

RemoveWaiter(c) ==
    IF kind[c] = "tcp" THEN pending_open' = Remove(pending_open, c) /\ UNCHANGED pending_udp
                       ELSE pending_udp' = Remove(pending_udp, c) /\ UNCHANGED pending_open

(* The error reaches HttpOutbound, which tries once more if the channel    *)
(* died meanwhile. in_rx and the oneshot's receiver are dropped.           *)
Fail(c) ==
    /\ rx' = rx \ {c} /\ reply' = [reply EXCEPT ![c] = "none"]
    /\ IF c \notin again /\ is_closed(at[c])
       THEN /\ again' = again \cup {c} /\ Goto(c, "ensure")
            /\ at' = [at EXCEPT ![c] = NoChan] /\ srv' = [srv EXCEPT ![c] = "none"]
       ELSE Goto(c, "failed") /\ UNCHANGED <<again, at, srv>>

(* cmd_tx.send puts the frame into the writer's queue ... *)
SendOpen(c) ==
    /\ step[c] = "send" /\ at[c] \in writer
    /\ Goto(c, "wait")
    /\ srv' = [srv EXCEPT ![c] = IF at[c] \in eof THEN "over" ELSE "asked"]
    /\ UNCHANGED <<mux, lock, channel, reader, routes, waiters, request, reply, rx>>

(* ... or fails once the writer is gone: the route is removed first. *)
SendFails(c) ==
    /\ step[c] = "send" /\ at[c] \notin writer
    /\ RemoveRoute(c) /\ Goto(c, "undo")
    /\ UNCHANGED <<mux, lock, channel, reader, waiters, request, reply, rx, srv>>

(* The oneshot was resolved: Ok spawns the pumps, Err drops the route. *)
GotOk(c) ==
    /\ step[c] = "wait" /\ reply[c] = "ok"
    /\ Goto(c, "up") /\ reply' = [reply EXCEPT ![c] = "none"]
    /\ UNCHANGED <<mux, lock, channel, reader, routes, waiters, request, rx, srv>>

GotErr(c) ==
    /\ step[c] = "wait" /\ reply[c] = "err"
    /\ RemoveRoute(c) /\ Fail(c)
    /\ UNCHANGED <<mux, lock, channel, reader, waiters, kind>>

(* HANDSHAKE_TIMEOUT, or the sender was dropped by teardown_all. *)
NoReply(c) ==
    /\ step[c] = "wait" /\ reply[c] = "none"
    /\ RemoveRoute(c) /\ Goto(c, "undo")
    /\ UNCHANGED <<mux, lock, channel, reader, waiters, request, reply, rx, srv>>

\* mutant: the waiter is left in its map when no reply came
UndoWaiter_Forgets(c) ==
    /\ step[c] = "undo" /\ Fail(c)
    /\ UNCHANGED <<mux, lock, channel, reader, routes, waiters, kind>>

UndoWaiter(c) ==
    /\ step[c] = "undo"
    /\ RemoveWaiter(c) /\ Fail(c)
    /\ UNCHANGED <<mux, lock, channel, reader, routes, kind>>

-----------------------------------------------------------------------------
(* The pumps of an open session.                                           *)
\* mutant: the half-close unregisters the session
HalfClose_DropsRoute(c) ==
    /\ step[c] = "up" /\ kind[c] = "tcp"
    /\ Goto(c, "half") /\ sessions' = Remove(sessions, c)
    /\ UNCHANGED <<mux, lock, channel, reader, udp, waiters, request, reply, rx, srv>>

(* user -> frames: the user has no more to send; Close+FIN goes out. *)
HalfClose(c) ==
    /\ step[c] = "up" /\ kind[c] = "tcp"
    /\ Goto(c, "half")
    /\ UNCHANGED <<mux, lock, channel, reader, routes, waiters, request, reply, rx, srv>>

(* frames -> user: a write to the user fails, or every sender is gone (the *)
(* route's, and the clone a blocked reader holds).                         *)
DownEnds(c) ==
    /\ step[c] \in {"up", "half"} /\ kind[c] = "tcp" /\ c \in rx
    /\ c \notin sessions[at[c]] /\ \A f \in BOOLEAN : reader[at[c]] # <<c, f>>
    /\ rx' = rx \ {c}
    /\ UNCHANGED <<mux, lock, channel, reader, routes, waiters, request, step, reply, srv>>

WriteFails(c) ==
    /\ step[c] \in {"up", "half"} /\ kind[c] = "tcp" /\ c \in rx
    /\ rx' = rx \ {c}
    /\ UNCHANGED <<mux, lock, channel, reader, routes, waiters, request, step, reply, srv>>

(* The user drops the UdpPipe. The outbound pump removes the route when    *)
(* that happens, or when it finds the writer gone.                         *)
PipeDropped(c) ==
    /\ step[c] \in {"up", "over"} /\ kind[c] = "udp" /\ c \in rx
    /\ rx' = rx \ {c}
    /\ UNCHANGED <<mux, lock, channel, reader, routes, waiters, request, step, reply, srv>>

UdpPumpEnds(c) ==
    /\ step[c] = "up" /\ kind[c] = "udp"
    /\ c \notin rx \/ at[c] \notin writer
    /\ udp' = Remove(udp, c) /\ Goto(c, "over")
    /\ UNCHANGED <<mux, lock, channel, reader, sessions, waiters, request, reply, rx, srv>>

-----------------------------------------------------------------------------
(* run_client_reader. What the server may still say of a session: it       *)
(* starts the pumps of a TCP session before it answers the Open, so Data   *)
(* ("early") and even the FIN ("fin") can precede the OpenOk.              *)
Hears(c) ==
    /\ at[c] # NoChan /\ life[at[c]] = "open" /\ reader[at[c]] = <<>>

Tell(c, outcome) ==
    LET waiting == c \in pending_open[at[c]] \cup pending_udp[at[c]]
    IN  /\ reply' = [reply EXCEPT ![c] = IF waiting THEN outcome ELSE @]
        /\ pending_open' = Remove(pending_open, c)
        /\ pending_udp' = Remove(pending_udp, c)

(* OpenOk, or UdpOk. *)
ReadOk(c) ==
    /\ Hears(c) /\ srv[c] \in {"asked", "early", "fin"}
    /\ srv' = [srv EXCEPT ![c] = IF @ = "fin" THEN "over" ELSE "run"]
    /\ Tell(c, "ok")
    /\ UNCHANGED <<mux, lock, channel, reader, routes, request, step, rx>>

ReadOpenErr(c) ==
    /\ Hears(c) /\ srv[c] = "asked"
    /\ srv' = [srv EXCEPT ![c] = "over"]
    /\ Tell(c, "err")
    /\ UNCHANGED <<mux, lock, channel, reader, routes, request, step, rx>>

Later(s, last) ==
    CASE s \in {"asked", "early"} -> IF last THEN "fin" ELSE "early"
      [] s = "run" -> IF last THEN "over" ELSE "run"

(* Data or UdpData for a session without a route, or whose receiver is     *)
(* gone, or with room in its queue. Only a TCP route dies with its         *)
(* receiver, or on FIN.                                                    *)
ReadData(c, fin) ==
    /\ Hears(c) /\ srv[c] \in {"asked", "early", "run"}
    /\ fin => kind[c] = "tcp"
    /\ srv' = [srv EXCEPT ![c] = Later(@, fin)]
    /\ sessions' = IF fin \/ c \notin rx THEN Remove(sessions, c) ELSE sessions
    /\ UNCHANGED <<mux, lock, channel, reader, udp, waiters, request, step, reply, rx>>

(* The queue is full: the reader, and so the whole channel, waits. *)
ReadBlocks(c, fin) ==
    /\ Hears(c) /\ srv[c] \in {"asked", "early", "run"}
    /\ fin => kind[c] = "tcp"
    /\ c \in rx /\ c \in sessions[at[c]] \cup udp[at[c]]
    /\ srv' = [srv EXCEPT ![c] = Later(@, fin)]
    /\ reader' = [reader EXCEPT ![at[c]] = <<c, fin>>]
    /\ UNCHANGED <<mux, lock, channel, routes, waiters, request, step, reply, rx>>

(* The pump made room, or the receiver is gone and the send fails. *)
ReaderResumes(c, fin) ==
    /\ at[c] # NoChan /\ reader[at[c]] = <<c, fin>>
    /\ c \in rx => step[c] \in {"up", "half", "over"}
    /\ reader' = [reader EXCEPT ![at[c]] = <<>>]
    /\ sessions' = IF fin \/ c \notin rx THEN Remove(sessions, c) ELSE sessions
    /\ UNCHANGED <<mux, lock, channel, udp, waiters, request, step, reply, rx, srv>>

(* Close+RST: the target connection broke. *)
ReadClose(c) ==
    /\ Hears(c) /\ srv[c] \in {"asked", "early", "run"} /\ kind[c] = "tcp"
    /\ srv' = [srv EXCEPT ![c] = Later(@, TRUE)]
    /\ sessions' = Remove(sessions, c) /\ udp' = Remove(udp, c)
    /\ UNCHANGED <<mux, lock, channel, reader, waiters, request, step, reply, rx>>

(* The server reaps an idle session: it says nothing. *)
ServerReaps(c) ==
    /\ at[c] # NoChan /\ srv[c] = "run"
    /\ srv' = [srv EXCEPT ![c] = "over"]
    /\ UNCHANGED <<mux, lock, channel, reader, routes, waiters, request, step, reply, rx>>

-----------------------------------------------------------------------------
(* The end of a channel. Its two halves end on their own: the response     *)
(* body (or the WebSocket stream), and the body the writer feeds.          *)
LinkEnds(g) ==
    /\ life[g] = "open" /\ g \notin eof
    /\ eof' = eof \cup {g}
    /\ srv' = [c \in Caller |-> IF at[c] = g /\ srv[c] # "none" THEN "over" ELSE srv[c]]
    /\ UNCHANGED <<mux, lock, life, writer, reader, routes, waiters, request, step, reply, rx>>

WriterBreaks(g) ==
    /\ g \in writer
    /\ writer' = writer \ {g}
    /\ UNCHANGED <<mux, lock, life, eof, reader, routes, waiters, request, step, reply, rx, srv>>

(* End of stream or a bad frame: teardown_all cancels the token ... *)
ReadEof(g) ==
    /\ life[g] = "open" /\ g \in eof /\ reader[g] = <<>>
    /\ life' = [life EXCEPT ![g] = "sessions"]
    /\ UNCHANGED <<mux, lock, writer, eof, reader, routes, waiters, request, step, reply, rx, srv>>

\* mutant: the routes survive the channel
ClearSessions_Skipped(g) ==
    /\ life[g] = "sessions"
    /\ life' = [life EXCEPT ![g] = "udp"]
    /\ UNCHANGED <<mux, lock, writer, eof, reader, routes, waiters, request, step, reply, rx, srv>>

(* ... and clears the four maps, one after the other. *)
ClearSessions(g) ==
    /\ life[g] = "sessions"
    /\ sessions' = [sessions EXCEPT ![g] = {}]
    /\ life' = [life EXCEPT ![g] = "udp"]
    /\ UNCHANGED <<mux, lock, writer, eof, reader, udp, waiters, request, step, reply, rx, srv>>

ClearUdp(g) ==
    /\ life[g] = "udp"
    /\ udp' = [udp EXCEPT ![g] = {}]
    /\ life' = [life EXCEPT ![g] = "pending_open"]
    /\ UNCHANGED <<mux, lock, writer, eof, reader, sessions, waiters, request, step, reply, rx, srv>>

ClearPendingOpen(g) ==
    /\ life[g] = "pending_open"
    /\ pending_open' = [pending_open EXCEPT ![g] = {}]
    /\ life' = [life EXCEPT ![g] = "pending_udp"]
    /\ UNCHANGED <<mux, lock, writer, eof, reader, routes, pending_udp, request, step, reply, rx, srv>>

ClearPendingUdp(g) ==
    /\ life[g] = "pending_udp"
    /\ pending_udp' = [pending_udp EXCEPT ![g] = {}]
    /\ life' = [life EXCEPT ![g] = "done"]
    /\ UNCHANGED <<mux, lock, writer, eof, reader, routes, pending_open, request, step, reply, rx, srv>>

-----------------------------------------------------------------------------
Connect(c) == ConnectErr(c) \/ \E g \in Chan : ConnectOk(c, g)

OpenStep(c) ==
    \/ InsertRoute(c) \/ InsertWaiter(c) \/ SendOpen(c) \/ SendFails(c)
    \/ GotOk(c) \/ GotErr(c) \/ NoReply(c) \/ UndoWaiter(c)

Pump(c) == DownEnds(c) \/ UdpPumpEnds(c)

Teardown(g) ==
    \/ ReadEof(g)
    \/ ClearSessions(g) \/ ClearUdp(g) \/ ClearPendingOpen(g) \/ ClearPendingUdp(g)

Next ==
    \/ \E c \in Caller :
         \/ \E k \in Kind : Begin(c, k)
         \/ EnsureKeeps(c) \/ EnsureDials(c) \/ Connect(c)
         \/ OpenStep(c) \/ Pump(c)
         \/ HalfClose(c) \/ WriteFails(c) \/ PipeDropped(c)
         \/ ReadOk(c) \/ ReadOpenErr(c) \/ ReadClose(c) \/ ServerReaps(c)
         \/ \E fin \in BOOLEAN : ReadData(c, fin) \/ ReadBlocks(c, fin) \/ ReaderResumes(c, fin)
    \/ \E g \in Chan : LinkEnds(g) \/ WriterBreaks(g) \/ Teardown(g)

Spec == Init /\ [][Next]_vars

-----------------------------------------------------------------------------
(* Properties. *)

(* The types; and the lock of HttpOutbound.mux is held by nobody but a     *)
(* caller inside connect.                                                  *)
TypeOK ==
    /\ mux \in Chan \cup {NoChan}
    /\ lock \in {c \in Caller : step[c] = "connect"} \cup {NoCaller}
    /\ life \in [Chan -> {"unused", "open", "sessions", "udp", "pending_open", "pending_udp", "done"}]
    /\ writer \subseteq Chan /\ eof \subseteq Chan
    /\ reader \in [Chan -> {<<>>} \cup (Caller \X BOOLEAN)]
    /\ sessions \in [Chan -> SUBSET Caller] /\ udp \in [Chan -> SUBSET Caller]
    /\ pending_open \in [Chan -> SUBSET Caller] /\ pending_udp \in [Chan -> SUBSET Caller]
    /\ kind \in [Caller -> {"tcp", "udp"}] /\ at \in [Caller -> Chan \cup {NoChan}]
    /\ again \subseteq Caller /\ rx \subseteq Caller
    /\ step \in [Caller -> {"idle", "ensure", "connect", "route", "wait_in", "send", "wait", "undo",
                             "failed", "up", "half", "over"}]
    /\ reply \in [Caller -> {"none", "ok", "err"}]
    /\ srv \in [Caller -> {"none", "asked", "early", "fin", "run", "over"}]

(* ensure_mux keeps the lock through connect: there is never a second      *)
(* living channel, however many requests find the first one dead at once.  *)
OneChannel ==
    \A g, h \in Chan : life[g] = "open" /\ life[h] = "open" => g = h

(* An attempt that failed leaves nothing behind in the maps of its         *)
(* channel, whether it timed out, was refused or lost its channel, and     *)
(* whatever the reader did to the same entries meanwhile.                  *)
Attempting == {"wait_in", "send", "wait", "undo"}

NoLeftovers ==
    \A g \in Chan, c \in Caller :
        /\ c \in sessions[g] \cup udp[g] => at[c] = g /\ step[c] \in Attempting \cup {"up", "half"}
        /\ c \in pending_open[g] \cup pending_udp[g] => at[c] = g /\ step[c] \in Attempting

(* As long as the server sends for a session that the user still reads,    *)
(* its frames find the route: through the wait for the answer, which they  *)
(* may overtake, and after the user's own half-close.                      *)
ResponseKept ==
    \A c \in Caller :
        /\ srv[c] \in {"asked", "early", "run"} /\ c \in rx /\ life[at[c]] = "open"
        /\ step[c] \in {"wait", "up", "half"}
        => c \in IF kind[c] = "tcp" THEN sessions[at[c]] ELSE udp[at[c]]

(* What teardown_all leaves in the maps of a dead channel belongs to opens *)
(* that are still under way and will remove it: every session that was up  *)
(* has lost its route, so its pump sees the end of the stream.             *)
DeadChannelEmpty ==
    \A g \in Chan :
        life[g] = "done" => \A c \in sessions[g] \cup udp[g] : step[c] \in Attempting
=============================================================================
