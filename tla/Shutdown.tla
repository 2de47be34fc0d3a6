------------------------------- MODULE Shutdown -------------------------------
(***************************************************************************)
(* Graceful shutdown of the server, composed with its session engine and   *)
(* its accept loops: after the signal the connections in the table are     *)
(* collected and cancelled, sessions are given a grace period to drain,    *)
(* the table is swept and only then the listeners are aborted.             *)
(*                                                                         *)
(* Source: server/mod.rs (run_with_shutdown, graceful_shutdown,            *)
(* reaper_loop). The iteration over the table visits it piece by piece     *)
(* while connections come and go.                                          *)
(***************************************************************************)
EXTENDS SessionHub

VARIABLES
    phase,     \* where graceful_shutdown is
    visit,     \* the part of the table its iterator has not reached
    collected  \* the tokens it holds and has not cancelled yet

shutdown == <<phase, visit, collected>>
allVars == <<vars, shutdown>>

ShutdownInit ==
    /\ Init
    /\ phase = "serving" /\ visit = {} /\ collected = {}

-----------------------------------------------------------------------------
(* The token was cancelled by a signal, or a listener exited. *)
Signal ==
    /\ phase = "serving"
    /\ phase' = "collect" /\ visit' = Conn
    /\ UNCHANGED <<vars, collected>>

\* mutant: the filter keeps the tokens that are cancelled already
Collect_Inverted(c) ==
    /\ phase = "collect" /\ c \in visit
    /\ visit' = visit \ {c}
    /\ collected' = collected \cup (({c} \cap conns) \cap cancelled)
    /\ UNCHANGED <<vars, phase>>

(* The iterator reaches the place of c in the table. *)
Collect(c) ==
    /\ phase = "collect" /\ c \in visit
    /\ visit' = visit \ {c}
    /\ collected' = collected \cup (({c} \cap conns) \ cancelled)
    /\ UNCHANGED <<vars, phase>>

Collected ==
    /\ phase = "collect" /\ visit = {}
    /\ phase' = "cancel"
    /\ UNCHANGED <<vars, visit, collected>>

CancelToken(c) ==
    /\ phase = "cancel" /\ c \in collected
    /\ cancelled' = cancelled \cup {c}
    /\ collected' = collected \ {c}
    /\ UNCHANGED <<active, conns, chan, maps, cut, relayCut, req, pc, out, inp, stage, reap>>
    /\ UNCHANGED <<phase, visit>>

StartDrain ==
    /\ phase = "cancel" /\ collected = {}
    /\ phase' = "drain"
    /\ UNCHANGED <<vars, visit, collected>>

(* The poll sees no active session ... *)
DrainCompletes ==
    /\ phase = "drain" /\ active = 0
    /\ phase' = "sweep"
    /\ UNCHANGED <<vars, visit, collected>>

\* mutant: the poll has no deadline
DrainExpires_Never ==
    /\ phase = "drain" /\ active = 0
    /\ phase' = "sweep"
    /\ UNCHANGED <<vars, visit, collected>>

(* ... or the grace period ends. *)
DrainExpires ==
    /\ phase = "drain"
    /\ phase' = "sweep"
    /\ UNCHANGED <<vars, visit, collected>>

Sweep ==
    /\ phase = "sweep"
    /\ conns' = conns \ cancelled
    /\ phase' = "abort"
    /\ UNCHANGED <<active, chan, maps, tokens, req, pc, out, inp, stage, reap>>
    /\ UNCHANGED <<visit, collected>>

(* The server token stops the reaper, abort_all the listeners. *)
StopListeners ==
    /\ phase = "abort"
    /\ phase' = "down"
    /\ UNCHANGED <<vars, visit, collected>>

ShutdownStep ==
    \/ \E c \in Conn : Collect(c) \/ CancelToken(c)
    \/ Collected \/ StartDrain \/ DrainCompletes \/ DrainExpires \/ Sweep \/ StopListeners

-----------------------------------------------------------------------------
(* The listeners accept until they are aborted; tasks that were spawned    *)
(* run on. The reaper may tick until the server token is cancelled. If a   *)
(* listener exited that is at the end, otherwise at the signal: it takes   *)
(* no step from there on, and nothing here forces it to take one.          *)
ServerStep ==
    \/ Sessions \/ \E c \in Conn : Ending(c)
    \/ phase # "down" /\ \E c \in Conn : Accept(c)
    \/ (phase # "down" \/ reap.phase # "sleep") /\ Reaper

ShutdownNext == (ServerStep /\ UNCHANGED shutdown) \/ Signal \/ ShutdownStep

(* The fairness of SessionHub, and a main task that is scheduled; the      *)
(* signal need not come.                                                   *)
MainRuns == WF_allVars(ShutdownStep)

ShutdownSpec ==
    /\ ShutdownInit /\ [][ShutdownNext]_allVars
    /\ Fairness
    /\ MainRuns

-----------------------------------------------------------------------------
(* Properties. *)

(* Shutting down ends, also when a session never does: a connection that   *)
(* was accepted after the iterator passed its place is not cancelled and   *)
(* may keep its session, and the deadline is what ends the wait for it.    *)
ShutdownEnds == phase = "collect" ~> phase = "down"

(* Every WebTransport connection that was in the table when the shutdown   *)
(* began is drained for good, whether it was still open, already dying, or *)
(* ended while tokens were collected.                                      *)
ShutdownDrains ==
    \A c \in Conn \ Mux : (phase = "collect" /\ visit = Conn /\ c \in conns)
                            ~> [](SessionsOf(c) = {})

=============================================================================
