------------------------------ MODULE UnauthGate ------------------------------
(***************************************************************************)
(* The gate on connections that have not authenticated yet: a global       *)
(* counter and a count per source address, a guard held by each admitted   *)
(* connection from accept until its AUTH frame verifies, and the handshake *)
(* phases (with their timeouts) that the guard is carried through.         *)
(*                                                                         *)
(* Sources: server/limit.rs (UnauthGate, UnauthGuard), server/wt.rs        *)
(* (run_wt, handle_wt_conn) and server/fallback.rs (api_handler,           *)
(* ws_channel). One step is one access to a shared counter, or one await   *)
(* of the handshake.                                                       *)
(***************************************************************************)
EXTENDS Integers, FiniteSets

CONSTANTS
    Peer,        \* slots for connection attempts in flight; a slot is used again and again
    Ip,          \* source addresses
    NoIp,        \* a fallback peer, behind a CDN: only the global cap applies
    MaxGlobal,   \* max_global
    MaxPerIp     \* max_per_ip

ASSUME GateAssumption ==
    /\ IsFiniteSet(Peer) /\ NoIp \notin Ip
    /\ MaxGlobal \in Nat \ {0} /\ MaxPerIp \in Nat \ {0}

VARIABLES
    global,      \* UnauthGate.global
    per_ip,      \* UnauthGate.per_ip; an absent entry is a zero
    ip,          \* the address each attempt comes from
    pc           \* where its task is

vars == <<global, per_ip, ip, pc>>

(* Phases in which the task owns the guard: the session request and its    *)
(* bearer token, the first stream, the AUTH frame.                         *)
Guarded == {"request", "stream", "auth"}

Init ==
    /\ global = 0
    /\ per_ip = [i \in Ip |-> 0]
    /\ ip \in [Peer -> Ip \cup {NoIp}]
    /\ pc = [p \in Peer |-> "idle"]

-----------------------------------------------------------------------------
(* run_wt calls try_admit from its accept loop, one connection at a time;  *)
(* fallback handlers call it concurrently, but with no address.            *)
AcceptLoopFree == \A q \in Peer : ip[q] \in Ip => pc[q] \notin {"global", "undo"}

(* try_admit, first half: count the address under its entry lock. At the   *)
(* address's cap the attempt is refused and nothing changes.               *)
CountIp(p) ==
    /\ pc[p] = "idle"
    /\ \/ ip[p] = NoIp /\ pc' = [pc EXCEPT ![p] = "global"] /\ UNCHANGED per_ip
       \/ /\ ip[p] \in Ip /\ AcceptLoopFree /\ per_ip[ip[p]] < MaxPerIp
          /\ per_ip' = [per_ip EXCEPT ![ip[p]] = @ + 1]
          /\ pc' = [pc EXCEPT ![p] = "global"]
    /\ UNCHANGED <<global, ip>>

\* mutant: the cap is compared with > instead of >=
TakeGlobal_OffByOne(p) ==
    /\ pc[p] = "global"
    /\ IF global > MaxGlobal
       THEN pc' = [pc EXCEPT ![p] = "undo"] /\ UNCHANGED global
       ELSE /\ global' = global + 1
            /\ pc' = [pc EXCEPT ![p] = IF ip[p] = NoIp THEN "auth" ELSE "request"]
    /\ UNCHANGED <<per_ip, ip>>

(* try_admit, second half: the compare-exchange loop on the global count.  *)
(* A fallback handler checks its bearer token without awaiting and goes on *)
(* to read the AUTH frame.                                                 *)
TakeGlobal(p) ==
    /\ pc[p] = "global"
    /\ IF global >= MaxGlobal
       THEN pc' = [pc EXCEPT ![p] = "undo"] /\ UNCHANGED global
       ELSE /\ global' = global + 1
            /\ pc' = [pc EXCEPT ![p] = IF ip[p] = NoIp THEN "auth" ELSE "request"]
    /\ UNCHANGED <<per_ip, ip>>

(* release_ip: decrement, saturating, and remove the entry at zero, all    *)
(* under the entry lock.                                                   *)
ReleasedIp(p) ==
    IF ip[p] = NoIp THEN per_ip
    ELSE [per_ip EXCEPT ![ip[p]] = IF @ = 0 THEN 0 ELSE @ - 1]

(* The global cap refused the attempt: its address is given back. *)
Refuse(p) ==
    /\ pc[p] = "undo"
    /\ per_ip' = ReleasedIp(p)
    /\ pc' = [pc EXCEPT ![p] = "idle"]
    /\ UNCHANGED <<global, ip>>

-----------------------------------------------------------------------------
(* The handshake of an admitted connection. *)

(* run_wt's task: handshake done, bearer token accepted, session accepted. *)
SessionAccepted(p) ==
    /\ pc[p] = "request"
    /\ pc' = [pc EXCEPT ![p] = "stream"]
    /\ UNCHANGED <<global, per_ip, ip>>

(* The peer opened its control stream in time. *)
StreamAccepted(p) ==
    /\ pc[p] = "stream"
    /\ pc' = [pc EXCEPT ![p] = "auth"]
    /\ UNCHANGED <<global, per_ip, ip>>

\* mutant: waiting for the first stream has no timeout
GuardDropped_NoStreamTimeout(p) ==
    /\ pc[p] \in Guarded \ {"stream"}
    /\ pc' = [pc EXCEPT ![p] = "drop"]
    /\ UNCHANGED <<global, per_ip, ip>>

(* The guard goes out of scope: the AUTH frame verified, or the handshake  *)
(* failed, was refused, timed out or the peer went away.                   *)
GuardDropped(p) ==
    /\ pc[p] \in Guarded
    /\ pc' = [pc EXCEPT ![p] = "drop"]
    /\ UNCHANGED <<global, per_ip, ip>>

(* UnauthGuard::drop: first the global count, ... *)
DropGlobal(p) ==
    /\ pc[p] = "drop"
    /\ global' = global - 1
    /\ pc' = [pc EXCEPT ![p] = "drop_ip"]
    /\ UNCHANGED <<per_ip, ip>>

\* mutant: the entry is removed whatever count is left in it
DropIp_RemovesEntry(p) ==
    /\ pc[p] = "drop_ip"
    /\ per_ip' = IF ip[p] = NoIp THEN per_ip ELSE [per_ip EXCEPT ![ip[p]] = 0]
    /\ pc' = [pc EXCEPT ![p] = "idle"]
    /\ UNCHANGED <<global, ip>>

(* ... then the address. The slot serves the next attempt. *)
DropIp(p) ==
    /\ pc[p] = "drop_ip"
    /\ per_ip' = ReleasedIp(p)
    /\ pc' = [pc EXCEPT ![p] = "idle"]
    /\ UNCHANGED <<global, ip>>

-----------------------------------------------------------------------------
Next ==
    \E p \in Peer :
        \/ CountIp(p) \/ TakeGlobal(p) \/ Refuse(p)
        \/ SessionAccepted(p) \/ StreamAccepted(p) \/ GuardDropped(p)
        \/ DropGlobal(p) \/ DropIp(p)

Spec == Init /\ [][Next]_vars

(* Waiting for the first stream and for the AUTH frame ends by AUTH_TIMEOUT *)
(* without the peer; the session request has no timeout of its own, so      *)
(* nothing is assumed of it. A running task is scheduled. New attempts need *)
(* not come.                                                               *)
TimesOut(p) == pc[p] # "request" /\ GuardDropped(p)
Runs(p) == TakeGlobal(p) \/ Refuse(p) \/ DropGlobal(p) \/ DropIp(p)

Fairness(p) == WF_vars(TimesOut(p)) /\ WF_vars(Runs(p))

FairSpec == Spec /\ \A p \in Peer : Fairness(p)

-----------------------------------------------------------------------------
(* Properties. *)

TypeOK ==
    /\ global \in Nat
    /\ per_ip \in [Ip -> Nat]
    /\ ip \in [Peer -> Ip \cup {NoIp}]
    /\ pc \in [Peer -> {"idle", "global", "undo", "drop", "drop_ip"} \cup Guarded]

Holders == {p \in Peer : pc[p] \in Guarded}
CountedGlobally == {p \in Peer : pc[p] \in Guarded \cup {"drop"}}
CountedAt(i) == {p \in Peer : ip[p] = i /\ pc[p] # "idle"}

(* Neither count ever drifts: the global one is the number of live guards, *)
(* an address's one the number of its attempts between their increment and *)
(* their release, through refusals by the other cap and guards dropped in  *)
(* two steps. A lost or repeated release would shut the gate for good, or  *)
(* open it.                                                                *)
CountsExact ==
    /\ global = Cardinality(CountedGlobally)
    /\ \A i \in Ip : per_ip[i] = Cardinality(CountedAt(i))

(* What the gate promises: never more unauthenticated connections than     *)
(* max_global, nor than max_per_ip from one address, however admissions,   *)
(* refusals and drops interleave.                                          *)
GateCaps ==
    /\ Cardinality(Holders) <= MaxGlobal
    /\ \A i \in Ip : Cardinality({p \in Holders : ip[p] = i}) <= MaxPerIp

(* A peer whose session was accepted and that then stays silent, opening   *)
(* no stream or sending no AUTH frame, gives its slot back and its address *)
(* is uncounted ("must not pin an unauthenticated-gate slot").             *)
SlotReturned ==
    \A p \in Peer : pc[p] \in {"stream", "auth"} ~> pc[p] = "idle"

=============================================================================
