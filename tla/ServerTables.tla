----------------------------- MODULE ServerTables -----------------------------
(***************************************************************************)
(* The tables of ServerState that all connections share, under one clock:  *)
(* used nonces, resolved names and a user's token bucket. They have no     *)
(* state in common, so a behaviour exercises one of them, chosen at the    *)
(* start.                                                                  *)
(***************************************************************************)
EXTENDS NonceCache, DnsCache, RateLimiter

VARIABLE table   \* the table whose users run

tableVars == <<nonceVars, dnsVars, rateVars, table>>

Init ==
    /\ NonceInit /\ DnsInit /\ RateInit
    /\ table \in {"nonces", "names", "bucket"}
    /\ table # "nonces" => \A c \in Credential : stamp[c] = Start

NonceUser ==
    /\ table = "nonces" /\ NonceNext
    /\ UNCHANGED <<dnsVars, rateVars, table>>

others == <<stamp, seen_nonces, handshakes, accepted, table>>

NameUser(d) ==
    /\ table = "names" /\ DnsStep(d)
    /\ UNCHANGED <<others, rateVars>>

BucketUser(c) ==
    /\ table = "bucket" /\ RateStep(c)
    /\ UNCHANGED <<others, dnsVars>>

TimePasses ==
    /\ table # "nonces" /\ RateTick
    /\ UNCHANGED <<others, dnsVars>>

Next ==
    \/ NonceUser \/ TimePasses
    \/ \E d \in Datagram : NameUser(d)
    \/ \E c \in Caller : BucketUser(c)

(* Time passes, and the executor wakes a sleeper whose time has come.      *)
(* Nobody need call acquire.                                               *)
Spec ==
    /\ Init /\ [][Next]_tableVars
    /\ WF_tableVars(TimePasses)
    /\ \A c \in Caller : WF_tableVars(call[c] # "new" /\ BucketUser(c))

=============================================================================
