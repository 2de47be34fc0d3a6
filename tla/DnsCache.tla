------------------------------- MODULE DnsCache -------------------------------
(***************************************************************************)
(* The server-wide cache of UDP target lookups. Each datagram for a domain *)
(* looks the name up in it; a miss resolves the name (an await) and stores *)
(* the answer under the time read before the await. The map is accessed    *)
(* without a common lock: its size is read, expired entries are dropped    *)
(* and the answer inserted in separate steps.                              *)
(*                                                                         *)
(* Sources: server/state.rs (udp_dns_cached, udp_dns_store), server/hub.rs *)
(* (resolve_udp_target). An address is named by the time its lookup was    *)
(* sent.                                                                   *)
(***************************************************************************)
EXTENDS Clock, FiniteSets

CONSTANTS
    Host,        \* "host:port" keys
    NoEntry,     \* an absent map entry, or key
    Datagram,    \* slots for datagrams in flight; a slot is used again and again
    DnsCap,      \* UDP_DNS_CACHE_CAP
    Ttl          \* udp_dns_ttl

ASSUME DnsAssumption ==
    /\ IsFiniteSet(Host) /\ IsFiniteSet(Datagram)
    /\ NoEntry \notin Nat \X Nat
    /\ DnsCap \in Nat \ {0} /\ Ttl \in Nat

VARIABLES
    udp_dns,     \* ServerState.udp_dns: address and insertion time
    dgram,       \* where the task of each datagram is
    dst,         \* the key it looks up
    since,       \* `now` in resolve_udp_target
    age          \* history: age of the last address taken from the cache

dnsVars == <<udp_dns, dgram, dst, since, age>>

DnsInit ==
    /\ udp_dns = [h \in Host |-> NoEntry]
    /\ dgram = [d \in Datagram |-> "idle"]
    /\ dst = [d \in Datagram |-> NoEntry]
    /\ since = [d \in Datagram |-> 0]
    /\ age = 0

-----------------------------------------------------------------------------
Done(d) ==
    /\ dgram' = [dgram EXCEPT ![d] = "idle"]
    /\ dst' = [dst EXCEPT ![d] = NoEntry]
    /\ since' = [since EXCEPT ![d] = 0]

Goes(d, where) ==
    /\ dgram' = [dgram EXCEPT ![d] = where]
    /\ UNCHANGED <<dst, since>>

Entries == {h \in Host : udp_dns[h] # NoEntry}

(* An entry is good for Ttl from its insertion time; Instant::duration_since *)
(* saturates when that time is the later one.                              *)
Alive(h, t) == Saturating(t - udp_dns[h][2]) <= Ttl

(* udp_dns_cached: a hit. The policy is checked again on the address. *)
Hit(d, h) ==
    /\ dgram[d] = "idle" /\ Ttl > 0
    /\ h \in Entries /\ Alive(h, now)
    /\ age' = now - udp_dns[h][1]
    /\ UNCHANGED <<clock, udp_dns, dgram, dst, since>>

Miss(d, h) ==
    /\ dgram[d] = "idle"
    /\ Ttl > 0 => ~(h \in Entries /\ Alive(h, now))
    /\ dgram' = [dgram EXCEPT ![d] = "resolve"]
    /\ dst' = [dst EXCEPT ![d] = h]
    /\ since' = [since EXCEPT ![d] = now]
    /\ UNCHANGED <<clock, udp_dns, age>>

(* The lookup failed, timed out, or gave no address the policy allows. *)
ResolveFails(d) ==
    /\ dgram[d] = "resolve" /\ Done(d)
    /\ UNCHANGED <<clock, udp_dns, age>>

Resolved(d) ==
    /\ dgram[d] = "resolve"
    /\ IF Ttl > 0 THEN Goes(d, "store") ELSE Done(d)
    /\ UNCHANGED <<clock, udp_dns, age>>

(* udp_dns_store: the first look at the size. *)
CheckRoom(d) ==
    /\ dgram[d] = "store"
    /\ Goes(d, IF Cardinality(Entries) >= DnsCap THEN "purge" ELSE "insert")
    /\ UNCHANGED <<clock, udp_dns, age>>

Purge(d) ==
    /\ dgram[d] = "purge"
    /\ udp_dns' = [h \in Host |->
                     IF h \in Entries /\ Alive(h, since[d]) THEN udp_dns[h] ELSE NoEntry]
    /\ Goes(d, "recheck")
    /\ UNCHANGED <<clock, age>>

(* A table that is still full skips caching. *)
Recheck(d) ==
    /\ dgram[d] = "recheck"
    /\ IF Cardinality(Entries) >= DnsCap THEN Done(d) ELSE Goes(d, "insert")
    /\ UNCHANGED <<clock, udp_dns, age>>

\* mutant: the clock is read again after the lookup
Insert_LateStamp(d) ==
    /\ dgram[d] = "insert"
    /\ udp_dns' = [udp_dns EXCEPT ![dst[d]] = <<since[d], now>>]
    /\ Done(d)
    /\ UNCHANGED <<clock, age>>

Insert(d) ==
    /\ dgram[d] = "insert"
    /\ udp_dns' = [udp_dns EXCEPT ![dst[d]] = <<since[d], since[d]>>]
    /\ Done(d)
    /\ UNCHANGED <<clock, age>>

DnsStep(d) ==
    \/ \E h \in Host : Hit(d, h) \/ Miss(d, h)
    \/ ResolveFails(d) \/ Resolved(d)
    \/ CheckRoom(d) \/ Purge(d) \/ Recheck(d) \/ Insert(d)

(* The cache on its own; ServerTables runs it beside the other tables. *)
DnsNext == (ClockNext /\ UNCHANGED dnsVars) \/ \E d \in Datagram : DnsStep(d)
DnsSpec == ClockInit /\ DnsInit /\ [][DnsNext]_<<clock, dnsVars>>

-----------------------------------------------------------------------------
(* Properties. *)

DnsTypeOK ==
    /\ now \in Nat /\ age \in Int
    /\ udp_dns \in [Host -> (Nat \X Nat) \cup {NoEntry}]
    /\ dgram \in [Datagram -> {"idle", "resolve", "store", "purge", "recheck", "insert"}]
    /\ dst \in [Datagram -> Host \cup {NoEntry}] /\ since \in [Datagram -> Nat]

(* An address taken from the cache is never older than the TTL, counted    *)
(* from when it was asked for, although slow lookups of one name overlap   *)
(* and the slower one overwrites the newer answer; and the table exceeds   *)
(* its capacity by no more than the other tasks that saw room in it.       *)
DnsSound ==
    /\ age <= Ttl
    /\ Cardinality(Entries) <= DnsCap - 1 + Cardinality(Datagram)

=============================================================================
