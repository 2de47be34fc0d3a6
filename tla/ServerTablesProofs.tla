-------------------------- MODULE ServerTablesProofs --------------------------
(***************************************************************************)
(* The tables all connections share.                                       *)
(*                                                                         *)
(* The cache of used nonces lets every credential through at most once,    *)
(* for any number of handshakes and credentials, any window, cap and       *)
(* clock, as long as what the clock is set back by and what a thread loses *)
(* between its two steps stay below one window together.                   *)
(*                                                                         *)
(* The cache of UDP target lookups serves no address older than the TTL,   *)
(* and exceeds its capacity by less than the number of datagrams that are  *)
(* in flight at once: for any hosts, capacity, TTL and concurrency.        *)
(*                                                                         *)
(* The token bucket keeps a user to their rate: for any rate, capacity,    *)
(* charges and callers; and nobody sleeps in acquire for longer than the   *)
(* demand of all callers needs to flow in.                                 *)
(***************************************************************************)
EXTENDS ServerTables, FiniteSetTheorems, TLAPS

USE SMTT(60)

(* A credential that was accepted and is not in the cache is two windows   *)
(* old, and a handshake that is about to record one holds a credential     *)
(* that was fresh when it was checked, which was a moment ago.             *)
Forgotten(c) == stamp[c] + 2 * AuthWindow <= high
Fresh(t) ==
    /\ cred[t] \in Credential
    /\ high <= at[t] + MaxLag
    /\ at[t] <= stamp[cred[t]] + AuthWindow + MaxBack
    /\ cred[t] \notin Forged \cup Skewed

NonceInv ==
    /\ NonceTypeOK /\ high >= Start
    /\ \A c \in Credential : accepted[c] <= 1
    /\ \A c \in Credential : accepted[c] > 0 => c \in seen_nonces \/ Forgotten(c)
    /\ \A t \in Handshake : Recording(t) => Fresh(t)

-----------------------------------------------------------------------------
(* now_unix stays within MaxBack of its highest value, whatever the hourly *)
(* sync does, and that value never falls.                                  *)
LEMMA ClockStep ==
    ASSUME ClockTypeOK, ClockNext
    PROVE  ClockTypeOK' /\ high' >= high
  <1> USE ClockAssumption DEF ClockTypeOK, now_unix, Saturating, Higher
  <1>1. CASE Tick
    BY <1>1 DEF Tick
  <1>2. ASSUME NEW o \in -MaxOffset .. MaxOffset, Sync(o)
        PROVE  ClockTypeOK' /\ high' >= high
    BY <1>2 DEF Sync
  <1> QED BY <1>1, <1>2 DEF ClockNext

LEMMA UnixIsNat == ASSUME ClockTypeOK PROVE now_unix \in Nat
  BY ClockAssumption DEF ClockTypeOK, now_unix, Saturating

LEMMA NonceInvInit == ASSUME NonceInit PROVE NonceInv
  <1>1. ClockTypeOK /\ high = Start
    BY ClockAssumption DEF NonceInit, ClockInit, ClockTypeOK, now_unix, Saturating
  <1>2. stamp \in [Credential -> Nat]
    <2>1. Stamp \subseteq Nat /\ stamp \in [Credential -> Stamp]
      BY NonceAssumption DEF NonceInit
    <2> QED BY <2>1, ZenonT(60)
  <1>3. cred \in [Handshake -> Credential \cup {NoCred}]
    BY DEF NonceInit
  <1>4. NonceTypeOK
    BY <1>1, <1>2, <1>3 DEF NonceInit, NonceTypeOK
  <1> QED BY <1>1, <1>4, ClockAssumption DEF NonceInit, NonceInv, Recording

(* An entry that expires from the cache is two windows old. *)
LEMMA Expiry ==
    ASSUME NonceInv, NEW c \in seen_nonces, c \notin Kept
    PROVE  Forgotten(c)
  <1>1. stamp[c] \in Nat /\ AuthWindow \in Nat /\ 2 * AuthWindow <= Start /\ Start \in Nat
    BY NonceAssumption, ClockAssumption DEF NonceInv, NonceTypeOK
  <1>2. now_unix \in Nat /\ now_unix <= high /\ high >= Start /\ high \in Nat
    BY UnixIsNat DEF NonceInv, NonceTypeOK, ClockTypeOK
  <1>3. stamp[c] <= Saturating(now_unix - 2 * AuthWindow)
    BY <1>1, <1>2 DEF Kept, Saturating
  <1> QED BY <1>1, <1>2, <1>3 DEF Forgotten, Saturating

(* A credential that a handshake is about to record was never accepted     *)
(* before, unless the cache still holds it.                                *)
LEMMA NotYetAccepted ==
    ASSUME NonceInv, NEW t \in Handshake, Recording(t), cred[t] \notin seen_nonces
    PROVE  cred[t] \in Credential /\ accepted[cred[t]] = 0
  <1>1. Fresh(t)
    BY DEF NonceInv
  <1>2. ~Forgotten(cred[t])
    BY <1>1, NonceAssumption, ClockAssumption
       DEF Fresh, Forgotten, NonceInv, NonceTypeOK, ClockTypeOK
  <1> QED BY <1>1, <1>2 DEF Fresh, NonceInv, NonceTypeOK

(* The check of a credential makes it fresh. *)
LEMMA CheckedIsFresh ==
    ASSUME NonceInv, NEW t \in Handshake, NEW c \in Credential, InWindow(c),
           c \notin Forged \cup Skewed,
           cred' = [cred EXCEPT ![t] = c], at' = [at EXCEPT ![t] = high],
           UNCHANGED <<clock, stamp>>
    PROVE  Fresh(t)'
  <1>1. /\ cred'[t] = c /\ at'[t] = high /\ stamp' = stamp /\ high' = high
        /\ stamp[c] \in Nat /\ AuthWindow \in Nat /\ MaxBack \in Nat /\ MaxLag \in Nat
    BY NonceAssumption, ClockAssumption DEF NonceInv, NonceTypeOK, clock
  <1>2. now_unix \in Nat /\ now_unix >= high - MaxBack /\ high \in Nat
    BY UnixIsNat DEF NonceInv, NonceTypeOK, ClockTypeOK
  <1>3. now_unix <= stamp[c] + AuthWindow
    BY <1>1, <1>2 DEF InWindow, Saturating
  <1> QED BY <1>1, <1>2, <1>3 DEF Fresh

-----------------------------------------------------------------------------
LEMMA NonceInvNext == ASSUME NonceInv, NonceNext PROVE NonceInv'
  <1> USE NonceAssumption
  <1> USE DEF NonceInv
  <1>1. CASE NonceClock
    <2>1. ClockTypeOK' /\ high' >= high /\ high' \in Nat /\ high \in Nat
      BY <1>1, ClockStep DEF NonceClock, NonceTypeOK, ClockTypeOK
    <2>2. UNCHANGED <<stamp, seen_nonces, hs, cred, at, accepted>>
      BY <1>1 DEF NonceClock, handshakes
    <2>3. NonceTypeOK' /\ high' >= Start
      BY <2>1, <2>2, ClockAssumption DEF NonceTypeOK
    <2>4. ASSUME NEW c \in Credential, Forgotten(c) PROVE Forgotten(c)'
      BY <2>1, <2>2, <2>4 DEF Forgotten, NonceTypeOK
    <2>5. ASSUME NEW t \in Handshake, Recording(t)' PROVE Fresh(t)'
      <3>1. Recording(t) /\ high' <= at[t] + MaxLag
        BY <1>1, <2>2, <2>5 DEF NonceClock, Recording
      <3> QED BY <3>1, <2>2 DEF Fresh
    <2> QED BY <2>2, <2>3, <2>4, <2>5
  <1>2. ASSUME NEW t \in Handshake, NEW c \in Credential,
               VerifyBearer(t, c) \/ VerifyFrame(t, c)
        PROVE  NonceInv'
    <2>1. /\ InWindow(c) /\ c \notin Forged \cup Skewed
          /\ UNCHANGED <<clock, stamp, seen_nonces, accepted>>
          /\ cred' = [cred EXCEPT ![t] = c] /\ at' = [at EXCEPT ![t] = high]
          /\ hs' \in [Handshake -> {"idle", "bearer", "auth", "frame"}]
          /\ \A u \in Handshake \ {t} : hs'[u] = hs[u]
      BY <1>2 DEF VerifyBearer, VerifyFrame, NonceTypeOK
    <2>2. NonceTypeOK' /\ high' = high
      BY <2>1 DEF NonceTypeOK, ClockTypeOK, clock, now_unix
    <2>3. Fresh(t)'
      <3>1. UNCHANGED <<clock, stamp>>
        BY <2>1
      <3> QED BY <2>1, <3>1, CheckedIsFresh, ZenonT(60)
    <2>4. ASSUME NEW u \in Handshake, Recording(u)' PROVE Fresh(u)'
      <3>1. CASE u = t
        BY <3>1, <2>3 DEF Fresh
      <3>2. CASE u # t
        BY <3>2, <2>1, <2>2, <2>4 DEF Recording, Fresh, NonceTypeOK
      <3> QED BY <3>1, <3>2
    <2> QED BY <2>1, <2>2, <2>4 DEF Forgotten
  <1>3. ASSUME NEW t \in Handshake, AuthFails(t) PROVE NonceInv'
    <2>1. NonceTypeOK' /\ high' = high
      BY <1>3 DEF AuthFails, NonceTypeOK, ClockTypeOK, clock, now_unix
    <2> QED BY <1>3, <2>1 DEF AuthFails, Forgotten, Fresh, Recording, NonceTypeOK
  <1>4. ASSUME NEW t \in Handshake, Replayed(t) PROVE NonceInv'
    <2>1. NonceTypeOK' /\ high' = high
      BY <1>4 DEF Replayed, Leaves, NonceTypeOK, ClockTypeOK, clock, now_unix
    <2> QED BY <1>4, <2>1 DEF Replayed, Leaves, Forgotten, Fresh, Recording, NonceTypeOK
  <1>5. ASSUME NEW t \in Handshake, CacheFull(t) PROVE NonceInv'
    <2>1. NonceTypeOK' /\ high' = high /\ stamp' = stamp /\ accepted' = accepted
      BY <1>5 DEF CacheFull, Leaves, Kept, NonceTypeOK, ClockTypeOK, clock, now_unix
    <2>2. ASSUME NEW c \in Credential, accepted'[c] > 0
          PROVE  c \in seen_nonces' \/ Forgotten(c)'
      BY <1>5, <2>1, <2>2, Expiry DEF CacheFull, Forgotten
    <2>3. ASSUME NEW u \in Handshake, Recording(u)' PROVE Fresh(u)'
      BY <1>5, <2>1, <2>3 DEF CacheFull, Leaves, Fresh, Recording, NonceTypeOK
    <2> QED BY <2>1, <2>2, <2>3
  <1>6. ASSUME NEW t \in Handshake, Remember(t) PROVE NonceInv'
    <2>1. cred[t] \in Credential /\ accepted[cred[t]] = 0
      BY <1>6, NotYetAccepted DEF Remember
    <2>2. NonceTypeOK' /\ high' = high /\ stamp' = stamp
      BY <1>6, <2>1 DEF Remember, Leaves, Kept, NonceTypeOK, ClockTypeOK, clock, now_unix
    <2>3. \A c \in Credential : accepted'[c] <= 1
      BY <1>6, <2>1 DEF Remember, NonceTypeOK
    <2>4. ASSUME NEW c \in Credential, accepted'[c] > 0
          PROVE  c \in seen_nonces' \/ Forgotten(c)'
      <3>1. CASE c = cred[t]
        BY <3>1, <1>6 DEF Remember
      <3>2. CASE c # cred[t]
        BY <3>2, <1>6, <2>2, <2>4, Expiry DEF Remember, Forgotten, NonceTypeOK
      <3> QED BY <3>1, <3>2
    <2>5. ASSUME NEW u \in Handshake, Recording(u)' PROVE Fresh(u)'
      BY <1>6, <2>2, <2>5 DEF Remember, Leaves, Fresh, Recording, NonceTypeOK
    <2> QED BY <2>2, <2>3, <2>4, <2>5
  <1> QED BY <1>1, <1>2, <1>3, <1>4, <1>5, <1>6 DEF NonceNext, NonceStep

LEMMA NonceInvStutters == ASSUME NonceInv, UNCHANGED nonceVars PROVE NonceInv'
  BY DEF NonceInv, NonceTypeOK, ClockTypeOK, nonceVars, clock, handshakes, now_unix,
         Forgotten, Fresh, Recording

(* Type correctness of the handshakes and of the calibrated clock, with    *)
(* the history the argument needs: an accepted credential is in the cache  *)
(* or two windows old.                                                     *)
THEOREM NonceInvariant == NonceSpec => []NonceInv
  <1>1. NonceInv /\ [NonceNext]_nonceVars => NonceInv'
    BY NonceInvNext, NonceInvStutters
  <1> QED BY NonceInvInit, <1>1, PTL DEF NonceSpec

(* check_and_remember_nonce with the checks in front of it implements      *)
(* OneShot: a step of the handshakes either accepts nothing or accepts one *)
(* credential for the first time.                                          *)
THEOREM HandshakeIsOneShot == NonceSpec => AcceptedOnce
  <1>1. NonceInit => Once!Init
    BY DEF NonceInit, Once!Init
  <1>2. NonceInv /\ [NonceNext]_nonceVars => [Once!Next]_accepted
    <2> SUFFICES ASSUME NonceInv, [NonceNext]_nonceVars, accepted' # accepted
                 PROVE  Once!Next
      OBVIOUS
    <2>1. PICK t \in Handshake : Remember(t)
      BY DEF NonceNext, NonceStep, nonceVars, NonceClock, VerifyBearer, VerifyFrame,
             AuthFails, Replayed, CacheFull
    <2>2. cred[t] \in Credential /\ accepted[cred[t]] = 0
      BY <2>1, NotYetAccepted DEF Remember
    <2>3. Once!Use(cred[t])
      BY <2>1, <2>2 DEF Remember, Once!Use, NonceInv, NonceTypeOK
    <2> QED BY <2>2, <2>3 DEF Once!Next
  <1> QED BY <1>1, <1>2, NonceInvariant, PTL DEF NonceSpec, AcceptedOnce, Once!Spec

(* The cache stays within NONCE_CAP and holds only credentials that passed *)
(* every check, the version's among them.                                  *)
THEOREM CacheIsSound == NonceSpec => []CacheSound
  <1> USE NonceAssumption
  <1>1. NonceInit => CacheSound
    BY FS_EmptySet DEF NonceInit, CacheSound
  <1>2. NonceInv /\ CacheSound /\ [NonceNext]_nonceVars => CacheSound'
    <2> SUFFICES ASSUME NonceInv, CacheSound, [NonceNext]_nonceVars PROVE CacheSound'
      OBVIOUS
    <2>1. IsFiniteSet(Kept) /\ Kept \subseteq seen_nonces /\ Cardinality(Kept) \in Nat
      <3>1. Kept \subseteq Credential /\ Kept \subseteq seen_nonces
        BY DEF Kept, NonceInv, NonceTypeOK
      <3> QED BY <3>1, FS_Subset, FS_CardinalityType
    <2>2. ASSUME NEW t \in Handshake, CacheFull(t) PROVE CacheSound'
      <3>1. IsFiniteSet(seen_nonces)
        BY FS_Subset DEF NonceInv, NonceTypeOK
      <3>2. Cardinality(Kept) <= Cardinality(seen_nonces) /\ Cardinality(seen_nonces) \in Nat
        BY <2>1, <3>1, FS_Subset, FS_CardinalityType
      <3> QED BY <2>1, <2>2, <3>2 DEF CacheFull, CacheSound
    <2>3. ASSUME NEW t \in Handshake, Remember(t) PROVE CacheSound'
      <3>1. Fresh(t)
        BY <2>3 DEF Remember, NonceInv
      <3>2. Cardinality(Kept \cup {cred[t]}) <= Cardinality(Kept) + 1
        <4>1. cred[t] \notin Kept
          BY <2>1, <2>3 DEF Remember
        <4>2. Cardinality(Kept \cup {cred[t]}) = Cardinality(Kept) + 1
          BY <2>1, <4>1, FS_AddElement, ZenonT(60)
        <4> QED BY <2>1, <4>2
      <3>3. Cardinality(seen_nonces') <= NonceCap
        <4>1. Cardinality(Kept \cup {cred[t]}) \in Nat
          BY <2>1, FS_AddElement, FS_CardinalityType
        <4> QED BY <2>1, <2>3, <3>2, <4>1 DEF Remember
      <3> QED BY <2>1, <2>3, <3>1, <3>3 DEF Remember, CacheSound, Fresh, NonceInv, NonceTypeOK
    <2>4. CASE UNCHANGED <<seen_nonces, accepted>>
      BY <2>4 DEF CacheSound
    <2> QED BY <2>2, <2>3, <2>4 DEF NonceNext, NonceStep, nonceVars, NonceClock,
               VerifyBearer, VerifyFrame, AuthFails, Replayed
  <1> QED BY <1>1, <1>2, NonceInvariant, PTL DEF NonceSpec

-----------------------------------------------------------------------------
(* The tasks that have seen room for their entry. *)
Admitted == {d \in Datagram : dgram[d] = "insert"}

Occupied == Cardinality(Entries) + Cardinality(Admitted)
Allowed == DnsCap - 1 + Cardinality(Datagram)

DnsInv ==
    /\ DnsTypeOK
    /\ \A h \in Entries : udp_dns[h][1] = udp_dns[h][2]
    /\ \A d \in Datagram : dgram[d] # "idle" => dst[d] \in Host
    /\ age <= Ttl
    /\ Occupied <= Allowed

-----------------------------------------------------------------------------
LEMMA Counts ==
    /\ IsFiniteSet(Entries) /\ IsFiniteSet(Admitted)
    /\ Cardinality(Entries) \in Nat /\ Cardinality(Admitted) \in Nat
    /\ Cardinality(Datagram) \in Nat /\ Cardinality(Admitted) <= Cardinality(Datagram)
  <1>1. Entries \subseteq Host /\ Admitted \subseteq Datagram
    BY DEF Entries, Admitted
  <1> QED BY <1>1, DnsAssumption, FS_Subset, FS_CardinalityType

LEMMA NewCounts ==
    /\ IsFiniteSet(Entries') /\ IsFiniteSet(Admitted')
    /\ Cardinality(Entries') \in Nat /\ Cardinality(Admitted') \in Nat
    /\ Cardinality(Admitted') <= Cardinality(Datagram)
  <1>1. Entries' \subseteq Host /\ Admitted' \subseteq Datagram
    BY DEF Entries, Admitted
  <1> QED BY <1>1, DnsAssumption, FS_Subset, FS_CardinalityType

LEMMA DnsInvInit == ASSUME ClockInit, DnsInit PROVE DnsInv
  <1>1. DnsTypeOK
    BY DEF ClockInit, DnsInit, DnsTypeOK
  <1>2. Entries = {} /\ Admitted = {}
    BY DEF DnsInit, Entries, Admitted
  <1>3. Occupied <= Allowed
    BY <1>2, Counts, FS_EmptySet, DnsAssumption DEF Occupied, Allowed
  <1> QED BY <1>1, <1>2, <1>3, DnsAssumption DEF DnsInit, DnsInv

(* A step that adds no entry and admits no task leaves room as it was. *)
LEMMA NoneAdded ==
    ASSUME Occupied <= Allowed, Entries' \subseteq Entries, Admitted' \subseteq Admitted
    PROVE  Occupied' <= Allowed'
  <1>1. /\ Cardinality(Entries') <= Cardinality(Entries)
        /\ Cardinality(Admitted') <= Cardinality(Admitted)
    BY Counts, FS_Subset
  <1> QED BY <1>1, Counts, NewCounts, DnsAssumption DEF Occupied, Allowed

(* A task that sees room is admitted: the others that are admitted cannot  *)
(* be more than all tasks.                                                 *)
LEMMA OneAdmitted ==
    ASSUME Entries' = Entries, Cardinality(Entries) < DnsCap
    PROVE  Occupied' <= Allowed'
  BY Counts, NewCounts, DnsAssumption DEF Occupied, Allowed

(* An admitted task that inserts gives up its place among the admitted. *)
LEMMA OneInserted ==
    ASSUME Occupied <= Allowed, NEW d \in Datagram, NEW h \in Host,
           d \in Admitted, Admitted' = Admitted \ {d}, Entries' = Entries \cup {h}
    PROVE  Occupied' <= Allowed'
  <1>1. Cardinality(Admitted') = Cardinality(Admitted) - 1
    <2>1. Cardinality(Admitted \ {d}) =
            IF d \in Admitted THEN Cardinality(Admitted) - 1 ELSE Cardinality(Admitted)
      BY Counts, FS_RemoveElement, ZenonT(60)
    <2> QED BY <2>1
  <1>2. Cardinality(Entries') <= Cardinality(Entries) + 1
    <2>1. Cardinality(Entries \cup {h}) =
            IF h \in Entries THEN Cardinality(Entries) ELSE Cardinality(Entries) + 1
      BY Counts, FS_AddElement, ZenonT(60)
    <2> QED BY <2>1, Counts
  <1> QED BY <1>1, <1>2, Counts, NewCounts, DnsAssumption DEF Occupied, Allowed

-----------------------------------------------------------------------------
(* A datagram's task goes on, or ends. *)
LEMMA GoesOn ==
    ASSUME DnsInv, NEW d \in Datagram, dgram[d] # "idle",
           NEW where \in {"store", "purge", "recheck", "insert"}, Goes(d, where)
    PROVE  /\ dgram' \in [Datagram -> {"idle", "resolve", "store", "purge", "recheck", "insert"}]
           /\ dst' \in [Datagram -> Host \cup {NoEntry}] /\ since' \in [Datagram -> Nat]
           /\ \A e \in Datagram : dgram'[e] # "idle" => dst'[e] \in Host
           /\ where # "insert" => Admitted' \subseteq Admitted
  BY DEF DnsInv, DnsTypeOK, Goes, Admitted

LEMMA Finishes ==
    ASSUME DnsInv, NEW d \in Datagram, Done(d)
    PROVE  /\ dgram' \in [Datagram -> {"idle", "resolve", "store", "purge", "recheck", "insert"}]
           /\ dst' \in [Datagram -> Host \cup {NoEntry}] /\ since' \in [Datagram -> Nat]
           /\ \A e \in Datagram : dgram'[e] # "idle" => dst'[e] \in Host
           /\ Admitted' = Admitted \ {d}
  BY DEF DnsInv, DnsTypeOK, Done, Admitted

LEMMA DnsInvNext == ASSUME DnsInv, DnsNext PROVE DnsInv'
  <1> USE DnsAssumption
  <1>1. CASE ClockNext /\ UNCHANGED dnsVars
    <2>1. DnsTypeOK' /\ Entries' = Entries /\ Admitted' = Admitted
      BY <1>1 DEF ClockNext, Tick, Sync, dnsVars, DnsInv, DnsTypeOK, Entries, Admitted
    <2>2. Occupied' <= Allowed'
      BY <2>1, NoneAdded DEF DnsInv
    <2> QED BY <1>1, <2>1, <2>2 DEF dnsVars, DnsInv
  <1>2. ASSUME NEW d \in Datagram, NEW h \in Host, Hit(d, h) PROVE DnsInv'
    <2>1. /\ UNCHANGED <<udp_dns, dgram, dst, since, now>> /\ age' = now - udp_dns[h][1]
          /\ h \in Entries /\ Saturating(now - udp_dns[h][2]) <= Ttl
      BY <1>2 DEF Hit, clock, Alive
    <2>2. udp_dns[h] \in Nat \X Nat /\ udp_dns[h][1] = udp_dns[h][2]
      BY <2>1 DEF DnsInv, DnsTypeOK, Entries
    <2>3. age' \in Int /\ age' <= Ttl
      BY <2>1, <2>2 DEF Saturating, DnsInv, DnsTypeOK
    <2>4. DnsTypeOK' /\ Entries' = Entries /\ Admitted' = Admitted
      BY <2>1, <2>3 DEF DnsInv, DnsTypeOK, Entries, Admitted
    <2>5. Occupied' <= Allowed'
      BY <2>4, NoneAdded DEF DnsInv
    <2> QED BY <2>1, <2>3, <2>4, <2>5 DEF DnsInv
  <1>3. ASSUME NEW d \in Datagram, NEW h \in Host, Miss(d, h) PROVE DnsInv'
    <2>1. UNCHANGED <<udp_dns, age, now>> /\ Entries' = Entries
      BY <1>3 DEF Miss, clock, Entries
    <2>2. DnsTypeOK' /\ Admitted' \subseteq Admitted
      BY <1>3, <2>1 DEF Miss, DnsInv, DnsTypeOK, Admitted
    <2>3. Occupied' <= Allowed'
      BY <2>1, <2>2, NoneAdded DEF DnsInv
    <2>4. \A e \in Datagram : dgram'[e] # "idle" => dst'[e] \in Host
      BY <1>3 DEF Miss, DnsInv, DnsTypeOK
    <2> QED BY <2>1, <2>2, <2>3, <2>4 DEF DnsInv
  <1>4. ASSUME NEW d \in Datagram, UNCHANGED <<udp_dns, age, now>>,
               Done(d) \/ (dgram[d] # "idle" /\ \E w \in {"store", "purge"} : Goes(d, w))
        PROVE  DnsInv'
    <2>1. /\ dgram' \in [Datagram -> {"idle", "resolve", "store", "purge", "recheck", "insert"}]
          /\ dst' \in [Datagram -> Host \cup {NoEntry}] /\ since' \in [Datagram -> Nat]
          /\ \A e \in Datagram : dgram'[e] # "idle" => dst'[e] \in Host
          /\ Admitted' \subseteq Admitted
      BY <1>4, GoesOn, Finishes
    <2>2. DnsTypeOK' /\ Entries' = Entries
      BY <1>4, <2>1 DEF DnsInv, DnsTypeOK, Entries
    <2>3. Occupied' <= Allowed'
      BY <2>1, <2>2, NoneAdded DEF DnsInv
    <2> QED BY <1>4, <2>1, <2>2, <2>3 DEF DnsInv
  <1>5. ASSUME NEW d \in Datagram, dgram[d] # "idle", UNCHANGED <<udp_dns, age, now>>,
               Cardinality(Entries) < DnsCap, Goes(d, "insert")
        PROVE  DnsInv'
    <2>1. DnsTypeOK' /\ Entries' = Entries
      BY <1>5, GoesOn DEF DnsInv, DnsTypeOK, Entries
    <2>2. Occupied' <= Allowed'
      BY <1>5, <2>1, OneAdmitted
    <2> QED BY <1>5, <2>1, <2>2, GoesOn DEF DnsInv
  <1>6. ASSUME NEW d \in Datagram, Purge(d) PROVE DnsInv'
    <2>1. /\ dgram[d] # "idle" /\ Goes(d, "recheck") /\ UNCHANGED <<age, now>>
          /\ udp_dns' \in [Host -> (Nat \X Nat) \cup {NoEntry}]
          /\ \A h \in Host : udp_dns'[h] \in {udp_dns[h], NoEntry}
      BY <1>6 DEF Purge, clock, DnsInv, DnsTypeOK
    <2>2. DnsTypeOK' /\ Admitted' \subseteq Admitted
      BY <2>1, GoesOn DEF DnsInv, DnsTypeOK
    <2>3. Entries' \subseteq Entries /\ \A h \in Entries' : udp_dns'[h] = udp_dns[h]
      BY <2>1 DEF Entries
    <2>4. Occupied' <= Allowed'
      BY <2>2, <2>3, NoneAdded DEF DnsInv
    <2> QED BY <2>1, <2>2, <2>3, <2>4, GoesOn DEF DnsInv
  <1>7. ASSUME NEW d \in Datagram, Insert(d) PROVE DnsInv'
    <2>1. /\ dgram[d] = "insert" /\ d \in Admitted /\ Done(d) /\ UNCHANGED <<age, now>>
          /\ dst[d] \in Host /\ since[d] \in Nat
          /\ udp_dns' = [udp_dns EXCEPT ![dst[d]] = <<since[d], since[d]>>]
      BY <1>7 DEF Insert, clock, Admitted, DnsInv, DnsTypeOK
    <2>2. <<since[d], since[d]>> \in Nat \X Nat /\ <<since[d], since[d]>> # NoEntry
      BY <2>1
    <2>3. udp_dns' \in [Host -> (Nat \X Nat) \cup {NoEntry}]
      BY <2>1, <2>2 DEF DnsInv, DnsTypeOK
    <2>4. Entries' = Entries \cup {dst[d]}
      BY <2>1, <2>2 DEF Entries, DnsInv, DnsTypeOK
    <2>5. \A h \in Entries' : udp_dns'[h][1] = udp_dns'[h][2]
      BY <2>1, <2>4 DEF DnsInv, DnsTypeOK
    <2>6. DnsTypeOK' /\ Admitted' = Admitted \ {d}
      BY <2>1, <2>3, Finishes DEF DnsInv, DnsTypeOK
    <2>7. Occupied' <= Allowed'
      BY <2>1, <2>4, <2>6, OneInserted DEF DnsInv
    <2> QED BY <2>1, <2>5, <2>6, <2>7, Finishes DEF DnsInv
  <1>8. ASSUME NEW d \in Datagram, DnsStep(d) PROVE DnsInv'
    <2>1. CASE ResolveFails(d)
      BY <1>4, <2>1 DEF ResolveFails, clock
    <2>2. CASE Resolved(d)
      BY <1>4, <2>2 DEF Resolved, clock
    <2>3. CASE CheckRoom(d)
      BY <1>4, <1>5, <2>3, Counts DEF CheckRoom, clock
    <2>4. CASE Recheck(d)
      BY <1>4, <1>5, <2>4, Counts DEF Recheck, clock
    <2> QED BY <1>2, <1>3, <1>6, <1>7, <1>8, <2>1, <2>2, <2>3, <2>4 DEF DnsStep
  <1> QED BY <1>1, <1>8 DEF DnsNext

(* The invariant behind it: an entry is stamped with the time its name was *)
(* asked for, and entries and admitted tasks share the room there is.      *)
THEOREM DnsInvariant == DnsSpec => []DnsInv
  <1>1. ASSUME DnsInv, UNCHANGED <<clock, dnsVars>> PROVE DnsInv'
    <2>1. DnsTypeOK' /\ Entries' = Entries /\ Admitted' = Admitted
      BY <1>1 DEF clock, dnsVars, DnsInv, DnsTypeOK, Entries, Admitted
    <2>2. Occupied' <= Allowed'
      BY <1>1, <2>1, NoneAdded DEF DnsInv
    <2> QED BY <1>1, <2>1, <2>2 DEF dnsVars, DnsInv
  <1>2. DnsInv /\ [DnsNext]_<<clock, dnsVars>> => DnsInv'
    BY <1>1, DnsInvNext
  <1> QED BY DnsInvInit, <1>2, PTL DEF DnsSpec

(* udp_dns_cached returns no address older than the TTL, and concurrent    *)
(* calls of udp_dns_store exceed UDP_DNS_CACHE_CAP by less than their      *)
(* number.                                                                 *)
THEOREM DnsCacheIsSound == DnsSpec => []DnsSound
  <1>1. DnsInv => DnsSound
    BY Counts, DnsAssumption DEF DnsInv, DnsSound, Occupied, Allowed
  <1> QED BY DnsInvariant, <1>1, PTL

-----------------------------------------------------------------------------
(* The token bucket. What was taken since an instant, together with what   *)
(* the bucket would hold after a refill now, is covered by the capacity    *)
(* and the inflow; nothing counts yet for instants to come.                *)
RateInv ==
    /\ RateTypeOK
    /\ \A a \in 0 .. now : taken[a] + Refilled <= cap + (now - a) * Rate
    /\ \A a \in 0 .. MaxTime : a > now => taken[a] = 0

LEMMA CapIsNat == cap \in Nat /\ Rate \in Nat /\ MaxTime \in Nat
BY RateAssumption, ClockAssumption DEF cap

(* Inflow is proportional to time, and starts at nothing. *)
LEMMA Inflow ==
    ASSUME NEW m \in Nat
    PROVE  m * Rate \in Nat /\ (m + 1) * Rate = m * Rate + Rate /\ 0 * Rate = 0
BY RateAssumption

LEMMA RefilledIsNat == ASSUME RateTypeOK PROVE Refilled \in 0 .. cap
<1>1. now - last \in Nat /\ tokens \in 0 .. cap
    BY CapIsNat DEF RateTypeOK
<1> QED BY <1>1, Inflow, CapIsNat DEF Refilled, Lower

LEMMA NoInflow ==
    ASSUME NEW x \in 0 .. cap, NEW z \in Nat, z = 0
    PROVE  Lower(x + z, cap) = x
<1>1. x + z \in Int /\ x + z <= x /\ x + z >= x
    BY CapIsNat
<1>2. x + z = x
    BY <1>1, CapIsNat
<1>3. x < cap \/ x = cap
    BY CapIsNat
<1> QED BY <1>2, <1>3 DEF Lower

(* A bucket refilled now has what it holds. *)
LEMMA JustRefilled ==
    ASSUME tokens' \in 0 .. cap, last' = now, now' = now, now \in Nat
    PROVE  Refilled' = tokens'
<1>1. (now' - last') * Rate = 0
    BY CapIsNat
<1>2. Refilled' = Lower(tokens' + (now' - last') * Rate, cap)
    BY DEF Refilled, Lower, cap
<1> QED BY <1>1, <1>2, NoInflow

LEMMA RateInitially == ClockInit /\ RateInit => RateInv
<1> SUFFICES ASSUME ClockInit, RateInit PROVE RateInv
    OBVIOUS
<1>0. now = 0 /\ tokens = cap /\ last = 0 /\ taken = [i \in 0 .. MaxTime |-> 0]
    BY DEF ClockInit, RateInit
<1>1. RateTypeOK
    BY <1>0, CapIsNat DEF RateInit, RateTypeOK
<1>2. Refilled \in 0 .. cap
    BY <1>1, RefilledIsNat
<1>3. \A a \in 0 .. now : taken[a] = 0 /\ (now - a) * Rate = 0
    BY <1>0, Inflow, CapIsNat
<1> QED BY <1>0, <1>1, <1>2, <1>3, CapIsNat DEF RateInv

LEMMA RateInductive ==
    ASSUME RateInv, [RateNext]_<<clock, rateVars>>
    PROVE  RateInv'
<1>t. /\ RateTypeOK /\ Refilled \in 0 .. cap /\ cap' = cap /\ now \in 0 .. MaxTime
      /\ tokens \in 0 .. cap /\ last \in 0 .. now /\ taken \in [0 .. MaxTime -> Nat]
    BY RefilledIsNat DEF RateInv, RateTypeOK, cap
<1>1. ASSUME NEW c \in Caller, NEW n \in Charge, Call(c, n) PROVE RateInv'
  <2>1. UNCHANGED <<now, tokens, last, taken>>
      BY <1>1 DEF Call, clock
  <2>2. RateTypeOK'
      BY <1>1, <1>t, <2>1, RateAssumption DEF RateTypeOK, Call, cap
  <2>3. Refilled' = Refilled
      BY <2>1 DEF Refilled, Lower, cap
  <2> QED BY <1>t, <2>1, <2>2, <2>3 DEF RateInv
<1>2. ASSUME NEW c \in Caller, Granted(c) PROVE RateInv'
  <2>1. need[c] \in Nat /\ Charged(c) \in 0 .. cap
      BY <1>t, CapIsNat DEF RateTypeOK, Charged, Lower
  <2>2. /\ Refilled >= Charged(c) /\ tokens' = Refilled - Charged(c)
        /\ last' = now /\ now' = now
        /\ taken' = [i \in 0 .. MaxTime |-> IF i <= now THEN taken[i] + Charged(c) ELSE 0]
      BY <1>2 DEF Granted, clock
  <2>3. tokens' \in 0 .. cap /\ Refilled' = Refilled - Charged(c)
      BY <1>t, <2>1, <2>2, JustRefilled, CapIsNat
  <2>4. taken' \in [0 .. MaxTime -> Nat]
      BY <1>t, <2>1, <2>2
  <2>5. RateTypeOK'
      BY <1>2, <1>t, <2>2, <2>3, <2>4 DEF RateTypeOK, Granted
  <2>6. ASSUME NEW a \in 0 .. now'
        PROVE  taken'[a] + Refilled' <= cap' + (now' - a) * Rate
    <3>1. taken'[a] = taken[a] + Charged(c) /\ taken[a] \in Nat
        BY <1>t, <2>2, CapIsNat
    <3>2. taken[a] + Refilled <= cap + (now - a) * Rate
        BY <2>2 DEF RateInv
    <3>3. (now - a) * Rate \in Nat
        BY <1>t, <2>2, Inflow, CapIsNat
    <3> QED BY <1>t, <2>1, <2>2, <2>3, <3>1, <3>2, <3>3, CapIsNat
  <2>7. \A a \in 0 .. MaxTime : a > now => taken'[a] = 0
      BY <1>t, <2>2, CapIsNat
  <2>8. \A a \in 0 .. MaxTime : a > now' => taken'[a] = 0
      BY <2>2, <2>7
  <2> QED BY <2>5, <2>6, <2>8 DEF RateInv
<1>3. ASSUME NEW c \in Caller, Waits(c) PROVE RateInv'
  <2>1. need[c] \in Nat /\ Charged(c) \in 0 .. cap
      BY <1>t, CapIsNat DEF RateTypeOK, Charged, Lower
  <2>2. /\ Refilled < Charged(c) /\ tokens' = Refilled /\ last' = now /\ now' = now
        /\ taken' = taken
      BY <1>3 DEF Waits, clock
  <2>3. tokens' \in 0 .. cap /\ Refilled' = Refilled
      BY <1>t, <2>2, JustRefilled, CapIsNat
  <2>4. now + (Charged(c) - Refilled + Rate - 1) \div Rate \in Nat
    <3>1. Charged(c) - Refilled + Rate - 1 \in Nat
        BY <1>t, <2>1, <2>2, RateAssumption, CapIsNat
    <3>2. \A m \in Nat : m \div Rate \in Nat
        BY RateAssumption
    <3> QED BY <1>t, <3>1, <3>2
  <2>5. RateTypeOK'
      BY <1>3, <1>t, <2>2, <2>3, <2>4 DEF RateTypeOK, Waits
  <2> QED BY <1>t, <2>2, <2>3, <2>5 DEF RateInv
<1>4. CASE RateTick
  <2>1. now < MaxTime /\ now' = now + 1 /\ UNCHANGED <<tokens, last, call, need, due, taken>>
      BY <1>4 DEF RateTick, Tick, rateVars
  <2>2. RateTypeOK'
      BY <1>t, <2>1, CapIsNat DEF RateTypeOK
  <2>3. Refilled' <= Refilled + Rate /\ Refilled' \in 0 .. cap
    <3>1. now - last \in Nat /\ now' - last' = (now - last) + 1
        BY <1>t, <2>1, CapIsNat
    <3>2. (now' - last') * Rate = (now - last) * Rate + Rate /\ (now - last) * Rate \in Nat
        BY <3>1, Inflow
    <3> QED BY <1>t, <2>1, <3>2, CapIsNat DEF Refilled, Lower
  <2>4. ASSUME NEW a \in 0 .. now'
        PROVE  taken'[a] + Refilled' <= cap + (now' - a) * Rate
    <3>1. CASE a = now'
      <4>1. taken[now + 1] = 0
          BY <1>t, <2>1, CapIsNat DEF RateInv
      <4>2. now' - a = 0 /\ 0 * Rate = 0
          BY <1>t, <2>1, <3>1, Inflow, CapIsNat
      <4> QED BY <2>1, <2>3, <3>1, <4>1, <4>2, CapIsNat
    <3>2. CASE a \in 0 .. now
      <4>1. taken[a] + Refilled <= cap + (now - a) * Rate /\ taken[a] \in Nat
          BY <1>t, <3>2, CapIsNat DEF RateInv
      <4>2. now - a \in Nat /\ now' - a = (now - a) + 1
          BY <1>t, <2>1, <3>2, CapIsNat
      <4>3. (now' - a) * Rate = (now - a) * Rate + Rate /\ (now - a) * Rate \in Nat
          BY <4>2, Inflow
      <4> QED BY <1>t, <2>1, <2>3, <4>1, <4>3, CapIsNat
    <3> QED BY <1>t, <2>1, <3>1, <3>2
  <2> QED BY <1>t, <2>1, <2>2, <2>4 DEF RateInv
<1>5. CASE UNCHANGED <<now, rateVars>>
  <2>1. UNCHANGED <<now, tokens, last, call, need, due, taken>>
      BY <1>5 DEF rateVars
  <2>2. Refilled' = Refilled /\ RateTypeOK'
      BY <1>t, <2>1 DEF Refilled, Lower, cap, RateTypeOK
  <2> QED BY <1>t, <2>1, <2>2 DEF RateInv
<1>6. ASSUME NEW o \in -MaxOffset .. MaxOffset, Sync(o), UNCHANGED rateVars
      PROVE  UNCHANGED <<now, rateVars>>
    BY <1>6 DEF Sync
<1> QED BY <1>1, <1>2, <1>3, <1>4, <1>5, <1>6 DEF RateNext, RateStep, clock

(* The invariant of RateLimiter's bucket: tokens between zero and the      *)
(* capacity, and every grant so far covered by capacity and inflow.        *)
THEOREM RateInvariant == RateSpec => []RateInv
BY RateInitially, RateInductive, PTL DEF RateSpec

(* RateLimiter::acquire hands out, over every interval, no more than the   *)
(* bucket's capacity and the inflow meanwhile: for every rate, capacity    *)
(* and number of callers that wait, wake together or come after a pause.   *)
THEOREM RateIsKept == RateSpec => []RateConforms
<1>1. RateInv => RateConforms
  <2> SUFFICES ASSUME RateInv, NEW a \in 0 .. now
               PROVE  taken[a] <= cap + (now - a) * Rate
      BY DEF RateConforms
  <2>1. Refilled \in 0 .. cap /\ now \in 0 .. MaxTime /\ taken[a] \in Nat
      BY RefilledIsNat, CapIsNat DEF RateInv, RateTypeOK
  <2>2. (now - a) * Rate \in Nat
      BY <2>1, Inflow, CapIsNat
  <2> QED BY <2>1, <2>2, CapIsNat DEF RateInv
<1> QED BY <1>1, RateInvariant, PTL

-----------------------------------------------------------------------------
(* How long acquire may take. A sleeper asks for the time its charge needs *)
(* to flow in, so it is served when it wakes unless somebody else was      *)
(* served meanwhile, and that can happen once per competitor.              *)

(* The longest sleep, and the time from one attempt to the next. *)
Sleep == cap \div Rate + 1
Round == cap \div Rate + 1 + MaxLate

Served == {c \in Caller : call[c] = "done"}
WakesAt(c) == IF due[c] > now THEN due[c] ELSE now
Funded(c) == tokens + (WakesAt(c) - last) * Rate >= Charged(c)

WaitInv ==
    \A c \in Caller :
        /\ call[c] \in {"called", "asleep"} => now <= due[c] + MaxLate
        /\ call[c] = "asleep" => due[c] <= now + Sleep /\ (Funded(c) \/ Served # {})

LEMMA Shares ==
    ASSUME NEW m \in Nat
    PROVE  /\ m \div Rate \in Nat /\ (m \div Rate) * Rate <= m
           /\ m < (m \div Rate) * Rate + Rate
BY RateAssumption

LEMMA Product ==
    ASSUME NEW i \in Nat, NEW j \in Nat
    PROVE  (i + j) * Rate = i * Rate + j * Rate /\ i * Rate \in Nat /\ i <= i * Rate
BY RateAssumption

LEMMA SleepIsNat == Sleep \in Nat \ {0} /\ Round \in Nat \ {0} /\ Round = Sleep + MaxLate
<1>1. cap \div Rate \in Nat
    BY CapIsNat, Shares
<1> QED BY <1>1, RateAssumption DEF Sleep, Round

(* Rounded up, a sleep is long enough for what is missing and no longer    *)
(* than Sleep.                                                             *)
LEMMA SleepCovers ==
    ASSUME NEW m \in Nat, m <= cap, NEW q, q = (m + Rate - 1) \div Rate
    PROVE  q \in Nat /\ m <= q * Rate /\ q <= Sleep
<1>0. Rate \in Nat \ {0} /\ m + Rate - 1 \in Nat
    BY RateAssumption
<1>1. q \in Nat /\ q * Rate <= m + Rate - 1 /\ m + Rate - 1 < q * Rate + Rate
    BY <1>0, Shares
<1>2. q * Rate \in Nat
    BY <1>0, <1>1
<1>3. m <= q * Rate
    BY <1>0, <1>1, <1>2
<1>4. cap \div Rate \in Nat /\ cap < (cap \div Rate) * Rate + Rate
    BY Shares, CapIsNat
<1>5. q <= Sleep
  <2> SUFFICES ASSUME q > cap \div Rate + 1 PROVE FALSE
      BY <1>1, <1>4 DEF Sleep
  <2>1. PICK j \in Nat : q = (cap \div Rate + 2) + j
    <3>1. q - (cap \div Rate + 2) \in Nat
        BY <1>1, <1>4
    <3> QED BY <1>1, <1>4, <3>1
  <2>2. q * Rate = (cap \div Rate) * Rate + 2 * Rate + j * Rate
    <3>1. q * Rate = (cap \div Rate + 2) * Rate + j * Rate
        BY <1>4, <2>1, Product
    <3>2. (cap \div Rate + 2) * Rate = (cap \div Rate) * Rate + 2 * Rate
        BY <1>4, Product
    <3> QED BY <3>1, <3>2
  <2>3. j * Rate \in Nat /\ (cap \div Rate) * Rate \in Nat
      BY <1>4, Inflow
  <2> DEFINE x == (cap \div Rate) * Rate
             y == j * Rate
             z == q * Rate
  <2>4. /\ x \in Nat /\ y \in Nat /\ z \in Nat /\ z = x + 2 * Rate + y
        /\ cap < x + Rate /\ z <= m + Rate - 1
      BY <1>1, <1>2, <1>4, <2>2, <2>3
  <2> HIDE DEF x, y, z
  <2> QED BY <1>0, <2>4, CapIsNat
<1> QED BY <1>1, <1>3, <1>5

(* A caller that wakes finds its charge in the bucket if it is funded, and *)
(* it stays funded while nobody is served.                                 *)
LEMMA FundedKept ==
    ASSUME RateInv, RateInv', NEW c \in Caller, need'[c] = need[c], due'[c] = due[c], Funded(c),
           \/ UNCHANGED <<tokens, last>> /\ now' \in {now, now + 1}
           \/ tokens' = Refilled /\ last' = now /\ now' = now
    PROVE  Funded(c)'
<1>t. /\ now \in Nat /\ now' \in Nat /\ last \in 0 .. now /\ tokens \in 0 .. cap
      /\ tokens' \in 0 .. cap /\ cap' = cap /\ due[c] \in Nat /\ need[c] \in Nat
  <2>1. cap' = cap
      BY DEF cap
  <2>2. now \in Nat /\ last \in 0 .. now /\ tokens \in 0 .. cap /\ due[c] \in Nat /\ need[c] \in Nat
      BY CapIsNat DEF RateInv, RateTypeOK
  <2>3. RateTypeOK'
      BY DEF RateInv
  <2>4. now' \in 0 .. MaxTime /\ tokens' \in 0 .. cap
      BY <2>1, <2>3 DEF RateTypeOK
  <2> QED BY <2>1, <2>2, <2>4, CapIsNat
<1>c. Charged(c) \in 0 .. cap /\ Charged(c)' = Charged(c)
  <2>1. Charged(c) \in 0 .. cap
      BY <1>t, CapIsNat DEF Charged, Lower
  <2>2. Charged(c)' = Charged(c)
      BY <1>t DEF Charged, Lower
  <2> QED BY <2>1, <2>2
<1>w. WakesAt(c) \in Nat /\ WakesAt(c) >= now /\ WakesAt(c)' \in Nat
    BY <1>t DEF WakesAt
<1>1. CASE UNCHANGED <<tokens, last>> /\ now' \in {now, now + 1}
  <2>1. PICK j \in Nat : WakesAt(c)' = WakesAt(c) + j
    <3>1. WakesAt(c)' - WakesAt(c) \in Nat
        BY <1>1, <1>t DEF WakesAt
    <3> QED BY <1>w, <3>1
  <2>2. WakesAt(c) - last \in Nat /\ WakesAt(c)' - last' = (WakesAt(c) - last) + j
      BY <1>1, <1>t, <1>w, <2>1
  <2>3. /\ (WakesAt(c)' - last') * Rate = (WakesAt(c) - last) * Rate + j * Rate
        /\ (WakesAt(c) - last) * Rate \in Nat /\ j * Rate \in Nat
      BY <2>2, Product, Inflow
  <2> QED BY <1>1, <1>t, <1>c, <2>3, CapIsNat DEF Funded
<1>2. CASE tokens' = Refilled /\ last' = now /\ now' = now
  <2> DEFINE u == WakesAt(c) - now
             i == now - last
  <2>1. u \in Nat /\ i \in Nat /\ WakesAt(c) - last = i + u /\ WakesAt(c)' - last' = u
      BY <1>2, <1>t, <1>w DEF WakesAt
  <2> HIDE DEF u
  <2>2. (i + u) * Rate = i * Rate + u * Rate /\ i * Rate \in Nat /\ u * Rate \in Nat
      BY <2>1, Product, Inflow
  <2>3. tokens + (i + u) * Rate >= Charged(c)
      BY <2>1 DEF Funded
  <2>4. tokens' = Lower(tokens + i * Rate, cap)
      BY <1>2 DEF Refilled
  <2> HIDE DEF i
  <2>5. tokens' + u * Rate >= Charged(c)
    <3>1. CASE tokens + i * Rate < cap
        BY <1>t, <1>c, <2>2, <2>3, <2>4, <3>1, CapIsNat DEF Lower
    <3>2. CASE ~(tokens + i * Rate < cap)
        BY <1>t, <1>c, <2>2, <2>4, <3>2, CapIsNat DEF Lower
    <3> QED BY <3>1, <3>2
  <2> QED BY <1>c, <2>1, <2>5 DEF Funded
<1> QED BY <1>1, <1>2

(* One that goes to sleep was not funded, and now is. *)
LEMMA SleeperFunded ==
    ASSUME RateInv, RateInv', NEW c \in Caller, Waits(c)
    PROVE  ~Funded(c) /\ Funded(c)' /\ due'[c] <= now + Sleep
<1>t. /\ now \in Nat /\ last \in 0 .. now /\ tokens \in 0 .. cap
      /\ cap' = cap /\ due[c] \in Nat /\ need[c] \in Nat /\ DOMAIN due = Caller
    BY CapIsNat DEF RateInv, RateTypeOK, cap
<1>s. /\ now >= due[c] /\ Refilled < Charged(c) /\ tokens' = Refilled /\ last' = now /\ now' = now
      /\ due' = [due EXCEPT ![c] = now + (Charged(c) - Refilled + Rate - 1) \div Rate] /\ need' = need
    BY DEF Waits, Awake, clock
<1>c. Charged(c) \in 0 .. cap /\ Charged(c)' = Charged(c)
    BY <1>t, <1>s, CapIsNat DEF Charged, Lower, cap
<1>r. Refilled \in 0 .. cap
    BY RefilledIsNat DEF RateInv
<1>1. ~Funded(c)
  <2>1. WakesAt(c) = now
      BY <1>t, <1>s DEF WakesAt
  <2>2. (now - last) * Rate \in Nat
      BY <1>t, Inflow
  <2> HIDE DEF cap
  <2> QED BY <1>t, <1>s, <1>c, <2>1, <2>2, CapIsNat DEF Funded, Refilled, Lower
<1> DEFINE m == Charged(c) - Refilled
           q == (m + Rate - 1) \div Rate
<1>2. m \in Nat /\ m <= cap
    BY <1>s, <1>c, <1>r, CapIsNat
<1>3. due'[c] = now + q
    BY <1>t, <1>s
<1>4. m = Charged(c) - Refilled
    OBVIOUS
<1> HIDE DEF m
<1>5. q \in Nat /\ m <= q * Rate /\ q <= Sleep
    BY <1>2, SleepCovers
<1> HIDE DEF q
<1>6. WakesAt(c)' - last' = q
    BY <1>t, <1>s, <1>3, <1>5 DEF WakesAt
<1>7. q * Rate \in Nat
    BY <1>5, Inflow
<1>8. tokens' + q * Rate >= Charged(c)
  <2>1. tokens' = Refilled
      BY <1>s
  <2> HIDE DEF cap
  <2> QED BY <1>c, <1>r, <1>4, <1>5, <1>7, <2>1, CapIsNat
<1> QED BY <1>t, <1>1, <1>c, <1>3, <1>5, <1>6, <1>8, SleepIsNat DEF Funded

(* What a step means to a caller that is asleep afterwards: it has just    *)
(* gone to sleep, or nobody was served, or somebody else was.              *)
LEMMA SleeperSteps ==
    ASSUME RateInv, RateInv', [RateNext]_<<clock, rateVars>>, NEW c \in Caller, call'[c] = "asleep"
    PROVE  \/ /\ call[c] \in {"called", "asleep"} /\ ~Funded(c) /\ Funded(c)'
              /\ due'[c] <= now + Sleep /\ now' = now /\ Served' = Served
           \/ /\ call[c] = "asleep" /\ due'[c] = due[c] /\ now' >= now /\ Served' = Served
              /\ Funded(c) => Funded(c)'
           \/ /\ call[c] = "asleep" /\ due'[c] = due[c] /\ now' = now
              /\ \E d \in Caller \ Served : Served' = Served \cup {d}
<1>t. /\ now \in Nat /\ DOMAIN call = Caller /\ DOMAIN need = Caller /\ DOMAIN due = Caller
      /\ call = [d \in Caller |-> call[d]]
    BY CapIsNat DEF RateInv, RateTypeOK
<1>1. ASSUME NEW d \in Caller, NEW n \in Charge, Call(d, n)
      PROVE  /\ call[c] = "asleep" /\ due'[c] = due[c] /\ now' >= now /\ Served' = Served
             /\ Funded(c) => Funded(c)'
  <2>1. /\ UNCHANGED <<now, tokens, last>> /\ call[d] = "new" /\ call' = [call EXCEPT ![d] = "called"]
        /\ need' = [need EXCEPT ![d] = n] /\ due' = [due EXCEPT ![d] = now]
      BY <1>1 DEF Call, clock
  <2>2. d # c /\ call[c] = "asleep" /\ need'[c] = need[c] /\ due'[c] = due[c]
      BY <1>t, <2>1
  <2>3. Served' = Served
      BY <1>t, <2>1 DEF Served
  <2> QED BY <1>t, <2>1, <2>2, <2>3, FundedKept
<1>2. ASSUME NEW d \in Caller, Granted(d)
      PROVE  /\ call[c] = "asleep" /\ due'[c] = due[c] /\ now' = now
             /\ d \in Caller \ Served /\ Served' = Served \cup {d}
  <2>1. /\ UNCHANGED <<now, need, due>> /\ call[d] \in {"called", "asleep"}
        /\ call' = [call EXCEPT ![d] = "done"]
      BY <1>2 DEF Granted, Awake, clock
  <2>2. d # c /\ call[c] = "asleep" /\ due'[c] = due[c]
      BY <1>t, <2>1
  <2>3. d \in Caller \ Served /\ Served' = Served \cup {d}
      BY <1>t, <2>1 DEF Served
  <2> QED BY <2>1, <2>2, <2>3
<1>3. ASSUME Waits(c)
      PROVE  /\ call[c] \in {"called", "asleep"} /\ ~Funded(c) /\ Funded(c)'
             /\ due'[c] <= now + Sleep /\ now' = now /\ Served' = Served
  <2>1. /\ UNCHANGED now /\ call[c] \in {"called", "asleep"} /\ call' = [call EXCEPT ![c] = "asleep"]
      BY <1>3 DEF Waits, Awake, clock
  <2>2. Served' = Served
      BY <1>t, <2>1 DEF Served
  <2> QED BY <1>3, <2>1, <2>2, SleeperFunded
<1>4. ASSUME NEW d \in Caller, d # c, Waits(d)
      PROVE  /\ call[c] = "asleep" /\ due'[c] = due[c] /\ now' >= now /\ Served' = Served
             /\ Funded(c) => Funded(c)'
  <2>1. /\ tokens' = Refilled /\ last' = now /\ UNCHANGED <<now, need>>
        /\ call[d] \in {"called", "asleep"} /\ call' = [call EXCEPT ![d] = "asleep"]
        /\ \E e : due' = [due EXCEPT ![d] = e]
      BY <1>4, ZenonT(60) DEF Waits, Awake, clock
  <2>2. call[c] = "asleep" /\ need'[c] = need[c] /\ due'[c] = due[c]
      BY <1>t, <1>4, <2>1
  <2>3. Served' = Served
      BY <1>t, <2>1 DEF Served
  <2> QED BY <1>t, <2>1, <2>2, <2>3, FundedKept
<1>5. ASSUME UNCHANGED rateVars, now' \in {now, now + 1}
      PROVE  /\ call[c] = "asleep" /\ due'[c] = due[c] /\ now' >= now /\ Served' = Served
             /\ Funded(c) => Funded(c)'
  <2>1. UNCHANGED <<tokens, last, call, need, due>>
      BY <1>5 DEF rateVars
  <2>2. Served' = Served
      BY <2>1 DEF Served
  <2> QED BY <1>t, <1>5, <2>1, <2>2, FundedKept
<1>6. ASSUME RateTick \/ (\E o \in -MaxOffset .. MaxOffset : Sync(o) /\ UNCHANGED rateVars)
             \/ UNCHANGED <<clock, rateVars>>
      PROVE  UNCHANGED rateVars /\ now' \in {now, now + 1}
    BY <1>6 DEF RateTick, Tick, Sync, clock
<1>7. CASE \E d \in Caller : RateStep(d)
    BY <1>1, <1>2, <1>3, <1>4, <1>7, ZenonT(60) DEF RateStep
<1>8. CASE UNCHANGED rateVars /\ now' \in {now, now + 1}
    BY <1>5, <1>8
<1> QED BY <1>6, <1>7, <1>8, ZenonT(60) DEF RateNext

LEMMA WaitInitially == RateInit => WaitInv
BY DEF RateInit, WaitInv

LEMMA WaitInductive ==
    ASSUME RateInv, RateInv', WaitInv, [RateNext]_<<clock, rateVars>>
    PROVE  WaitInv'
<1>t. /\ now \in Nat /\ now' \in Nat /\ DOMAIN call = Caller /\ DOMAIN due = Caller /\ MaxLate \in Nat
      /\ call = [d \in Caller |-> call[d]] /\ due \in [Caller -> Nat] /\ due' \in [Caller -> Nat]
  <2>1. RateTypeOK /\ RateTypeOK'
      BY DEF RateInv
  <2> QED BY <2>1, CapIsNat, RateAssumption DEF RateTypeOK
<1>1. ASSUME NEW c \in Caller, call'[c] \in {"called", "asleep"} PROVE now' <= due'[c] + MaxLate
  <2>1. ASSUME NEW d \in Caller, RateStep(d) PROVE now' = now /\ (due'[c] = due[c] \/ due'[c] >= now)
    <3>1. now' = now /\ \E e : due' = due \/ (due' = [due EXCEPT ![d] = e] /\ e >= now)
      <4>1. ASSUME NEW n \in Charge, Call(d, n) PROVE now' = now /\ due' = [due EXCEPT ![d] = now]
          BY <4>1 DEF Call, clock
      <4>2. ASSUME Granted(d) PROVE now' = now /\ due' = due
          BY <4>2 DEF Granted, clock
      <4>3. ASSUME Waits(d)
            PROVE  /\ now' = now
                   /\ due' = [due EXCEPT ![d] = now + (Charged(d) - Refilled + Rate - 1) \div Rate]
                   /\ now + (Charged(d) - Refilled + Rate - 1) \div Rate >= now
        <5>1. /\ Refilled < Charged(d) /\ now' = now
              /\ due' = [due EXCEPT ![d] = now + (Charged(d) - Refilled + Rate - 1) \div Rate]
            BY <4>3 DEF Waits, clock
        <5>2. Refilled \in 0 .. cap /\ Charged(d) \in 0 .. cap
          <6>1. need[d] \in Nat
              BY DEF RateInv, RateTypeOK
          <6> QED BY <6>1, RefilledIsNat, CapIsNat DEF RateInv, Charged, Lower
        <5>3. Charged(d) - Refilled \in Nat /\ Charged(d) - Refilled <= cap
            BY <5>1, <5>2, CapIsNat
        <5>4. (Charged(d) - Refilled + Rate - 1) \div Rate \in Nat
            BY <5>3, SleepCovers
        <5> QED BY <1>t, <5>1, <5>4
      <4> QED BY <1>t, <2>1, <4>1, <4>2, <4>3 DEF RateStep
    <3> QED BY <1>t, <3>1
  <2>2. ASSUME NEW d \in Caller, RateStep(d)
        PROVE  call[c] \in {"called", "asleep"} \/ due'[c] = now
    <3>1. CASE d = c
        BY <1>1, <1>t, <2>2, <3>1 DEF RateStep, Call, Granted, Waits, Awake
    <3>2. CASE d # c
      <4>1. \E e : call' = [call EXCEPT ![d] = e]
          BY <2>2 DEF RateStep, Call, Granted, Waits
      <4> QED BY <1>1, <1>t, <3>2, <4>1
    <3> QED BY <3>1, <3>2
  <2>3. CASE \E d \in Caller : RateStep(d)
      BY <1>t, <2>1, <2>2, <2>3 DEF WaitInv
  <2>4. CASE RateTick
    <3>1. now' = now + 1 /\ UNCHANGED <<call, due>> /\ (Awake(c) => now < due[c] + MaxLate)
        BY <2>4 DEF RateTick, Tick, rateVars
    <3> QED BY <1>1, <1>t, <3>1 DEF Awake
  <2>5. CASE UNCHANGED <<now, call, due>>
      BY <1>1, <1>t, <2>5 DEF WaitInv
  <2>6. ASSUME NEW o \in -MaxOffset .. MaxOffset, Sync(o), UNCHANGED rateVars
        PROVE  UNCHANGED <<now, call, due>>
      BY <2>6 DEF Sync, rateVars
  <2> QED BY <2>3, <2>4, <2>5, <2>6 DEF RateNext, clock, rateVars
<1>2. ASSUME NEW c \in Caller, call'[c] = "asleep"
      PROVE  due'[c] <= now' + Sleep /\ (Funded(c)' \/ Served' # {})
  <2>1. call[c] = "asleep" => due[c] <= now + Sleep /\ (Funded(c) \/ Served # {})
      BY DEF WaitInv
  <2> QED BY <1>2, <1>t, <2>1, SleeperSteps, SleepIsNat
<1>3. Sleep' = Sleep
    BY DEF Sleep, cap
<1> QED BY <1>1, <1>2, <1>3 DEF WaitInv

LEMMA Rounds ==
    ASSUME NEW m \in Nat
    PROVE  m * Round \in Nat /\ (m + 1) * Round = m * Round + Round
BY SleepIsNat

LEMMA ServedCount ==
    /\ IsFiniteSet(Served) /\ Cardinality(Served) \in Nat
    /\ Served # {} => Cardinality(Served) - 1 \in Nat
    /\ \A d \in Caller \ Served : Cardinality(Served \cup {d}) = Cardinality(Served) + 1
    /\ \A c \in Caller \ Served : Cardinality(Served) + 1 <= Cardinality(Caller)
<1>1. IsFiniteSet(Caller) /\ Served \subseteq Caller
    BY RateAssumption DEF Served
<1>2. IsFiniteSet(Served) /\ Cardinality(Served) \in Nat /\ Cardinality(Caller) \in Nat
    BY <1>1, FS_Subset, FS_CardinalityType
<1>3. Served # {} => Cardinality(Served) - 1 \in Nat
    BY <1>2, FS_EmptySet
<1>4. ASSUME NEW d \in Caller \ Served PROVE Cardinality(Served \cup {d}) = Cardinality(Served) + 1
    BY <1>2, FS_AddElement
<1>5. ASSUME NEW c \in Caller \ Served PROVE Cardinality(Served) + 1 <= Cardinality(Caller)
  <2>1. Served \cup {c} \subseteq Caller
      BY <1>1
  <2>2. Cardinality(Served \cup {c}) <= Cardinality(Caller)
      BY <1>1, <2>1, FS_Subset
  <2> QED BY <1>4, <2>2
<1> QED BY <1>2, <1>3, <1>4, <1>5

(* Asleep at n, c is due within a Sleep, and within one Round more for     *)
(* everyone who has been served.                                           *)
DueBy(c, n) ==
    /\ call[c] \in {"asleep", "done"}
    /\ call[c] = "asleep" =>
         \/ Funded(c) /\ due[c] <= n + Sleep + Cardinality(Served) * Round
         \/ Served # {} /\ due[c] <= n + Sleep + (Cardinality(Served) - 1) * Round

LEMMA SleeperCalls ==
    ASSUME RateInv, [RateNext]_<<clock, rateVars>>, NEW c \in Caller, call[c] \in {"asleep", "done"}
    PROVE  call'[c] \in {"asleep", "done"}
<1>1. DOMAIN call = Caller
    BY DEF RateInv, RateTypeOK
<1>2. ASSUME NEW d \in Caller, NEW n \in Charge, Call(d, n) PROVE call'[c] = call[c]
    BY <1>1, <1>2 DEF Call
<1>3. ASSUME NEW d \in Caller, Granted(d) \/ Waits(d) PROVE call'[c] = call[c] \/ call'[c] \in {"asleep", "done"}
    BY <1>1, <1>3 DEF Granted, Waits
<1>4. ASSUME UNCHANGED rateVars PROVE call'[c] = call[c]
    BY <1>4 DEF rateVars
<1> QED BY <1>2, <1>3, <1>4, ZenonT(60) DEF RateNext, RateTick, RateStep

(* One more Round for everyone served. *)
LEMMA RoundsServed ==
    /\ Cardinality(Served) * Round \in Nat
    /\ Served # {} => /\ (Cardinality(Served) - 1) * Round \in Nat
                      /\ Cardinality(Served) * Round = (Cardinality(Served) - 1) * Round + Round
<1>1. ASSUME NEW S \in Nat, S - 1 \in Nat
      PROVE  (S - 1) * Round \in Nat /\ S * Round = (S - 1) * Round + Round
  <2>1. (S - 1) + 1 = S
      OBVIOUS
  <2>2. (S - 1) * Round \in Nat /\ ((S - 1) + 1) * Round = (S - 1) * Round + Round
      BY <1>1, Rounds
  <2> QED BY <2>1, <2>2
<1> QED BY <1>1, ServedCount, Rounds

LEMMA DueByStarts ==
    ASSUME RateInv, WaitInv, NEW c \in Caller, NEW n \in Nat, call[c] = "asleep", now = n
    PROVE  DueBy(c, n)
<1>1. due[c] \in Nat /\ due[c] <= n + Sleep /\ (Funded(c) \/ Served # {})
    BY DEF RateInv, RateTypeOK, WaitInv
<1> QED BY <1>1, RoundsServed, SleepIsNat DEF DueBy

LEMMA SleeperDueBy ==
    ASSUME RateInv, RateInv', WaitInv, [RateNext]_<<clock, rateVars>>,
           NEW c \in Caller, NEW n \in Nat, DueBy(c, n), call'[c] = "asleep"
    PROVE  \/ Funded(c)' /\ due'[c] <= n + Sleep + Cardinality(Served') * Round
           \/ Served' # {} /\ due'[c] <= n + Sleep + (Cardinality(Served') - 1) * Round
<1>t. now \in Nat /\ due[c] \in Nat /\ due'[c] \in Nat /\ MaxLate \in Nat
  <2>1. RateTypeOK /\ RateTypeOK'
      BY ZenonT(60) DEF RateInv
  <2> QED BY <2>1, CapIsNat, RateAssumption DEF RateTypeOK
<1>1. call[c] = "asleep"
  <2>1. call[c] \in {"called", "asleep"}
      BY SleeperSteps, ZenonT(60)
  <2> QED BY <2>1 DEF DueBy
<1>2. \/ Funded(c) /\ due[c] <= n + Sleep + Cardinality(Served) * Round
      \/ Served # {} /\ due[c] <= n + Sleep + (Cardinality(Served) - 1) * Round
    BY <1>1, ZenonT(60) DEF DueBy
<1>3. ASSUME ~Funded(c), Funded(c)', due'[c] <= now + Sleep, Served' = Served
      PROVE  due'[c] <= n + Sleep + Cardinality(Served) * Round
  <2>1. now <= due[c] + MaxLate
      BY <1>1, ZenonT(60) DEF WaitInv
  <2>2. Served # {} /\ due[c] <= n + Sleep + (Cardinality(Served) - 1) * Round
      BY <1>2, <1>3, ZenonT(60)
  <2> QED BY <1>t, <1>3, <2>1, <2>2, RoundsServed, SleepIsNat
<1>4. ASSUME NEW d \in Caller \ Served, due'[c] = due[c], Served' = Served \cup {d}
      PROVE  Served' # {} /\ due'[c] <= n + Sleep + (Cardinality(Served') - 1) * Round
  <2>1. Cardinality(Served') - 1 = Cardinality(Served) /\ Served' # {}
      BY <1>4, ServedCount
  <2>2. due[c] <= n + Sleep + Cardinality(Served) * Round
      BY <1>t, <1>2, RoundsServed, SleepIsNat
  <2> QED BY <1>4, <2>1, <2>2
<1> QED BY <1>2, <1>3, <1>4, SleeperSteps, ZenonT(60)

LEMMA DueByStays ==
    ASSUME RateInv, RateInv', WaitInv, [RateNext]_<<clock, rateVars>>,
           NEW c \in Caller, NEW n \in Nat, DueBy(c, n)
    PROVE  DueBy(c, n)'
<1>1. call'[c] \in {"asleep", "done"}
    BY SleeperCalls, ZenonT(60) DEF DueBy
<1>2. Sleep' = Sleep /\ Round' = Round
    BY DEF Sleep, Round, cap
<1> QED BY <1>1, <1>2, SleeperDueBy DEF DueBy

(* RateLimiter::acquire never keeps a caller for longer than the time in   *)
(* which the demand of all callers flows in, each charge rounded up to     *)
(* whole units and its caller late: a caller that sleeps at time n does    *)
(* not sleep after n + Horizon, for every rate, capacity, charge and       *)
(* number of callers, although nothing is reserved for a sleeper.          *)
THEOREM SleepersAreServed ==
    ASSUME NEW c \in Caller, NEW n \in Nat
    PROVE  RateSpec => []((call[c] = "asleep" /\ now = n) => [](call[c] = "asleep" => now <= n + Horizon))
<1> DEFINE Inv == RateInv /\ WaitInv
           Begins == call[c] = "asleep" /\ now = n
           InTime == call[c] = "asleep" => now <= n + Horizon
           Step == [RateNext]_<<clock, rateVars>>
<1>1. ClockInit /\ RateInit => Inv
    BY RateInitially, WaitInitially
<1>2. Inv /\ Step => Inv'
    BY RateInductive, WaitInductive
<1>3. Inv /\ Begins => DueBy(c, n)
    BY DueByStarts
<1>4. Inv /\ Inv' /\ DueBy(c, n) /\ Step => DueBy(c, n)'
    BY DueByStays
<1>5. Inv /\ DueBy(c, n) => InTime
  <2> SUFFICES ASSUME RateInv, WaitInv, DueBy(c, n), call[c] = "asleep" PROVE now <= n + Horizon
      OBVIOUS
  <2> DEFINE S == Cardinality(Served)
             N == Cardinality(Caller)
  <2>1. /\ now \in Nat /\ due[c] \in Nat /\ MaxLate \in Nat /\ now <= due[c] + MaxLate
        /\ S \in Nat /\ N \in Nat /\ S + 1 <= N
    <3>1. c \in Caller \ Served /\ N \in Nat
        BY RateAssumption, FS_CardinalityType DEF Served
    <3> QED BY <3>1, ServedCount, CapIsNat, RateAssumption DEF RateInv, RateTypeOK, WaitInv
  <2>2. due[c] <= n + Sleep + S * Round
      BY <2>1, RoundsServed, SleepIsNat DEF DueBy
  <2>3. PICK j \in Nat : N = (S + 1) + j
    <3>1. N - (S + 1) \in Nat /\ N = (S + 1) + (N - (S + 1))
        BY <2>1
    <3> QED BY <3>1
  <2>4. (S + 1) * Round <= N * Round /\ (S + 1) * Round = S * Round + Round /\ S * Round \in Nat
    <3>1. ((S + 1) + j) * Round = (S + 1) * Round + j * Round
        BY <2>1, SleepIsNat
    <3>2. j * Round \in Nat /\ (S + 1) * Round \in Nat
        BY <2>1, Rounds
    <3> QED BY <2>1, <2>3, <3>1, <3>2, Rounds
  <2>5. Horizon = N * Round /\ N * Round \in Nat
      BY <2>1, Rounds DEF Horizon, Round
  <2> QED BY <2>1, <2>2, <2>4, <2>5, SleepIsNat
<1> HIDE DEF Inv, Begins, InTime
<1>6. RateSpec => [](Begins => []InTime)
    BY <1>1, <1>2, <1>3, <1>4, <1>5, PTL DEF RateSpec
<1> QED BY <1>6 DEF Begins, InTime

-----------------------------------------------------------------------------
(* The tables together. The users of the tables that a behaviour does not  *)
(* follow are at rest, so the clock may move for them as well.             *)
AtRest ==
    /\ table # "nonces" => \A t \in Handshake : hs[t] = "idle"
    /\ table # "bucket" => \A c \in Caller : call[c] = "new"

(* A step of the nonces' users that moves the clock is a tick or a sync    *)
(* for the others; any other one leaves the clock alone.                   *)
LEMMA NonceUserSteps ==
    ASSUME AtRest, NonceUser
    PROVE  /\ [DnsNext]_<<clock, dnsVars>> /\ [RateNext]_<<clock, rateVars>> /\ AtRest'
<1>0. NonceNext /\ UNCHANGED <<dnsVars, rateVars, table>> /\ table = "nonces"
    BY DEF NonceUser
<1>1. AtRest'
    BY <1>0 DEF AtRest, rateVars
<1>2. CASE NonceClock
  <2>1. ClockNext
      BY <1>2 DEF NonceClock
  <2>2. DnsNext
      BY <1>0, <2>1 DEF DnsNext
  <2>3. \A c \in Caller : ~Awake(c)
      BY <1>0 DEF AtRest, Awake
  <2>4. RateNext
      BY <1>0, <2>1, <2>3 DEF RateNext, RateTick, ClockNext
  <2> QED BY <1>1, <2>2, <2>4
<1>3. ASSUME NEW t \in Handshake, NonceStep(t) PROVE UNCHANGED clock
    BY <1>3 DEF NonceStep, VerifyBearer, VerifyFrame, AuthFails, Replayed, CacheFull, Remember
<1> QED BY <1>0, <1>1, <1>2, <1>3 DEF NonceNext

LEMMA NameUserSteps ==
    ASSUME AtRest, NEW d \in Datagram, NameUser(d)
    PROVE  UNCHANGED <<nonceVars, rateVars>> /\ DnsNext /\ AtRest'
<1>1. DnsStep(d) /\ UNCHANGED <<others, rateVars>>
    BY DEF NameUser
<1>2. UNCHANGED clock
    BY <1>1, ZenonT(60)
    DEF DnsStep, Hit, Miss, ResolveFails, Resolved, CheckRoom, Purge, Recheck, Insert
<1> QED BY <1>1, <1>2 DEF others, nonceVars, handshakes, rateVars, AtRest, DnsNext

LEMMA BucketUserSteps ==
    ASSUME AtRest, NEW c \in Caller, BucketUser(c)
    PROVE  UNCHANGED <<nonceVars, dnsVars>> /\ RateNext /\ AtRest'
<1>1. RateStep(c) /\ UNCHANGED <<others, dnsVars>> /\ table = "bucket"
    BY DEF BucketUser
<1>2. UNCHANGED clock
    BY <1>1, ZenonT(60) DEF RateStep, Call, Granted, Waits
<1> QED BY <1>1, <1>2, ZenonT(60) DEF others, nonceVars, handshakes, AtRest, RateNext

LEMMA TimeSteps ==
    ASSUME AtRest, TimePasses
    PROVE  NonceNext /\ DnsNext /\ RateNext /\ AtRest'
<1>1. RateTick /\ UNCHANGED <<others, dnsVars>> /\ table # "nonces"
    BY DEF TimePasses
<1>2. Tick /\ UNCHANGED rateVars
    BY <1>1 DEF RateTick
<1>3. \A t \in Handshake : ~Recording(t)
    BY <1>1 DEF AtRest, Recording
<1>4. NonceClock
    BY <1>1, <1>2, <1>3 DEF NonceClock, ClockNext, others
<1>5. AtRest'
    BY <1>1, <1>2 DEF AtRest, others, handshakes, rateVars
<1> QED BY <1>1, <1>2, <1>4, <1>5 DEF NonceNext, DnsNext, RateNext, ClockNext

(* ServerState's tables behave beside each other as each does alone.       *)
THEOREM TablesImplementParts == Spec => NonceSpec /\ DnsSpec /\ RateSpec
<1>1. Init => NonceInit /\ ClockInit /\ DnsInit /\ RateInit /\ AtRest
    BY DEF Init, NonceInit, RateInit, AtRest
<1>2. AtRest /\ [Next]_tableVars => /\ [NonceNext]_nonceVars /\ [DnsNext]_<<clock, dnsVars>>
                                   /\ [RateNext]_<<clock, rateVars>> /\ AtRest'
  <2> SUFFICES ASSUME AtRest, [Next]_tableVars
               PROVE  /\ [NonceNext]_nonceVars /\ [DnsNext]_<<clock, dnsVars>>
                      /\ [RateNext]_<<clock, rateVars>> /\ AtRest'
      OBVIOUS
  <2>1. CASE NonceUser
      BY <2>1, NonceUserSteps DEF NonceUser
  <2>2. ASSUME NEW d \in Datagram, NameUser(d)
        PROVE  UNCHANGED <<nonceVars, rateVars>> /\ DnsNext /\ AtRest'
      BY <2>2, NameUserSteps
  <2>3. ASSUME NEW c \in Caller, BucketUser(c)
        PROVE  UNCHANGED <<nonceVars, dnsVars>> /\ RateNext /\ AtRest'
      BY <2>3, BucketUserSteps
  <2>4. CASE TimePasses
      BY <2>4, TimeSteps
  <2>5. CASE UNCHANGED tableVars
      BY <2>5 DEF tableVars, nonceVars, handshakes, rateVars, AtRest
  <2> QED BY <2>1, <2>2, <2>3, <2>4, <2>5 DEF Next, nonceVars
<1> QED BY <1>1, <1>2, PTL DEF Spec, NonceSpec, DnsSpec, RateSpec

(* What holds of each table alone holds of the tables of a running server. *)
THEOREM TablesAreSound ==
    Spec => AcceptedOnce /\ []CacheSound /\ []DnsSound /\ []RateConforms
BY TablesImplementParts, HandshakeIsOneShot, CacheIsSound, DnsCacheIsSound, RateIsKept, PTL

=============================================================================
