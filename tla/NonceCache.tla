------------------------------ MODULE NonceCache ------------------------------
(***************************************************************************)
(* Handshakes and the cache of used nonces. A connection presents a bearer *)
(* token and then an AUTH frame; each is a credential with a timestamp, is *)
(* checked against now_unix and against its MAC, and is then recorded in a *)
(* cache shared by all handshakes that forgets expired entries and refuses *)
(* everything when it is full.                                             *)
(*                                                                         *)
(* Sources: server/mod.rs (bearer_user, auth_from_frame), server/state.rs  *)
(* (check_and_remember_nonce), proto/crypto.rs (verify_bearer_parts,       *)
(* AuthPayload::verify), server/fallback.rs and server/wt.rs (callers).    *)
(* Checking and recording are two steps: the clock is read, and then       *)
(* another thread may take the cache's lock first. Keys and MACs are       *)
(* abstracted to whether a credential is genuine.                          *)
(***************************************************************************)
EXTENDS Clock, FiniteSets

CONSTANTS
    Bearer,       \* bearer tokens: (uid, ts, nonce) with a MAC
    AuthFrame,    \* AUTH payloads
    Forged,       \* the credentials no configured key made
    Skewed,       \* AUTH payloads of another protocol version
    NoCred,       \* no credential
    Stamp,        \* the timestamps credentials may carry
    Handshake,    \* slots for handshakes in flight; a slot is used again and again
    NonceCap,     \* NONCE_CAP
    AuthWindow,   \* AUTH_WINDOW
    MaxLag        \* how far the clock moves while a thread goes from check to record

Credential == Bearer \cup AuthFrame

ASSUME NonceAssumption ==
    /\ IsFiniteSet(Credential) /\ Bearer \cap AuthFrame = {}
    /\ NoCred \notin Credential
    /\ Forged \subseteq Credential /\ Skewed \subseteq AuthFrame
    /\ Stamp \subseteq Nat /\ NonceCap \in Nat
    /\ AuthWindow \in Nat /\ MaxLag \in Nat
    \* no await lies between check and record, and a sync is a small correction
    /\ MaxBack + MaxLag < AuthWindow
    \* the epoch is long past
    /\ 2 * AuthWindow + MaxBack <= Start

VARIABLES
    stamp,        \* the timestamp in each credential
    seen_nonces,  \* ServerState.seen_nonces
    hs,           \* where each handshake is
    cred,         \* the credential it has checked and not yet recorded
    at,           \* history: high when that credential was checked
    accepted      \* how often each credential was accepted

handshakes == <<hs, cred, at>>
nonceVars == <<clock, stamp, seen_nonces, handshakes, accepted>>

NonceInit ==
    /\ ClockInit
    /\ stamp \in [Credential -> Stamp]
    /\ seen_nonces = {}
    /\ hs = [t \in Handshake |-> "idle"]
    /\ cred = [t \in Handshake |-> NoCred]
    /\ at = [t \in Handshake |-> 0]
    /\ accepted = [c \in Credential |-> 0]

-----------------------------------------------------------------------------
(* The timestamp is at most a window away, on either side. *)
InWindow(c) ==
    /\ Saturating(now_unix - stamp[c]) <= AuthWindow
    /\ Saturating(stamp[c] - now_unix) <= AuthWindow

(* verify_bearer_parts. A token that fails leaves no trace: the peer sees  *)
(* an ordinary page.                                                       *)
VerifyBearer(t, c) ==
    /\ hs[t] = "idle" /\ c \in Bearer
    /\ c \notin Forged /\ InWindow(c)
    /\ hs' = [hs EXCEPT ![t] = "bearer"]
    /\ cred' = [cred EXCEPT ![t] = c]
    /\ at' = [at EXCEPT ![t] = high]
    /\ UNCHANGED <<clock, stamp, seen_nonces, accepted>>

\* mutant: the version is checked only after the nonce was recorded
VerifyFrame_VersionLast(t, c) ==
    /\ hs[t] = "auth" /\ c \in AuthFrame
    /\ c \notin Forged /\ InWindow(c)
    /\ hs' = [hs EXCEPT ![t] = "frame"]
    /\ cred' = [cred EXCEPT ![t] = c]
    /\ at' = [at EXCEPT ![t] = high]
    /\ UNCHANGED <<clock, stamp, seen_nonces, accepted>>

(* auth_from_frame up to the cache: the frame opens under a user's key and *)
(* speaks this version, its MAC and its timestamp are good.                *)
VerifyFrame(t, c) ==
    /\ hs[t] = "auth" /\ c \in AuthFrame
    /\ c \notin Forged /\ c \notin Skewed /\ InWindow(c)
    /\ hs' = [hs EXCEPT ![t] = "frame"]
    /\ cred' = [cred EXCEPT ![t] = c]
    /\ at' = [at EXCEPT ![t] = high]
    /\ UNCHANGED <<clock, stamp, seen_nonces, accepted>>

(* The frame was rejected, of another version, or did not come in time. *)
AuthFails(t) ==
    /\ hs[t] = "auth"
    /\ hs' = [hs EXCEPT ![t] = "idle"]
    /\ UNCHANGED <<clock, stamp, seen_nonces, cred, at, accepted>>

\* mutant: an entry is kept for one window only
Kept_OneWindow == {c \in seen_nonces : stamp[c] > Saturating(now_unix - AuthWindow)}

Kept == {c \in seen_nonces : stamp[c] > Saturating(now_unix - 2 * AuthWindow)}

Recording(t) == hs[t] \in {"bearer", "frame"}

Leaves(t, where) ==
    /\ hs' = [hs EXCEPT ![t] = where]
    /\ cred' = [cred EXCEPT ![t] = NoCred]
    /\ at' = [at EXCEPT ![t] = 0]

(* check_and_remember_nonce, under its lock. *)
Replayed(t) ==
    /\ Recording(t) /\ cred[t] \in seen_nonces
    /\ Leaves(t, "idle")
    /\ UNCHANGED <<clock, stamp, seen_nonces, accepted>>

CacheFull(t) ==
    /\ Recording(t) /\ cred[t] \notin seen_nonces
    /\ Cardinality(Kept) >= NonceCap
    /\ seen_nonces' = Kept
    /\ Leaves(t, "idle")
    /\ UNCHANGED <<clock, stamp, accepted>>

Remember(t) ==
    /\ Recording(t) /\ cred[t] \notin seen_nonces
    /\ Cardinality(Kept) < NonceCap
    /\ seen_nonces' = Kept \cup {cred[t]}
    /\ accepted' = [accepted EXCEPT ![cred[t]] = @ + 1]
    /\ Leaves(t, IF hs[t] = "bearer" THEN "auth" ELSE "idle")
    /\ UNCHANGED <<clock, stamp>>

(* Time passes, but a thread is not held up between its two steps. *)
NonceClock ==
    /\ ClockNext
    /\ \A t \in Handshake : Recording(t) => high' <= at[t] + MaxLag
    /\ UNCHANGED <<stamp, seen_nonces, handshakes, accepted>>

NonceStep(t) ==
    \/ \E c \in Credential : VerifyBearer(t, c) \/ VerifyFrame(t, c)
    \/ AuthFails(t) \/ Replayed(t) \/ CacheFull(t) \/ Remember(t)

NonceNext == NonceClock \/ \E t \in Handshake : NonceStep(t)

NonceSpec == NonceInit /\ [][NonceNext]_nonceVars

-----------------------------------------------------------------------------
(* Properties. *)

NonceTypeOK ==
    /\ ClockTypeOK
    /\ stamp \in [Credential -> Nat]
    /\ seen_nonces \subseteq Credential
    /\ hs \in [Handshake -> {"idle", "bearer", "auth", "frame"}]
    /\ cred \in [Handshake -> Credential \cup {NoCred}]
    /\ at \in [Handshake -> Nat]
    /\ accepted \in [Credential -> Nat]

(* No credential is accepted twice, although the cache forgets it: however *)
(* handshakes interleave, time passes, the clock is set back and the cache *)
(* expires its entries, a credential that was forgotten is too old to pass *)
(* the check again. The handshake implements OneShot.                      *)
Once == INSTANCE OneShot WITH Credential <- Credential, uses <- accepted
AcceptedOnce == Once!Spec

(* Only credentials that passed every check take up room in the cache, and *)
(* it never holds more than NONCE_CAP: neither forged traffic nor peers of *)
(* another version can fill it ("a version skew never consumes a nonce").  *)
CacheSound ==
    /\ Cardinality(seen_nonces) <= NonceCap
    /\ \A c \in seen_nonces : c \notin Forged \cup Skewed /\ accepted[c] > 0

=============================================================================
