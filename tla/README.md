# A TLA+ model of newppp

newppp is an encrypted proxy in Rust. A client offers SOCKS5 and HTTP on the local
machine and carries each TCP connection or UDP association to a server over a pool
of WebTransport (QUIC) connections, or, when that path fails, over one HTTPS or
WebSocket channel ("mode A") that multiplexes all sessions. The server dials the
targets. Nothing is persisted; what is hard is concurrency: both ends run on a
multi-threaded async executor, and almost every piece of state is a `DashMap`, an
atomic or a cancellation token that several tasks touch without a common lock.

Paths below are relative to the crate (`src/server/hub.rs` and so on).

## Inventory

| Part | State | Operations | What is hard about it | Here |
|---|---|---|---|---|
| Session engine (`server/state.rs`, `server/hub.rs`, `proto/mux.rs`, `server/wt.rs`, `server/fallback.rs`) | session, TCP-route and UDP-route maps per connection; global quota; tokens | admit, register, dial, pumps, `drop_session`, Close/Data frames, idle reaper, connection end | five actors race to tear a session down; ids are reused; workers are aborted in an await | `SessionHub` |
| Gate on unauthenticated peers (`server/limit.rs`) | global count, count per address | `try_admit`, guard drop | two counters updated in two steps; silent peers | `UnauthGate` |
| Datagram path (`proto/crypto.rs`, `proto/mux.rs`, `proto/frame.rs`) | nonce counter; 64-bit replay window | encode, send or fall back, check | loss, duplication, reordering; window edges | `DatagramChannel`, `ReplayFilter` |
| Circuit breaker (`client/outbound.rs`) | failure count, `tripped_until` | `can_try`, `record_success`, `record_failure` | outcomes are reported long after the permission was given | `CircuitBreaker`, `PathHealth` |
| Heartbeat (`client/wt.rs`) | `pong_seen`, `missed_pings` | tick, Ping, Pong | late Pongs; a judge that can block | `Heartbeat`, `PathHealth` |
| WebTransport pool (`client/wt.rs`) | pool vector, session counts, UDP waiters and routes | acquire, open, associate, expire, maintenance | stale choices; death at any step; teardown by two tasks | `WtPool` |
| Client multiplexer, fallback outbound (`proto/mux.rs`, `client/fallback.rs`) | pending opens, session table, one shared channel | open, timeout, route, teardown, reconnect | early, late and missing answers; a channel that dies during an open | `ClientMux` |
| Handshake and nonce cache (`server/mod.rs`, `server/state.rs`, `proto/crypto.rs`) | `seen_nonces` | verify, check and remember | the cache forgets while the clock is set back; check and record are two steps | `NonceCache`, `OneShot` |
| Calibrated clock (`clock.rs`) | `CLOCK_OFFSET` | `now_unix`, hourly sync, `parse_http_date` | jumps; date arithmetic | `Clock`, `Calendar` |
| UDP DNS cache (`server/state.rs`, `server/hub.rs`) | map of answers with a TTL and a cap | look up, resolve, store | time read before an await; size check and insert apart | `DnsCache` |
| Rate limiter (`server/limit.rs`) | token bucket per user | `acquire` | nothing is reserved for a sleeper; charges above the capacity | `RateLimiter` |
| Graceful shutdown (`server/mod.rs`) | tokens collected from the table | collect, cancel, drain, sweep, abort | connections come and go meanwhile | `Shutdown` |
| Frame channel (`proto/frame.rs` and both ends) | frame limit, decoder buffer, writer queues | AUTH, `negotiate`, decode, write | limit and key change between two frames of one chunk; a writer that may end | `FrameChannel` |
| Egress policy (`server/hub.rs`) | none | `is_public_target`, `dial_target` | block edges, five IPv6 spellings of an IPv4 target | `EgressPolicy` |
| Options (`config.rs`, `main.rs`) | none | merge of file and command line | overriding by editing a token list | `ConfigArgs` |
| Cryptography, TLS, ECH, addresses, local inbounds, health, disguise pages, tuning | library calls, sequential I/O | | | not modelled |

`PROJECT.json` lists the same parts with their sources, every hazard at its line, and
for each definition the lines it translates.

## Modules

**SessionHub** models a session's whole life on the server. `req` says which connection,
id and kind each incoming request asks for; `pc` is the task that serves it, through
`admit` (`CheckContains`, `CheckCount`), `try_acquire_session` (`Acquire`),
`try_register_with` (`Register`), the dial (`DialOk`, `DialErr`) and the reply. `out`
and `inp` are the two pumps, or the UDP watcher. `drop_session` is not atomic in the
code, so it is not here: `stage` follows each actor through `DropTcpRoute`,
`DropUdpRoute`, `DropSession` and `Release`, and any two actors may be in it at once.
`reap` is the reaper's tick, which works on a snapshot. `Mux` tells the connections on
the mode-A path from the WebTransport ones, because they end differently: a mode-A loop
aborts its workers (`MuxBreaks`, `Abort`, `MuxJoins`), a WebTransport connection
cancels its token and lets its tasks find out (`WtControlEnds`, `WtDies`). The quota is
an integer modulo `Word`, as `fetch_sub` on an `AtomicU64` wraps. Payload bytes, byte
queues and time are abstracted: a timeout is an alternative that may happen.

**UnauthGate** models the two halves of `try_admit`, the undo after a refusal by the
global cap, the phases a guard is carried through, and `UnauthGuard::drop` in its two
steps. Attempts that know their address come from one accept loop (`AcceptLoopFree`);
fallback attempts have no address and run concurrently. An absent map entry is a zero.

**DatagramChannel** is one direction of the fast path. Taking a counter and sending are
two steps of each sender, so counters leave out of order; `net` only grows and a
datagram in it may be received never, once or often. `mask` is the set of bits that
are set. **ReplayFilter** is the promise: a verdict that depends only on the set of
counters accepted so far. `FiltersExactly` is the refinement.

**Shutdown** extends `SessionHub` with the main task of the server after the signal.
The iteration over the connection table is one step per place (`Collect`), since the
map is not locked as a whole. The listeners accept until `StopListeners`, as in the
code, which aborts them last.

**CircuitBreaker** has one action per way a request of `Outbound::Both` can go on. The
clock is reduced to whether `tripped_until` is in the future or the past.

**Heartbeat** counts frames on the ordered control stream; the judge's own blocking
send is a step of its own, because `ctrl_tx.send` has no timeout.

**PathHealth** composes the two on one link that may die: requests get answers only
while it is up, and `wasted` counts the attempts that start on a dead one.

**WtPool** has one step per lock, atomic, map operation or await of `acquire`,
`open_tcp`, `udp_associate`, `expire`, the death watcher and maintenance. Choosing a
connection and taking a place on it are separate steps, as in the code. Backoff is a
choice of whether a tick dials. The heartbeat's verdict is one of the reasons for
`ReaderExpires`.

**ClientMux** is the client's side of mode A. `mux` and `lock` are `HttpOutbound.mux`;
each caller goes through `ensure_mux`, the two insertions of an open, the send, the wait
and, when it fails, the clean-up in the code's order, then one retry if the channel died.
`life` is a channel's `closed` token and its progress through the four clears of
`teardown_all`. Two local steps are folded into their neighbours where no other task can
tell: a decision to give up with the first removal, and the `is_closed` check with the
last one. The server is reduced to what it may still say of a session (`srv`), which for
TCP includes Data before the OpenOk, since it starts its pumps before it answers.

**Clock** has the monotonic `Instant` and `now_unix`, the system clock plus an offset
that a sync replaces. `MaxBack` is how far a sync may set `now_unix` below its highest
value. **NonceCache** takes a handshake through bearer token and AUTH frame. A check
reads the clock in one step and `check_and_remember_nonce` runs under its lock in
another; `at` bounds the time in between by `MaxLag`, as no await lies there. Keys and
MACs are reduced to whether a credential is genuine. **OneShot** is the promise: a
credential is used once. `AcceptedOnce` is the refinement.

**DnsCache** gives every operation of `udp_dns_store` on the concurrent map a step of
its own, because no lock spans them, and records an answer under the time that was read
before the lookup, as the code does. **RateLimiter** is one user's bucket with integer
tokens and time; a caller runs at most `MaxLate` after it is ready, and `taken` records
what was handed out since each instant. **ServerTables** puts
the three tables under one clock. They share nothing else, so a behaviour exercises one
of them; exploring their product would only multiply the states.

**FrameChannel** is one reliable channel from AUTH on, for either transport. `wire`
holds the frames one side wrote and the other has not decoded, `fed` how many units of
them have reached the decoder, in chunks that ignore frame boundaries. `HasHeader`,
`TooLong`, `HasFrame` and `Opens` are the tests of `next_frame` in its order. A frame
is its type, the key it is sealed with, its size and, in the handshake, the limit it
carries. The two kinds of writer differ where the code differs (`WriteFails`).

**ConfigArgs**, **Calendar** and **EgressPolicy** are pure algorithms with a reference
beside each. `main` is the code's token machinery with clap's rules, `Meant` says what a
user means. `days` is the arithmetic of `parse_http_date`; the reference walks the
Gregorian calendar month by month. `is_public_target` has the code's octet tests; the reference is a
list of prefixes.

`MCSessionHub`, `MCUnauthGate` and `MCClientMux` add only symmetry sets for TLC;
`MCStartup` runs `FrameChannel` and the three algorithms, one per behaviour. A
definition marked "mutant" is a plausible mistake in the definition after it; each
property of a passing run has one that breaks it.

## Runs

| Run | Instance | Checks | Distinct states |
|---|---|---|---|
| `hub_mux` | one mode-A connection, two ids, two requests of either kind, one permit, one session per connection | `TypeOK`, `TcpRouteOwned`, `PerConnBound` | 1,184,066 |
| `hub_wt` | one WebTransport connection, one id, two requests, a quota of one | `QuotaExact`, `WtSessionOwned`, `QuotaWithinLimit` | 1,074,775 |
| `shutdown` | one WebTransport connection, one request, with fairness | `CancelDrains`, `ShutdownDrains`, `ShutdownEnds` | 163,435 |
| `gate` | four peers, two addresses, caps 3 and 2, with fairness | `CountsExact`, `GateCaps`, `SlotReturned` | 144,299 |
| `dgram` | two senders, six frames, a window of three | `CounterUnique`, `MaskExact`, `FiltersExactly` | 20,101 |
| `path` | three requests, threshold 3 and limit 2 (the code's), six pings, with fairness | `TripsExactly`, `DeathNeedsSilence`, `ProbeBound`, `HalfDeadFound` | 271,038 |
| `pool` | one connection with one place, two callers, with fairness | `TypeOK`, `SessionsExact`, `RetiredCloses`, `DeadLeavesPool`, `RequestEnds` | 46,574 |
| `mux` | two requests of either kind, two channels | `OneChannel`, `NoLeftovers`, `ResponseKept`, `DeadChannelEmpty` | 1,847,778 |
| `tables` | five credentials, one forged and one of another version, two handshakes, a cache of two, window 3; two names, two datagrams, room for one; two callers, with fairness | `CacheSound`, `AcceptedOnce`, `DnsSound`, `RateConforms`, `AcquireEnds` | 536,688 |
| `startup` | both transports, limits 1 and 2 in units of 16 KiB or more, two frames in flight; files and command lines of up to four options; every date of the years 1 to 9999; both sides of every bound in the egress tests | `FramesAccepted`, `OversizeHarmless`, `MergeExact`, `DateExact`, `EgressExact` | 1,005,974 |
| `hub_orphan`, `hub_relay` | one mode-A connection, one id, two requests, two permits | one property each, violated | |

Why these bounds are enough to be interesting. Two requests for one id are what it
takes for a late teardown or a late route to hit a successor, for two registrations to
collide and, with a quota of one, for the limit to refuse. `hub_mux` has one permit to
leave room for two ids; `QuotaExact` and `TcpRouteOwned` are proved for any number. One
connection is enough for `shutdown`: it can be in the table before the signal, end while
tokens are collected, or be accepted behind the iterator. Four peers over a global cap
of three and an address cap of two reach both refusals, and a refusal by the global cap
while another guard is half dropped. Six frames over a window of three pass the window's
end by one, jump over its whole width and come back at its last offset. Three requests
over a threshold of three trip the breaker with all of them out. Two callers for one
place are the race for the last place. In `mux` two requests find the same dead channel,
and two channels let one of them retry while the other still cleans up on the first. In
`tables` time runs past two windows, so entries expire while a sync may set the clock
back; two datagrams for two names overfill a cache of one; a charge of 4 exceeds the
bucket's 3. In `startup` two frames in flight put the end of one and the header of the
next into one chunk, and limits 1 and 2 with payloads of 0 to 3 put a payload on both
sides of every negotiated limit.

Deadlock is checked where slots are reused (`gate`, `path`, `pool`). The other models
end when their requests, frames or time are used up; a server that is down, too, may stop.

### Fairness

Weak fairness stands for the executor, which runs every ready task, and for timeouts.
Nothing is assumed of peers or the network.

- `SessionHub`: a dial ends (it has timeouts); a pump or transport need end only after
  its connection is cancelled, which closes the transport. The reaper is not assumed.
- `Shutdown`: the main task is scheduled, and the grace period ends. No signal need come.
- `UnauthGate`: waiting for the first stream and for AUTH ends by `AUTH_TIMEOUT`. The
  session request has no timeout of its own and gets no fairness, so `SlotReturned`
  starts at the stream phase.
- `Heartbeat`, in `path`: the timer fires, and a queue with room takes the Ping.
- `WtPool`: tasks run, maintenance ticks, awaits under a timeout end. A blocked write is
  only sure to fail once QUIC is closed, so `RequestEnds` excepts a write that an open
  connection does not take. Sessions may last for ever.
- `RateLimiter`, in `tables`: time passes, and a sleeper whose time has come is run.
  Nobody need call `acquire`, and each caller calls once: with an endless stream of
  competitors a sleeper could be passed over for ever, since nothing is reserved for it.

## Proofs

TLAPS checks these for every value of the constants that satisfies the assumptions
named in the modules: finite sets of tasks, peers and callers where something is
counted, positive limits, and a quota word larger than the quota. Three assumptions say
more. The handshake's theorems take clock corrections and the time from check to record
to be together shorter than `AUTH_WINDOW`, and the clock to be two windows past the
epoch (`NonceAssumption`). The frame channel's take `MAX_PLAINTEXT` to be at most
`MAX_PLAINTEXT_CAP` (`FrameAssumption`). The multiplexer's only take `NoCaller` and
`NoChan` to be outside their sets (`MuxAssumption`): callers and channels may be
infinitely many.

Each proof module extends what it is about: `SessionHubProofs` the engine and
`Shutdown`, `PathHealthProofs` both judges and their composition, `ServerTablesProofs`
the three tables and `ServerTables`, `StartupProofs` the frame channel, the calendar and
the egress policy; `UnauthGateProofs`, `DatagramChannelProofs`, `WtPoolProofs` and
`ClientMuxProofs` one component each.

| Theorem | Says | Inductive invariant |
|---|---|---|
| `TypeCorrect` | `SessionHub` keeps its types | `TypeOK` itself |
| `QuotaIsExact`, `QuotaIsBounded` | the quota equals handles, owed releases and fresh acquisitions; it stays in its limit and never wraps | both together, with `TypeOK` and `StageInv` |
| `RoutesAreOwned` | no TCP route outlives its session's teardown | `RouteInv`: the route's request also asked for that key |
| `WtSessionsAreOwned` | a WebTransport session always has somebody to drop it | `OwnInv`, with `StageInv`: the request of a registered session dials, pumps, tears down or was aborted (`Kept`) |
| `OnlyAbortsStrand` | on every path a session has somebody to drop it unless its worker was aborted, so that abort (`hub_orphan`) is the only way to strand one | the same |
| `OvershootIsBounded` | at most `max_per_conn - 1 + MAX_MUX_TASKS` sessions on a mode-A connection | `CountInv`: sessions plus workers past the check, and workers within permits |
| `ShutdownKeepsSessions` | the five session properties above hold while the server shuts down as well | `ShutdownInv`: all of the above, with `ChanInv`: a connection is in the table or cancelled from its acceptance on |
| `ShutdownReachesAll` | a connection in the table at the signal is cancelled before the drain begins | `Reached(c)`: it is still to be visited, or collected, or cancelled |
| `GateCountsAreExact`, `GateCapsHold` | counts never drift, caps hold | `GateInv` |
| `CountersAreUnique` | no nonce counter is used twice | `SendInv`: all used counters are below `next` |
| `MaskIsExact`, `WindowFiltersExactly` | the 64-bit window implements the unbounded filter | `WindowInv` |
| `BreakerTripsExactly` | tripped exactly after a streak of failures | `BreakerInv`: what the counter is in each state |
| `ExpiryNeedsSilence` | a heartbeat expires only after the silence it is meant to detect | `BeatInv`: without a Pong every counted miss has a Ping out, but for one being sent |
| `PathImplementsJudges` | the composed path is a breaker and a heartbeat, so what holds of either holds of it | none is needed |
| `DeadPathIsBounded` | how many attempts a dead path can cost before it is left alone | `PathInv`, with `WasteInv`: every such attempt is counted as a failure or still out |
| `PoolTypeCorrect`, `SessionsAreExact` | client session counts are exact and bounded | `PoolInv` |
| `MuxInvariant` | the client's multiplexer keeps all of the following | `MuxInv` |
| `ThereIsOneChannel` | there are never two living channels, however many requests reconnect | `LockInv`: whoever connects holds the lock and no channel lives meanwhile |
| `FailedOpensLeaveNothing` | an open that failed leaves no entry in any map | `MapInv`: which entries a caller may have in each step |
| `ResponsesKeepTheirRoute` | what the server still sends finds its session while the channel lives | `KeptInv`, with `ReaderInv`: a reader with a FIN in hand was the last to need the route |
| `DeadChannelsAreEmpty` | after `teardown_all` only opens that will fail can have a route | `DeadInv`: a route inserted behind a clear belongs to an open that gets no answer |
| `HandshakeIsOneShot`, `CacheIsSound` | no credential is accepted twice; only checked credentials take up the cache, within its cap | `NonceInv`: an accepted credential is in the cache or two windows old, one about to be recorded is not |
| `NoFrameRefused`, `WritersSurvive` | no decoder refuses the other side's frame, limits agree; no control-stream writer ends on a frame | `FrameInv`: which frames can be on the wire in each stage of the handshake, and that queued ones fit |
| `DnsCacheIsSound` | no address is served past its TTL; the cap is exceeded by less than the concurrent datagrams | `DnsInv`: entries are stamped with the time they were asked for, and entries plus tasks that saw room are bounded |
| `RateIsKept` | in no interval does a user get more than the capacity and the inflow | `RateInv`: what was taken since any instant, and what the bucket holds now, are covered by both |
| `SleepersAreServed` | a caller asleep in `acquire` at time n no longer sleeps after n + `Horizon` | `WaitInv`, then `DueBy`: a sleeper is due within one `Sleep`, and within one `Round` more for everyone served meanwhile |
| `TablesImplementParts`, `TablesAreSound` | the tables under one clock implement each table alone, so its theorems hold there | `AtRest`: the users of the tables a behaviour does not follow are idle |
| `DatesAreExact` | the day number of every date of every year is the one a walk counts, not only up to the year TLC stops at | `CalendarInv`: the walk agrees with the code on the first of each month |
| `EveryTargetIsDecided` | on all IPv4 and IPv6 addresses the octet and segment tests decide as the prefix list does, and alike in all five spellings of an IPv4 address | none, no state is involved |
| `PolicyIsExact` | the same, and the choice of `dial_target`, for any edges tried | `EgressInv`: the first part is one of the family |

These are about fair behaviours.

| Theorem | Says | Steps assumed enabled | Argument |
|---|---|---|---|
| `SlotsComeBack` | `SlotReturned` | `GuardsEnable` | a guard on its way out only moves forward |
| `RetiredAreClosed` | `RetiredCloses` | `WatchersEnabled` | `CloseInv`: whatever can be cancelled was dialled and has a watcher, and one that woke has closed QUIC |
| `RequestsEnd` | `RequestEnds` | `CallersEnabled` | the labels are ordered; a caller's own step goes up, nobody else moves it |
| `DeadLeaveAtTheTick` | a connection that is dead when no dial is outstanding leaves the pool | `MaintEnabled` | dead connections stay dead |
| `CancelledRequestsSettle`, `WtRequestsSettle` | a request of a cancelled connection ends for good with no session and nothing owed; in mode A unless its worker was aborted | `TasksEnabled` | the worker ends (`WorkersEnd`), then the teardown does (`TeardownsEnd`), and `OwnInv` leaves no session |
| `ShutdownSettles` | so does one whose connection is in the table at the signal, unless the shutdown never leaves its loops | `TasksEnabled` | `ShutdownReachesAll` |
| `DrainEnds` | the wait for sessions ends and the server goes down | `MainEnabled` | each phase leads to the next |

Weak fairness needs to know that a step is enabled, and no backend reasons about
`ENABLED`. So each of these theorems has that as a hypothesis: a definition of the proof
module that says, for each step the proof lets fairness take, that it is enabled where its
guard holds. Every such step is a guard and assignments, and TLC finds all six definitions
to hold on the instances of `gate`, `pool` and `shutdown`. Everything else in the argument
(what each step does to the request, and that other tasks do not undo it) is proved for
all constants.

`StageInv` is the strengthening most of `SessionHubProofs` rests on. It says that a task
inside `drop_session` has left the state it could start another drop from, so an owed
release is never overwritten. The exactness proofs all follow one argument: each action
moves at most one element into or out of the set that is counted, in the same step as
the counter, and `RemoveOne`/`AddOne` (`OneLess`/`OneMore`) turn that into arithmetic.
`WindowFiltersExactly` maps the filter's variables to the window's history variables of
the same names; `VerdictAgrees` shows that the two give the same verdict.

`HandshakeIsOneShot` shows that a step of the handshake uses a credential of `OneShot`
or none. The clock enters by `high`, the highest value `now_unix` had: an entry is
dropped when it is two windows below the present, so two windows below `high`, and a
credential that passes the check is within one window of a clock that is less than
another window below `high`. Without that bound on corrections the property is false.

The safety of `ClientMux` needs its clauses together: a route stays because only the
reader of a living channel and its own caller remove it, and the reader's part depends
on what the server can still say. Each clause speaks of one caller, or one caller and
one channel, so a step of one caller leaves the clauses of the others alone.

`ProbeBound` is about attempts, the breaker counts failures that are reported later.
`WasteInv` closes the gap: on a dead link an attempt that is no longer out has been
counted, and a success, which would reset the count, no longer comes. `RateConforms`
speaks of every interval; `taken` turns the sum over an interval into state, so that no
induction over the history is left. `DatesAreExact` rests on a closed form of `days`
with years that begin in March (`March`, `Doy`), for which the step from one month to
the next is linear. `EveryTargetIsDecided` shows for each prefix which test of the code
it is, part by part; the bounds of `SecondEdge`, `ThirdEdge` and `SegmentEdge` that TLC
needs play no role in it.

`SleepersAreServed` is the bound behind `AcquireEnds`. A caller that goes to sleep is
funded: what it waits for will have flowed in when it wakes. Only somebody else who is
served can take that away, which happens once per competitor. So the end of its wait
moves by one `Round` for each, and there are fewer competitors than callers.

Only model-checked, and why:

- `CancelDrains` and `ShutdownDrains` join what `WtRequestsSettle` and `ShutdownSettles`
  say of each request. That "each is settled for good eventually" gives "all are at one
  time" takes an induction over the set of requests, about temporal formulas. What holds
  then, no session left, is `SettledIsDrained`.
- `ShutdownEnds` also needs its loops to end, an induction on what is left to visit;
  `DrainEnds` has the rest. `DeadLeavesPool` needs one on the dials a tick still has to
  make, `HalfDeadFound` one on the misses, and `AcquireEnds` one on time.
- `MergeExact` folds over lists of options and would need an induction over them.

## Where code and documentation disagree

Two runs are expected to fail; each states what a comment promises.

- `hub_orphan`: the end of a mode-A loop aborts workers in their dial. A session that
  was registered there is never dropped and keeps its quota once the connection is
  swept (`proto/mux.rs:627`, against `server/state.rs:88-90`).
- `hub_relay`: a Close frame between registration and `udp_routes.insert` leaves a relay
  without a watcher (`server/hub.rs:340`, against `server/state.rs:316-318`).

Smaller observations that have no run:

- The per-connection cap of 64 can be exceeded, since the check and the registration are
  not one step. `OvershootIsBounded` gives the bound that does hold on the mode-A path.
- After a cooldown the breaker lets every request through until one reports, not the
  "one probe" of `client/outbound.rs:86-87`: `can_try` records nothing.
- The first heartbeat tick counts a miss before any Ping was sent, so a new connection
  can expire after one unanswered Ping. `DeathNeedsSilence` has the exact bound.
- Trimming looks at `WtConn.sessions`, which UDP associations do not raise, so a surplus
  connection that carries only UDP is closed under it.
- `WtConn::udp_associate` inserts its route after the reply without looking at `alive`
  again (`client/wt.rs:780`). When `expire` runs in between, the route stays in the dead
  connection's table, against the comment at `client/wt.rs:640-642`.
- An open that inserts its waiter after `teardown_all` cleared the map waits for the whole
  `HANDSHAKE_TIMEOUT`, which the comment at `proto/mux.rs:227-229` wants to avoid.
- `cmd_tx.send` in an open is not under that timeout: a writer that is stuck holds the
  request up without bound.
- The client's reader awaits a full session queue (`proto/mux.rs:499`), so one user who
  does not read holds up all sessions of the channel and hides its death.
- If only the writing half of a channel breaks, opens fail but `is_closed` stays false,
  and `ensure_mux` keeps handing out the channel until its reading half ends.
- A file with two `mode` lines yields both `-s` and `-c`, or one of them twice, and clap
  or `validate` refuses it, although later lines should override earlier ones
  (`config.rs:602`): `remove_earlier_option` looks for `--mode`. `MergeExact` is stated
  for files that name the mode at most once.
- The listeners accept until the drain is over, although step 1 at `server/mod.rs:74`
  says that new connections are no longer handled. A connection that is accepted behind
  the iterator is not cancelled and can make the drain last for the whole grace period.
- The nonce cache is in memory and keyed to the wall clock: a correction of
  `AUTH_WINDOW` or more, or a restart, voids its guarantee.
- The UDP DNS cache can exceed its cap, and a slow lookup can overwrite a newer answer
  with its own; `DnsSound` has the bounds that hold.
- `parse_http_date` accepts day 31 in every month and converts it to a day of the next.
- A frame that cannot be encoded ends the WebTransport control writer, and is skipped in
  mode A. Nothing queues such a frame today, since the lossy path encodes first.

## Not modelled, and why

- Key derivation, AEAD, HMAC, TLS, certificate pinning, ECH and HPKE are calls into
  libraries. What the crate does with their verdicts is modelled.
- The SOCKS5 and HTTP inbounds parse and copy for one connection each and share no state
  with others; what they call is `Outbound`, whose parts are modelled.
- Byte layouts (header fields, addresses, AUTH payload, padding) are conversions with
  round-trip tests in the crate. Sizes and keys of frames are modelled, fields are not.
- The health endpoint only reads; the disguise pages and QUIC parameters never change.
- Fetching the time and splitting the header's text, quoting in configuration values,
  and the conversion of options to `ServerConfig` and `ClientConfig`.
- The bytes that sessions carry, and the server's per-session queues. `feed_tcp` waits
  on a full one without a bound (`server/hub.rs:291`), as the client's reader does, so a
  target that takes no data stops its mode-A channel; the code promises nothing else,
  and no property asks for it.
- `ClientMux` against the server's loop: each side meets every answer the other may
  give, but the two are not run against each other. Two sessions on both sides of an
  ordered channel are beyond what TLC explores in minutes.
