---------------------------- MODULE FrameChannel ----------------------------
(***************************************************************************)
(* One connection's reliable frame channel, from the AUTH handshake on:    *)
(* the agreement on the frame limit, the decoders that are fed in chunks   *)
(* of any size while the limit and the key change, and the writers that    *)
(* must not meet a frame they cannot encode. "wt" is the WebTransport      *)
(* control stream, "modeA" the HTTP or WebSocket channel.                  *)
(*                                                                         *)
(* Sources: proto/frame.rs, proto/mux.rs (FrameSink, writer task),         *)
(* client/wt.rs, client/fallback.rs, server/wt.rs, server/fallback.rs.     *)
(*                                                                         *)
(* Sizes are counted in units: Floor stands for 16 KiB, Cap for 1 MiB.     *)
(***************************************************************************)
EXTENDS Integers, Sequences, FiniteSets

CONSTANTS
    Floor,       \* MAX_PLAINTEXT
    Cap,         \* MAX_PLAINTEXT_CAP
    HeaderLen,   \* HEADER_LEN, in units
    TagLen,      \* TAG_LEN, in units
    QueueLen,    \* bound: capacity of the queue in front of a writer (128 or 256)
    InFlight     \* bound: frames written and not yet decoded (flow control)

ASSUME FrameAssumption ==
    /\ Floor \in Nat \ {0} /\ Cap \in Nat /\ Floor <= Cap
    /\ HeaderLen \in Nat \ {0} /\ TagLen \in Nat
    /\ QueueLen \in Nat \ {0} /\ InFlight \in Nat \ {0}

VARIABLES
    transport,   \* which of the two channels this is
    max,         \* max_plaintext of each side's configuration
    limit,       \* each side's FrameLimit
    stage,       \* how far each side's handshake is
    queue,       \* sizes of the frames waiting for each side's writer
    writing,     \* is each side's writer task running?
    wire,        \* the frames each side wrote that the other has not decoded
    fed,         \* how much of them has reached the other's decoder
    ended        \* how each side's reader ended

local == <<transport, max>>
channel == <<limit, stage, queue, writing, wire, fed, ended>>
frameVars == <<local, channel>>

Side == {"client", "server"}
Peer(s) == CHOOSE p \in Side : p # s

(* --max-frame-kb is refused outside the protocol's bounds. *)
max_frame_bytes == Floor .. Cap

Frame(type, key, size, value) == [type |-> type, key |-> key, size |-> size, value |-> value]

Larger(a, b) == IF a >= b THEN a ELSE b
Smaller(a, b) == IF a <= b THEN a ELSE b
negotiate(client, server) == Smaller(Larger(Smaller(client, server), Floor), Cap)

FrameInit ==
    /\ transport \in {"wt", "modeA"}
    /\ max \in [Side -> max_frame_bytes]
    /\ limit = [client |-> max["client"], server |-> Floor]
    /\ stage = [client |-> "connect", server |-> "auth"]
    /\ queue = [s \in Side |-> <<>>] /\ writing = [s \in Side |-> TRUE]
    /\ wire = [s \in Side |-> <<>>] /\ fed = [s \in Side |-> 0]
    /\ ended = [s \in Side |-> "no"]

-----------------------------------------------------------------------------
(* FrameEncoder::encode_into: only a payload within the limit is encoded.  *)
Encodable(s, n) == n <= limit[s]
Emit(s, f) == wire' = [wire EXCEPT ![s] = Append(@, f)]

(* FrameDecoder::next_frame on what side s received. The head frame is the *)
(* one at the front of the buffer; the header alone decides its length.    *)
Incoming(s) == wire[Peer(s)]
Buffered(s) == fed[Peer(s)]
Length(f) == HeaderLen + f.size + TagLen
HasHeader(s) == Incoming(s) # <<>> /\ Buffered(s) >= HeaderLen
TooLong(s) == HasHeader(s) /\ Head(Incoming(s)).size + TagLen > limit[s] + TagLen
HasFrame(s) == HasHeader(s) /\ ~TooLong(s) /\ Buffered(s) >= Length(Head(Incoming(s)))
(* raw (only before set_cipher): the payload is handed on undecrypted *)
Raw(s) == s = "server" /\ stage[s] = "auth"
Opens(s) == Raw(s) \/ Head(Incoming(s)).key = "session"
Consumed(s, w) == [w EXCEPT ![Peer(s)] = Tail(@)]
Rest(s) == [fed EXCEPT ![Peer(s)] = @ - Length(Head(Incoming(s)))]
Reading(s) == ended[s] = "no" /\ stage[s] \in {"auth", "reply", "up"}

Ends(s, how) == ended' = [ended EXCEPT ![s] = how] /\ stage' = [stage EXCEPT ![s] = "down"]

-----------------------------------------------------------------------------
(* WtConn::connect, HttpOutbound::connect: the AUTH frame goes out sealed  *)
(* with the static key and advertises the client's maximum. Its payload is *)
(* a few hundred bytes, far below either encoder's limit.                  *)
SendAuth ==
    /\ stage["client"] = "connect" /\ Encodable("client", 1)
    /\ Emit("client", Frame("Auth", "static", 1, max["client"]))
    /\ stage' = [stage EXCEPT !["client"] = "reply"]
    /\ UNCHANGED <<local, limit, queue, writing, fed, ended>>

(* The server reads the AUTH frame raw and verifies it. It switches the    *)
(* decoder to the session key, sets the limit and echoes it in AuthOk,     *)
(* ahead of everything else on the channel.                                *)
Authenticate ==
    /\ stage["server"] = "auth" /\ HasFrame("server") /\ Opens("server")
    /\ LET f == Head(Incoming("server"))
           n == negotiate(f.value, max["server"]) IN
       /\ f.type = "Auth"
       /\ limit' = [limit EXCEPT !["server"] = n]
       /\ wire' = [Consumed("server", wire) EXCEPT
                     !["server"] = Append(@, Frame("AuthOk", "session", 1, n))]
    /\ fed' = Rest("server")
    /\ stage' = [stage EXCEPT !["server"] = "up"]
    /\ UNCHANGED <<local, queue, writing, ended>>

(* The AUTH frame does not verify, or does not come in time: the server    *)
(* drops the connection without a word.                                    *)
Refuse ==
    /\ stage["server"] = "auth"
    /\ Ends("server", "abandoned")
    /\ UNCHANGED <<local, limit, queue, writing, wire, fed>>

\* mutant: the client keeps the maximum it advertised
Adopt_Ignored ==
    /\ stage["client"] = "reply" /\ HasFrame("client") /\ Opens("client")
    /\ Head(Incoming("client")).type = "AuthOk"
    /\ wire' = Consumed("client", wire) /\ fed' = Rest("client")
    /\ stage' = [stage EXCEPT !["client"] = "up"]
    /\ UNCHANGED <<local, limit, queue, writing, ended>>

(* The client adopts the echoed limit, never more than it advertised,      *)
(* before it decodes another frame and before anything is queued.          *)
Adopt ==
    /\ stage["client"] = "reply" /\ HasFrame("client") /\ Opens("client")
    /\ LET f == Head(Incoming("client")) IN
       /\ f.type = "AuthOk"
       /\ limit' = [limit EXCEPT !["client"] = negotiate(f.value, max["client"])]
    /\ wire' = Consumed("client", wire) /\ fed' = Rest("client")
    /\ stage' = [stage EXCEPT !["client"] = "up"]
    /\ UNCHANGED <<local, queue, writing, ended>>

(* HANDSHAKE_TIMEOUT *)
GiveUp ==
    /\ stage["client"] = "reply"
    /\ Ends("client", "abandoned")
    /\ UNCHANGED <<local, limit, queue, writing, wire, fed>>

-----------------------------------------------------------------------------
Room(s) == Len(queue[s]) < QueueLen
Enqueue(s, n) == queue' = [queue EXCEPT ![s] = Append(@, n)]
Sending(s) == stage[s] = "up" /\ writing[s]

(* Everything but UDP data: replies and pings are a few bytes, a pump of a *)
(* TCP session reads at most MAX_PLAINTEXT at a time.                      *)
SendChunk(s) ==
    /\ Sending(s) /\ Room(s)
    /\ Enqueue(s, Floor)
    /\ UNCHANGED <<local, limit, stage, writing, wire, fed, ended>>

(* A UDP payload of n units over WebTransport: it is encoded first, and    *)
(* dropped when that fails. What does not fit a datagram is queued for the *)
(* control stream's writer, which shares the limit.                        *)
\* mutant: the payload is queued without having been encoded
SendUdp_Unchecked(s, n) ==
    /\ transport = "wt" /\ Sending(s)
    /\ s = "server" => n <= Cap
    /\ Room(s) /\ Enqueue(s, n)
    /\ UNCHANGED <<local, limit, stage, writing, wire, fed, ended>>

SendUdp(s, n) ==
    /\ transport = "wt" /\ Sending(s)
    /\ s = "server" => n <= Cap
    /\ Encodable(s, n)
    /\ Room(s) /\ Enqueue(s, n)
    /\ UNCHANGED <<local, limit, stage, writing, wire, fed, ended>>

(* In mode A the payload is queued as it is. *)
SendUdpA(s, n) ==
    /\ transport = "modeA" /\ Sending(s)
    /\ s = "server" => n <= Cap
    /\ Room(s) /\ Enqueue(s, n)
    /\ UNCHANGED <<local, limit, stage, writing, wire, fed, ended>>

(* The writer task takes a frame and encodes it with the session key. *)
Write(s) ==
    /\ Sending(s) /\ queue[s] # <<>> /\ Encodable(s, Head(queue[s]))
    /\ Len(wire[s]) < InFlight
    /\ Emit(s, Frame("Data", "session", Head(queue[s]), 0))
    /\ queue' = [queue EXCEPT ![s] = Tail(@)]
    /\ UNCHANGED <<local, limit, stage, writing, fed, ended>>

(* A frame it cannot encode: mode A's writers skip it, the control         *)
(* stream's writer ends and takes the queue with it.                       *)
WriteFails(s) ==
    /\ Sending(s) /\ queue[s] # <<>> /\ ~Encodable(s, Head(queue[s]))
    /\ IF transport = "modeA"
       THEN queue' = [queue EXCEPT ![s] = Tail(@)] /\ UNCHANGED writing
       ELSE queue' = [queue EXCEPT ![s] = <<>>] /\ writing' = [writing EXCEPT ![s] = FALSE]
    /\ UNCHANGED <<local, limit, stage, wire, fed, ended>>

-----------------------------------------------------------------------------
Pending(s) ==
    LET w == Incoming(s)
        sum[i \in 0 .. Len(w)] == IF i = 0 THEN 0 ELSE sum[i - 1] + Length(w[i])
    IN sum[Len(w)] - Buffered(s)

(* FrameReader::read: next_frame yields nothing, so the next chunk is read *)
(* into the decoder. Chunks ignore frame boundaries.                       *)
Feed(s) ==
    /\ Reading(s) /\ ~TooLong(s) /\ ~HasFrame(s)
    /\ \E n \in 1 .. Pending(s) : fed' = [fed EXCEPT ![Peer(s)] = @ + n]
    /\ UNCHANGED <<local, limit, stage, queue, writing, wire, ended>>

(* A frame of the established channel is decoded. *)
Decode(s) ==
    /\ Reading(s) /\ stage[s] = "up" /\ HasFrame(s) /\ Opens(s)
    /\ wire' = Consumed(s, wire) /\ fed' = Rest(s)
    /\ UNCHANGED <<local, limit, stage, queue, writing, ended>>

(* next_frame fails, on the length or on the key, or the stream ends, at   *)
(* any point. The reader ends, and with it the connection and every        *)
(* session on it.                                                          *)
Refuses(s) == TooLong(s) \/ (HasFrame(s) /\ ~Opens(s))
ReaderEnds(s) ==
    /\ Reading(s) /\ (Refuses(s) \/ ~HasFrame(s))
    /\ Ends(s, CASE Refuses(s) -> "refused"
                 [] ~Refuses(s) /\ Buffered(s) = 0 -> "clean"
                 [] OTHER -> "truncated")
    /\ UNCHANGED <<local, limit, queue, writing, wire, fed>>

Handshake == SendAuth \/ Authenticate \/ Refuse \/ Adopt \/ GiveUp
FrameStep(s) ==
    \/ SendChunk(s) \/ Write(s) \/ WriteFails(s)
    \/ \E n \in 0 .. Cap + 1 : SendUdp(s, n) \/ SendUdpA(s, n)
    \/ Feed(s) \/ Decode(s) \/ ReaderEnds(s)

FrameNext == Handshake \/ \E s \in Side : FrameStep(s)
FrameSpec == FrameInit /\ [][FrameNext]_frameVars

-----------------------------------------------------------------------------
(* Properties. *)

FrameTypeOK ==
    /\ transport \in {"wt", "modeA"} /\ max \in [Side -> max_frame_bytes]
    /\ limit \in [Side -> Floor .. Cap] /\ writing \in [Side -> BOOLEAN]
    /\ stage \in [Side -> {"connect", "auth", "reply", "up", "down"}]
    /\ queue \in [Side -> Seq(0 .. Cap + 1)] /\ fed \in [Side -> Nat]
    /\ ended \in [Side -> {"no", "abandoned", "refused", "clean", "truncated"}]

(* Whatever the two configurations, however the bytes are cut into chunks  *)
(* and wherever the two sides are in the handshake when they arrive, no    *)
(* decoder ever refuses a frame that the other side's encoder let through. *)
(* Two sides that are both up have agreed on one limit, and neither has to *)
(* take more than its configuration allows.                                *)
FramesAccepted ==
    /\ \A s \in Side : ended[s] # "refused" /\ limit[s] <= max[s]
    /\ (\A s \in Side : stage[s] = "up") => limit["client"] = limit["server"]

(* A UDP payload above the negotiated limit is dropped alone: the control  *)
(* stream's writer, which would end on it, never meets one.                *)
OversizeHarmless == \A s \in Side : writing[s]
=============================================================================
