---------------------------- MODULE StartupProofs -----------------------------
(***************************************************************************)
(* What precedes and frames a connection.                                  *)
(*                                                                         *)
(* The two ends of a frame channel agree on one limit, no decoder refuses  *)
(* what the other end's encoder let through, and no writer ends on a frame *)
(* it cannot encode: for all configurations, frame sizes, queue lengths    *)
(* and amounts of data in flight, on both transports.                      *)
(*                                                                         *)
(* The date arithmetic of the certificate dates is the calendar's, for     *)
(* every day from the year 1 on, and the egress policy decides every       *)
(* address as the list of special-purpose blocks does.                     *)
(***************************************************************************)
EXTENDS FrameChannel, Calendar, EgressPolicy, TLAPS, SequenceTheorems

USE SMTT(60)

(* The limit the two configurations lead to. *)
N == negotiate(max["client"], max["server"])

AnyFrame == [type : {"Auth", "AuthOk", "Data"}, key : {"static", "session"},
             size : 0 .. Cap, value : 0 .. Cap]

(* What may be in flight to a side that has the session key. *)
Established == {f \in AnyFrame : /\ f.key = "session" /\ f.size <= N
                                 /\ f.type = "AuthOk" => f.value = N}

HandshakeInv ==
    /\ stage["server"] \in {"auth", "up", "down"}
    /\ stage["client"] \in {"connect", "reply", "up", "down"}
    /\ limit["server"] \in {Floor, N} /\ limit["client"] \in {max["client"], N}
    /\ stage["client"] = "up" => limit["client"] = N
    /\ stage["server"] = "auth" =>
         /\ limit["server"] = Floor /\ wire["server"] = <<>> /\ stage["client"] # "up"
         /\ \/ wire["client"] = <<>>
            \/ /\ wire["client"] = <<Frame("Auth", "static", 1, max["client"])>>
               /\ stage["client"] # "connect"
    /\ stage["server"] = "up" =>
         /\ limit["server"] = N /\ stage["client"] # "connect"
         /\ wire["client"] \in Seq(Established)

QueueInv ==
    \A s \in Side :
        /\ stage[s] \in {"connect", "auth", "reply"} => queue[s] = <<>>
        /\ transport = "wt" => queue[s] \in Seq(0 .. limit[s])

FrameInv ==
    /\ FrameTypeOK
    /\ wire \in [Side -> Seq(AnyFrame)] /\ wire["server"] \in Seq(Established)
    /\ HandshakeInv /\ QueueInv /\ OversizeHarmless
    /\ \A s \in Side : ended[s] # "refused"

-----------------------------------------------------------------------------
LEMMA Peers == Peer("client") = "server" /\ Peer("server") = "client"
  <1>1. \A p \in Side : p # "client" <=> p = "server"
    BY DEF Side
  <1>2. \A p \in Side : p # "server" <=> p = "client"
    BY DEF Side
  <1> QED BY <1>1, <1>2 DEF Peer, Side

(* The agreed limit is one both sides allow, and the client's own reading  *)
(* of the echo is that limit again.                                        *)
LEMMA Agreed ==
    ASSUME max \in [Side -> max_frame_bytes]
    PROVE  /\ N \in Floor .. Cap /\ N <= max["client"] /\ N <= max["server"]
           /\ negotiate(N, max["client"]) = N
           /\ max["client"] \in Floor .. Cap /\ max["server"] \in Floor .. Cap
  <1>1. max["client"] \in Floor .. Cap /\ max["server"] \in Floor .. Cap
    BY DEF max_frame_bytes, Side
  <1> QED BY <1>1, FrameAssumption DEF N, negotiate, Smaller, Larger

LEMMA Taking ==
    ASSUME NEW S, NEW w \in Seq(S), w # <<>>
    PROVE  Head(w) \in S /\ Tail(w) \in Seq(S)
  BY HeadTailProperties

LEMMA Adding ==
    ASSUME NEW S, NEW w \in Seq(S), NEW e \in S
    PROVE  Append(w, e) \in Seq(S)
  BY AppendProperties

LEMMA Single ==
    ASSUME NEW e
    PROVE  Append(<<>>, e) = <<e>> /\ Head(<<e>>) = e /\ Tail(<<e>>) = <<>>
  OBVIOUS

LEMMA FrameInvInit == ASSUME FrameInit PROVE FrameInv
  <1> USE FrameAssumption DEF FrameInit, Side
  <1>1. FrameTypeOK
    BY DEF FrameTypeOK, max_frame_bytes
  <1>2. wire \in [Side -> Seq(AnyFrame)] /\ wire["server"] \in Seq(Established)
    OBVIOUS
  <1>3. HandshakeInv
    BY DEF HandshakeInv
  <1>4. QueueInv
    BY DEF QueueInv
  <1>5. OversizeHarmless
    BY DEF OversizeHarmless
  <1> QED BY <1>1, <1>2, <1>3, <1>4, <1>5 DEF FrameInv

LEMMA Types ==
    ASSUME FrameInv
    PROVE  /\ max \in [Side -> max_frame_bytes]
           /\ limit \in [Side -> Floor .. Cap]
           /\ stage \in [Side -> {"connect", "auth", "reply", "up", "down"}]
           /\ queue \in [Side -> Seq(0 .. Cap + 1)] /\ fed \in [Side -> Nat]
           /\ ended \in [Side -> {"no", "abandoned", "refused", "clean", "truncated"}]
           /\ wire \in [Side -> Seq(AnyFrame)] /\ wire["server"] \in Seq(Established)
           /\ HandshakeInv /\ QueueInv /\ OversizeHarmless /\ transport \in {"wt", "modeA"}
  BY ZenonT(60) DEF FrameInv, FrameTypeOK

(* No reader that is still reading meets a frame it has to refuse. *)
LEMMA NothingToRefuse ==
    ASSUME FrameInv, NEW s \in Side, Reading(s)
    PROVE  ~Refuses(s)
  <1>1. /\ max \in [Side -> max_frame_bytes] /\ HandshakeInv
        /\ limit["client"] \in Nat /\ limit["server"] \in Nat
        /\ wire["server"] \in Seq(Established)
    BY Types, FrameAssumption DEF Side
  <1>2. N \in Nat /\ N <= max["client"]
    BY <1>1, Agreed, FrameAssumption
  <1>3. ASSUME Incoming(s) # <<>>
        PROVE  /\ Head(Incoming(s)).size <= limit[s] /\ Opens(s)
               /\ Head(Incoming(s)).size \in Nat /\ limit[s] \in Nat
    <2>1. CASE s = "client"
      <3>1. Head(Incoming(s)) \in Established
        BY <1>1, <1>3, <2>1, Peers, Taking DEF Incoming
      <3> QED BY <1>1, <1>2, <2>1, <3>1 DEF HandshakeInv, Established, AnyFrame, Opens
    <2>2. CASE s = "server" /\ stage["server"] = "auth"
      <3>1. Head(Incoming(s)).size = 1
        BY <1>1, <1>3, <2>2, Peers DEF HandshakeInv, Incoming, Frame
      <3> QED BY <1>1, <2>2, <3>1, FrameAssumption DEF HandshakeInv, Opens, Raw
    <2>3. CASE s = "server" /\ stage["server"] # "auth"
      <3>1. stage["server"] = "up" /\ limit[s] = N /\ wire["client"] \in Seq(Established)
        BY <1>1, <2>3 DEF HandshakeInv, Reading
      <3>2. Head(Incoming(s)) \in Established
        BY <1>3, <2>3, <3>1, Peers, Taking DEF Incoming
      <3> QED BY <1>2, <3>1, <3>2 DEF Established, AnyFrame, Opens
    <2> QED BY <2>1, <2>2, <2>3 DEF Side
  <1> QED BY <1>3, FrameAssumption DEF Refuses, TooLong, HasHeader, HasFrame

-----------------------------------------------------------------------------
LEMMA SameAgreement ==
    ASSUME UNCHANGED local PROVE N' = N /\ Established' = Established /\ max' = max
  BY DEF local, N, Established, negotiate

LEMMA Combine ==
    ASSUME FrameInv, FrameTypeOK', HandshakeInv', QueueInv', writing' = writing,
           wire' \in [Side -> Seq(AnyFrame)], wire'["server"] \in Seq(Established)',
           \A s \in Side : ended'[s] # "refused"
    PROVE  FrameInv'
  <1>1. OversizeHarmless'
    BY ZenonT(60) DEF FrameInv, OversizeHarmless
  <1> QED BY <1>1, ZenonT(60) DEF FrameInv, AnyFrame

(* A side that is up changes its own queue. *)
LEMMA QueueStep ==
    ASSUME FrameInv, NEW s \in Side, stage[s] = "up",
           \A r \in Side \ {s} : queue'[r] = queue[r],
           transport = "wt" => queue'[s] \in Seq(0 .. limit[s]),
           transport' = transport, limit' = limit, stage' = stage
    PROVE  QueueInv'
  <1>1. QueueInv
    BY Types
  <1>2. ASSUME NEW r \in Side
        PROVE  /\ stage[r] \in {"connect", "auth", "reply"} => queue'[r] = <<>>
               /\ transport = "wt" => queue'[r] \in Seq(0 .. limit[r])
    <2>1. CASE r = s
      BY <1>1, <2>1
    <2>2. CASE r # s
      BY <1>1, <2>2 DEF QueueInv
    <2> QED BY <2>1, <2>2
  <1> QED BY <1>2, ZenonT(60) DEF QueueInv

(* The queues stay while a handshake goes on or a side ends. *)
LEMMA QueueStays ==
    ASSUME FrameInv, transport' = transport, limit' = limit, queue' = queue,
           \A s \in Side : stage'[s] \in {"connect", "auth", "reply"}
                           => stage[s] \in {"connect", "auth", "reply"}
    PROVE  QueueInv'
  <1>1. QueueInv
    BY Types
  <1> QED BY <1>1, ZenonT(60) DEF QueueInv

(* What a side hands to its queue. *)
LEMMA Enqueues ==
    ASSUME FrameInv, NEW s \in Side, NEW n \in 0 .. Cap + 1,
           transport = "wt" => n <= limit[s],
           stage[s] = "up", Enqueue(s, n),
           UNCHANGED <<local, limit, stage, writing, wire, fed, ended>>
    PROVE  FrameInv'
  <1> USE Types
  <1>1. queue' \in [Side -> Seq(0 .. Cap + 1)]
    BY Adding DEF Enqueue
  <1>2. FrameTypeOK'
    BY <1>1 DEF FrameTypeOK, FrameInv, local, max_frame_bytes
  <1>3. HandshakeInv'
    BY DEF HandshakeInv, N, negotiate, Established, local
  <1>4. transport = "wt" => Append(queue[s], n) \in Seq(0 .. limit[s])
    <2>1. ASSUME transport = "wt"
          PROVE  queue[s] \in Seq(0 .. limit[s]) /\ n \in 0 .. limit[s]
      BY <2>1, FrameAssumption DEF QueueInv
    <2> QED BY <2>1, Adding
  <1>5. QueueInv'
    <2>1. queue'[s] = Append(queue[s], n) /\ \A r \in Side \ {s} : queue'[r] = queue[r]
      BY DEF Enqueue
    <2>2. transport' = transport /\ limit' = limit /\ stage' = stage
      BY DEF local
    <2> QED BY <1>4, <2>1, <2>2, QueueStep, ZenonT(60)
  <1> QED BY <1>2, <1>3, <1>5, SameAgreement, Combine DEF FrameInv

LEMMA Lengths == \A f \in AnyFrame : Length(f) \in Nat
  BY FrameAssumption DEF Length, AnyFrame

(* What a reader takes off the wire. *)
LEMMA Takes ==
    ASSUME FrameInv, NEW s \in Side, HasFrame(s)
    PROVE  /\ Consumed(s, wire) \in [Side -> Seq(AnyFrame)]
           /\ Consumed(s, wire)["server"] \in Seq(Established)
           /\ Rest(s) \in [Side -> Nat]
  <1> USE Types, Peers
  <1>1. Incoming(s) # <<>> /\ Incoming(s) = wire[Peer(s)] /\ Peer(s) \in Side
    BY DEF HasFrame, HasHeader, Incoming, Side
  <1>2. Tail(wire[Peer(s)]) \in Seq(AnyFrame) /\ Head(Incoming(s)) \in AnyFrame
    BY <1>1, Taking
  <1>3. Peer(s) = "server" => Tail(wire["server"]) \in Seq(Established)
    BY <1>1, Taking
  <1>4. Buffered(s) - Length(Head(Incoming(s))) \in Nat /\ Buffered(s) = fed[Peer(s)]
    <2>1. Length(Head(Incoming(s))) \in Nat
      BY <1>2, Lengths, ZenonT(60)
    <2> QED BY <1>1, <2>1 DEF HasFrame, Buffered
  <1> QED BY <1>1, <1>2, <1>3, <1>4 DEF Consumed, Rest, Side

LEMMA EndsKeeps ==
    ASSUME FrameInv, NEW s \in Side, NEW how \in {"abandoned", "clean", "truncated"},
           Ends(s, how), UNCHANGED <<local, limit, queue, writing, wire, fed>>
    PROVE  FrameInv'
  <1> USE Types, SameAgreement
  <1>1. FrameTypeOK' /\ \A r \in Side : ended'[r] # "refused"
    BY DEF FrameTypeOK, FrameInv, Ends, local, max_frame_bytes
  <1>2. HandshakeInv'
    BY DEF HandshakeInv, Ends, Side
  <1>3. QueueInv'
    BY QueueStays DEF Ends, local
  <1> QED BY <1>1, <1>2, <1>3, Combine

LEMMA HandshakeKeeps == ASSUME FrameInv, Handshake PROVE FrameInv'
  <1> USE Types, SameAgreement, FrameAssumption
  <1>1. CASE SendAuth
    <2>1. Frame("Auth", "static", 1, max["client"]) \in AnyFrame
      BY Agreed DEF Frame, AnyFrame
    <2>2. /\ wire' = [wire EXCEPT !["client"] = Append(@, Frame("Auth", "static", 1, max["client"]))]
          /\ stage' = [stage EXCEPT !["client"] = "reply"] /\ stage["client"] = "connect"
          /\ UNCHANGED <<local, limit, queue, writing, fed, ended>>
      BY <1>1 DEF SendAuth, Emit
    <2>3. wire' \in [Side -> Seq(AnyFrame)] /\ wire'["server"] = wire["server"]
      BY <2>1, <2>2, Adding DEF Side
    <2>4. FrameTypeOK'
      BY <2>2 DEF FrameTypeOK, FrameInv, local, max_frame_bytes, Side
    <2>5. stage["server"] = "auth" => wire'["client"] = <<Frame("Auth", "static", 1, max["client"])>>
      <3>1. stage["server"] = "auth" => wire["client"] = <<>>
        BY <2>2 DEF HandshakeInv
      <3>2. wire'["client"] = Append(wire["client"], Frame("Auth", "static", 1, max["client"]))
        BY <2>2 DEF Side
      <3> QED BY <3>1, <3>2, Single, ZenonT(60)
    <2>6. HandshakeInv'
      BY <2>2, <2>3, <2>5 DEF HandshakeInv, Side
    <2>7. QueueInv'
      BY <2>2, QueueStays DEF Side, local
    <2> QED BY <2>2, <2>3, <2>4, <2>6, <2>7, Combine DEF FrameInv
  <1>2. CASE Authenticate
    <2> DEFINE f == Head(wire["client"])
               ok == Frame("AuthOk", "session", 1, N)
    <2>1. /\ stage["server"] = "auth" /\ wire["client"] # <<>> /\ Incoming("server") = wire["client"]
          /\ wire["server"] = <<>>
      BY <1>2, Peers DEF Authenticate, HasFrame, HasHeader, Incoming, HandshakeInv
    <2>2. f.value = max["client"] /\ Tail(wire["client"]) = <<>>
      <3>1. wire["client"] = <<Frame("Auth", "static", 1, max["client"])>>
        BY <2>1 DEF HandshakeInv
      <3> QED BY <3>1, Single DEF Frame
    <2> DEFINE rest == Consumed("server", wire)
    <2>3. /\ rest \in [Side -> Seq(AnyFrame)] /\ rest["server"] = wire["server"]
          /\ rest["client"] = <<>>
      <3>1. rest = [wire EXCEPT !["client"] = Tail(wire["client"])]
        BY Peers, ZenonT(60) DEF Consumed
      <3>2. rest = [wire EXCEPT !["client"] = <<>>]
        BY <2>2, <3>1, ZenonT(60)
      <3>3. wire \in [Side -> Seq(AnyFrame)] /\ <<>> \in Seq(AnyFrame)
        OBVIOUS
      <3> HIDE DEF rest
      <3> QED BY <3>2, <3>3 DEF Side
    <2>4. /\ limit' = [limit EXCEPT !["server"] = N]
          /\ wire' = [rest EXCEPT !["server"] = Append(rest["server"], ok)]
          /\ stage' = [stage EXCEPT !["server"] = "up"] /\ fed' = Rest("server")
          /\ UNCHANGED <<local, queue, writing, ended>>
      <3>1. negotiate(f.value, max["server"]) = N
        BY <2>2 DEF N
      <3> QED BY <1>2, <2>1, <3>1, ZenonT(60) DEF Authenticate
    <2>5. wire' \in [Side -> Seq(AnyFrame)] /\ wire'["server"] \in Seq(Established)
          /\ wire'["client"] = <<>>
      <3>1. ok \in Established /\ ok \in AnyFrame
        BY Agreed DEF Established, AnyFrame, Frame
      <3> HIDE DEF ok, rest
      <3>2. Append(rest["server"], ok) \in Seq(AnyFrame)
        BY <2>3, <3>1, Adding DEF Side
      <3>3. Append(rest["server"], ok) \in Seq(Established)
        BY <2>3, <3>1, Adding
      <3> QED BY <2>3, <2>4, <3>2, <3>3 DEF Side
    <2>6. FrameTypeOK'
      <3>1. fed' \in [Side -> Nat]
        BY <1>2, <2>4, Takes DEF Authenticate, Side
      <3> QED BY <2>4, <3>1, Agreed DEF FrameTypeOK, FrameInv, local, max_frame_bytes, Side
    <2>7. HandshakeInv'
      BY <2>1, <2>4, <2>5 DEF HandshakeInv, Side
    <2>8. QueueInv'
      BY <2>1, <2>4 DEF QueueInv, Side, local
    <2> QED BY <2>4, <2>5, <2>6, <2>7, <2>8, Combine DEF FrameInv
  <1>3. CASE Adopt
    <2> DEFINE f == Head(wire["server"])
    <2>1. /\ stage["client"] = "reply" /\ HasFrame("client") /\ f.type = "AuthOk"
          /\ wire["server"] # <<>> /\ Incoming("client") = wire["server"]
      BY <1>3, Peers DEF Adopt, HasFrame, HasHeader, Incoming
    <2>2. f.value = N
      BY <2>1, Taking DEF Established
    <2>3. /\ limit' = [limit EXCEPT !["client"] = N]
          /\ wire' = Consumed("client", wire) /\ fed' = Rest("client")
          /\ stage' = [stage EXCEPT !["client"] = "up"]
          /\ UNCHANGED <<local, queue, writing, ended>>
      <3>1. negotiate(f.value, max["client"]) = N
        BY <2>2, Agreed
      <3> QED BY <1>3, <2>1, <3>1, ZenonT(60) DEF Adopt
    <2>4. /\ wire' \in [Side -> Seq(AnyFrame)] /\ wire'["server"] \in Seq(Established)
          /\ fed' \in [Side -> Nat] /\ wire'["client"] = wire["client"]
      BY <2>1, <2>3, Takes, Peers DEF Side, Consumed
    <2>5. FrameTypeOK'
      BY <2>3, <2>4, Agreed DEF FrameTypeOK, FrameInv, local, max_frame_bytes, Side
    <2>6. HandshakeInv'
      BY <2>1, <2>3, <2>4 DEF HandshakeInv, Side
    <2>7. QueueInv'
      BY <2>1, <2>3 DEF QueueInv, Side, local
    <2> QED BY <2>3, <2>4, <2>5, <2>6, <2>7, Combine DEF FrameInv
  <1>4. CASE Refuse
    BY <1>4, EndsKeeps DEF Refuse, Side
  <1>5. CASE GiveUp
    BY <1>5, EndsKeeps DEF GiveUp, Side
  <1> QED BY <1>1, <1>2, <1>3, <1>4, <1>5 DEF Handshake

LEMMA StepKeeps == ASSUME FrameInv, NEW s \in Side, FrameStep(s) PROVE FrameInv'
  <1> USE Types, SameAgreement, FrameAssumption
  <1>1. CASE SendChunk(s)
    <2>1. Floor \in 0 .. Cap + 1 /\ Floor <= limit[s]
      OBVIOUS
    <2> QED BY <1>1, <2>1, Enqueues DEF SendChunk, Sending
  <1>2. ASSUME NEW n \in 0 .. Cap + 1, SendUdp(s, n) \/ SendUdpA(s, n) PROVE FrameInv'
    <2>1. /\ transport = "wt" => n <= limit[s]
          /\ stage[s] = "up" /\ Enqueue(s, n)
          /\ UNCHANGED <<local, limit, stage, writing, wire, fed, ended>>
      BY <1>2 DEF SendUdp, SendUdpA, Sending, Encodable
    <2> QED BY <2>1, Enqueues
  <1>3. CASE Write(s)
    <2> DEFINE f == Frame("Data", "session", Head(queue[s]), 0)
    <2>1. /\ stage[s] = "up" /\ queue[s] # <<>> /\ Head(queue[s]) <= limit[s]
          /\ wire' = [wire EXCEPT ![s] = Append(wire[s], f)]
          /\ queue' = [queue EXCEPT ![s] = Tail(queue[s])]
          /\ UNCHANGED <<local, limit, stage, writing, fed, ended>>
      BY <1>3 DEF Write, Sending, Encodable, Emit
    <2>2. Head(queue[s]) \in 0 .. Cap + 1 /\ Tail(queue[s]) \in Seq(0 .. Cap + 1)
      BY <2>1, Taking
    <2>3. limit[s] = N
      BY <2>1 DEF HandshakeInv, Side
    <2>4. f \in Established /\ f \in AnyFrame
      BY <2>1, <2>2, <2>3, Agreed DEF Established, AnyFrame, Frame
    <2>5. wire' \in [Side -> Seq(AnyFrame)] /\ wire'["server"] \in Seq(Established)
      BY <2>1, <2>4, Adding DEF Side
    <2>6. FrameTypeOK'
      BY <2>1, <2>2 DEF FrameTypeOK, FrameInv, local, max_frame_bytes, Side
    <2>7. HandshakeInv'
      <3>1. stage["server"] = "auth" => wire' = wire
        BY <2>1 DEF HandshakeInv, Side
      <3>2. stage["server"] = "up" => wire'["client"] \in Seq(Established)
        BY <2>1, <2>4, Adding DEF HandshakeInv, Side
      <3> QED BY <2>1, <3>1, <3>2 DEF HandshakeInv, Side
    <2>8. QueueInv'
      <3>1. transport = "wt" => Tail(queue[s]) \in Seq(0 .. limit[s])
        BY <2>1, Taking DEF QueueInv
      <3>2. queue'[s] = Tail(queue[s]) /\ \A r \in Side \ {s} : queue'[r] = queue[r]
        BY <2>1
      <3>3. transport' = transport /\ limit' = limit /\ stage' = stage
        BY <2>1 DEF local
      <3> QED BY <2>1, <3>1, <3>2, <3>3, QueueStep, ZenonT(60)
    <2> QED BY <2>1, <2>5, <2>6, <2>7, <2>8, Combine DEF FrameInv
  <1>4. CASE WriteFails(s)
    <2>1. transport # "wt"
      BY <1>4, Taking DEF WriteFails, Encodable, QueueInv
    <2>2. /\ queue' = [queue EXCEPT ![s] = Tail(queue[s])] /\ queue[s] # <<>>
          /\ stage[s] = "up" /\ UNCHANGED writing
          /\ UNCHANGED <<local, limit, stage, wire, fed, ended>>
      BY <1>4, <2>1 DEF WriteFails, Sending
    <2>3. queue' \in [Side -> Seq(0 .. Cap + 1)]
      BY <2>2, Taking
    <2>4. FrameTypeOK'
      BY <2>2, <2>3 DEF FrameTypeOK, FrameInv, local, max_frame_bytes
    <2>5. QueueInv'
      <3>1. queue'[s] = Tail(queue[s]) /\ \A r \in Side \ {s} : queue'[r] = queue[r]
        BY <2>2
      <3>2. transport' = transport /\ limit' = limit /\ stage' = stage
        BY <2>2 DEF local
      <3> QED BY <2>1, <2>2, <3>1, <3>2, QueueStep, ZenonT(60)
    <2>6. HandshakeInv'
      BY <2>2 DEF HandshakeInv
    <2> QED BY <2>2, <2>4, <2>5, <2>6, Combine DEF FrameInv
  <1>5. CASE Feed(s)
    <2>1. /\ fed' \in [Side -> Nat]
          /\ UNCHANGED <<local, limit, stage, queue, writing, wire, ended>>
      BY <1>5, Peers DEF Feed, Side
    <2>2. FrameTypeOK'
      BY <2>1 DEF FrameTypeOK, FrameInv, local, max_frame_bytes
    <2>3. HandshakeInv'
      BY <2>1 DEF HandshakeInv
    <2>4. QueueInv'
      BY <2>1, QueueStays DEF local
    <2> QED BY <2>1, <2>2, <2>3, <2>4, Combine DEF FrameInv
  <1>6. CASE Decode(s)
    <2>1. /\ HasFrame(s) /\ stage[s] = "up" /\ wire' = Consumed(s, wire) /\ fed' = Rest(s)
          /\ UNCHANGED <<local, limit, stage, queue, writing, ended>>
      BY <1>6 DEF Decode
    <2>2. /\ wire' \in [Side -> Seq(AnyFrame)] /\ wire'["server"] \in Seq(Established)
          /\ fed' \in [Side -> Nat]
      BY <2>1, Takes
    <2>3. stage["server"] = "up" => wire'["client"] \in Seq(Established)
      <3>1. wire[Peer(s)] # <<>>
        BY <2>1 DEF HasFrame, HasHeader, Incoming
      <3> QED BY <2>1, <3>1, Taking, Peers DEF HandshakeInv, Consumed, Side
    <2>4. stage["server"] = "auth" => FALSE
      <3>1. wire[Peer(s)] # <<>>
        BY <2>1 DEF HasFrame, HasHeader, Incoming
      <3> QED BY <2>1, <3>1, Peers DEF HandshakeInv, Side
    <2>5. FrameTypeOK'
      BY <2>1, <2>2 DEF FrameTypeOK, FrameInv, local, max_frame_bytes
    <2>6. HandshakeInv'
      BY <2>1, <2>3, <2>4 DEF HandshakeInv
    <2>7. QueueInv'
      BY <2>1, QueueStays DEF local
    <2> QED BY <2>1, <2>2, <2>5, <2>6, <2>7, Combine DEF FrameInv
  <1>7. CASE ReaderEnds(s)
    <2>1. ~Refuses(s)
      BY <1>7, NothingToRefuse DEF ReaderEnds
    <2>2. PICK how \in {"abandoned", "clean", "truncated"} : Ends(s, how)
      BY <1>7, <2>1 DEF ReaderEnds
    <2> QED BY <1>7, <2>2, EndsKeeps DEF ReaderEnds
  <1> QED BY <1>1, <1>2, <1>3, <1>4, <1>5, <1>6, <1>7 DEF FrameStep

LEMMA FrameStutters == ASSUME FrameInv, UNCHANGED frameVars PROVE FrameInv'
  <1>1. /\ UNCHANGED <<local, limit, stage, queue, writing, wire, fed, ended>>
        /\ transport' = transport
    BY DEF frameVars, channel, local
  <1>2. FrameTypeOK'
    BY <1>1 DEF FrameTypeOK, FrameInv, local, max_frame_bytes
  <1>3. HandshakeInv'
    BY <1>1, Types, SameAgreement DEF HandshakeInv
  <1>4. QueueInv'
    BY <1>1, QueueStays
  <1> QED BY <1>1, <1>2, <1>3, <1>4, SameAgreement, Combine DEF FrameInv

(* The agreement on the limit, on what is in flight to whom, and on what   *)
(* is queued, from the first byte of the AUTH frame to the end.            *)
THEOREM FrameInvariant == FrameSpec => []FrameInv
  <1>1. FrameInv /\ [FrameNext]_frameVars => FrameInv'
    BY HandshakeKeeps, StepKeeps, FrameStutters DEF FrameNext
  <1> QED BY FrameInvInit, <1>1, PTL DEF FrameSpec

(* No decoder refuses a frame of the other side, and two sides that are up *)
(* use the same limit, one that both configurations allow.                 *)
THEOREM NoFrameRefused == FrameSpec => []FramesAccepted
  <1>1. ASSUME FrameInv PROVE FramesAccepted
    <2>1. \A s \in Side : ended[s] # "refused"
      BY <1>1 DEF FrameInv
    <2>2. \A s \in Side : limit[s] <= max[s]
      BY <1>1, Types, Agreed, FrameAssumption DEF HandshakeInv, Side
    <2>3. (\A s \in Side : stage[s] = "up") => limit["client"] = limit["server"]
      BY <1>1, Types DEF HandshakeInv, Side
    <2> QED BY <2>1, <2>2, <2>3 DEF FramesAccepted
  <1> QED BY FrameInvariant, <1>1, PTL

(* The control stream's writer never ends on a frame it cannot encode. *)
THEOREM WritersSurvive == FrameSpec => []OversizeHarmless
  <1>1. FrameInv => OversizeHarmless
    BY DEF FrameInv
  <1> QED BY FrameInvariant, <1>1, PTL
-----------------------------------------------------------------------------
(* The calendar. Days before 1 March of a year, by the rules for leap      *)
(* years, from an origin of their own.                                     *)
March(y) == 365 * y + y \div 4 - y \div 100 + y \div 400

(* Counting 400-year eras apart changes nothing. *)
LEMMA EraFree ==
    ASSUME NEW y \in Nat
    PROVE  LET era == y \div 400
               yoe == y - era * 400
           IN  era * 146097 + yoe * 365 + yoe \div 4 - yoe \div 100 = March(y)
BY DEF March

(* A year is a day longer exactly when it is a leap year. *)
LEMMA LeapStep ==
    ASSUME NEW y \in Nat
    PROVE  March(y + 1) = March(y) + (IF Leap(y + 1) THEN 366 ELSE 365)
BY DEF March, Leap

(* Where a month begins in a year that begins in March. *)
Doy(m) == (153 * ((m + 9) % 12) + 2) \div 5

(* Where in a year that begins in March each month begins. *)
LEMMA DoyTable ==
    /\ Doy(3) = 0 /\ Doy(4) = 31 /\ Doy(5) = 61 /\ Doy(6) = 92 /\ Doy(7) = 122
    /\ Doy(8) = 153 /\ Doy(9) = 184 /\ Doy(10) = 214 /\ Doy(11) = 245 /\ Doy(12) = 275
    /\ Doy(1) = 306 /\ Doy(2) = 337
BY DEF Doy

(* days without its eras: the March years before, and the days in this one. *)
LEMMA DaysAre ==
    ASSUME NEW y \in Nat \ {0}, NEW m \in 1 .. 12, NEW d \in Nat
    PROVE  /\ m <= 2 => days(y, m, d) = March(y - 1) + Doy(m) + d - 719469
           /\ m > 2 => days(y, m, d) = March(y) + Doy(m) + d - 719469
<1> DEFINE z == IF m <= 2 THEN y - 1 ELSE y
<1>z. z \in Nat
    OBVIOUS
<1>1. days(y, m, d) = (z \div 400) * 146097 + ((z - (z \div 400) * 400) * 365
                        + (z - (z \div 400) * 400) \div 4 - (z - (z \div 400) * 400) \div 100
                        + (Doy(m) + d - 1)) - 719468
    BY <1>z DEF days, Doy
<1>2. (z \div 400) * 146097 + (z - (z \div 400) * 400) * 365
        + (z - (z \div 400) * 400) \div 4 - (z - (z \div 400) * 400) \div 100 = March(z)
    BY <1>z, EraFree
<1>3. March(z) \in Int /\ Doy(m) \in Int
    BY <1>z DEF March, Doy
<1> HIDE DEF z
<1>4. days(y, m, d) = March(z) + Doy(m) + d - 719469
    BY <1>z, <1>1, <1>2, <1>3
<1> QED BY <1>4 DEF z

(* The first of the next month is a month's length after the first. *)
LEMMA MonthStep ==
    ASSUME NEW y \in Nat \ {0}, NEW m \in 1 .. 12
    PROVE  /\ m < 12 => days(y, m + 1, 1) = days(y, m, 1) + MonthLength(y, m)
           /\ m = 12 => days(y + 1, 1, 1) = days(y, m, 1) + MonthLength(y, m)
<1>t. March(y) \in Int /\ March(y - 1) \in Int
    BY DEF March
<1>1. March(y) = March(y - 1) + (IF Leap(y) THEN 366 ELSE 365)
    BY LeapStep
<1>2. CASE m = 2
  <2>1. days(y, 3, 1) = March(y) + Doy(3) + 1 - 719469 /\ days(y, 2, 1) = March(y - 1) + Doy(2) + 1 - 719469
      BY DaysAre
  <2> QED BY <1>1, <1>2, <1>t, <2>1, DoyTable DEF MonthLength
<1>3. CASE m = 1
  <2>1. days(y, 2, 1) = March(y - 1) + Doy(2) + 1 - 719469 /\ days(y, 1, 1) = March(y - 1) + Doy(1) + 1 - 719469
      BY DaysAre
  <2> QED BY <1>3, <1>t, <2>1, DoyTable DEF MonthLength
<1>4. CASE m = 12
  <2>1. days(y + 1, 1, 1) = March(y) + Doy(1) + 1 - 719469 /\ days(y, 12, 1) = March(y) + Doy(12) + 1 - 719469
      BY DaysAre
  <2> QED BY <1>4, <1>t, <2>1, DoyTable DEF MonthLength
<1>5. CASE m \in 3 .. 11
  <2>1. days(y, m + 1, 1) = March(y) + Doy(m + 1) + 1 - 719469 /\ days(y, m, 1) = March(y) + Doy(m) + 1 - 719469
      BY <1>5, DaysAre
  <2>2. Doy(m + 1) = Doy(m) + MonthLength(y, m) /\ Doy(m) \in Int /\ MonthLength(y, m) \in Int
      BY <1>5, DoyTable DEF MonthLength
  <2> QED BY <1>5, <1>t, <2>1, <2>2
<1> QED BY <1>2, <1>3, <1>4, <1>5

(* The walk agrees with the code on the first of every month. *)
CalendarInv ==
    /\ year \in Nat \ {0} /\ mon \in 1 .. 12
    /\ first_day = days(year, mon, 1)

LEMMA CalendarInitially == CalendarInit => CalendarInv
BY DaysAre, DoyTable DEF CalendarInit, CalendarInv, March

LEMMA CalendarInductive == CalendarInv /\ [NextMonth]_calendarVars => CalendarInv'
<1> SUFFICES ASSUME CalendarInv, [NextMonth]_calendarVars PROVE CalendarInv'
    OBVIOUS
<1>1. CASE NextMonth
  <2>1. CASE mon = 12
      BY <1>1, <2>1, MonthStep DEF CalendarInv, NextMonth
  <2>2. CASE mon < 12
      BY <1>1, <2>2, MonthStep DEF CalendarInv, NextMonth
  <2> QED BY <2>1, <2>2 DEF CalendarInv
<1>2. CASE UNCHANGED calendarVars
    BY <1>2 DEF CalendarInv, calendarVars
<1> QED BY <1>1, <1>2

(* parse_http_date converts every date of every year, and not only those   *)
(* up to the last one it accepts, to the right number of days.             *)
THEOREM DatesAreExact == CalendarSpec => []DateExact
<1>1. CalendarInv => DateExact
  <2> SUFFICES ASSUME CalendarInv PROVE DateExact
      OBVIOUS
  <2>t. year \in Nat \ {0} /\ mon \in 1 .. 12 /\ first_day = days(year, mon, 1)
      BY DEF CalendarInv
  <2>1. year = 1970 /\ mon = 1 => first_day = 0
      BY <2>t, DaysAre, DoyTable DEF March
  <2>2. ASSUME NEW d \in 1 .. MonthLength(year, mon)
        PROVE  /\ year <= 9999 => Accepted(year, d, 23, 59, 60)
               /\ days(year, mon, d) = first_day + d - 1
    <3>1. d \in 1 .. 31
        BY <2>t DEF MonthLength
    <3>2. year <= 9999 => Accepted(year, d, 23, 59, 60)
        BY <2>t, <3>1 DEF Accepted
    <3>3. March(year) \in Int /\ March(year - 1) \in Int /\ Doy(mon) \in Int
        BY <2>t DEF March, Doy
    <3>4. days(year, mon, d) = first_day + d - 1
        BY <2>t, <3>1, <3>3, DaysAre
    <3> QED BY <3>2, <3>4
  <2> QED BY <2>1, <2>2 DEF DateExact
<1> QED BY <1>1, CalendarInitially, CalendarInductive, PTL DEF CalendarSpec

-----------------------------------------------------------------------------
(* The egress policy: octet and segment tests against leading bits.        *)
(* All IPv4 addresses, and all IPv6 addresses. *)
V4 == [1 .. 4 -> Octet]
V6 == [1 .. 8 -> Segment]

(* Four parts of eight bits, eight parts of sixteen. *)
LEMMA Widths ==
    /\ \A o \in V4 : Len(o) = 4 /\ Width(o) = 8
    /\ \A s \in V6 : Len(s) = 8 /\ Width(s) = 16
BY DEF V4, V6, Width

(* Segments as numbers, and the literals of the lists as segments. *)
LEMMA SegmentIsNat ==
    /\ \A x \in Segment : x \in Nat /\ x <= 65535
    /\ {0, 16, 32, 100, 256, 3512, 8193, 8194, 65435, 65535} \subseteq Segment
BY DEF Segment

(* The literals of the IPv4 list as octets. *)
LEMMA OctetLiterals ==
    {0, 2, 10, 51, 100, 113, 127, 168, 169, 172, 192, 198, 203, 254} \subseteq Octet
BY DEF Octet

(* A part that the prefix covers has to be the prefix's. *)
LEMMA Whole ==
    /\ \A o \in V4, i \in 1 .. 4, p \in Octet, n \in Nat :
          n >= i * 8 => (Agree(o, i, p, n) <=> o[i] = p)
    /\ \A s \in V6, i \in 1 .. 8, p \in Segment, n \in Nat :
          n >= i * 16 => (Agree(s, i, p, n) <=> s[i] = p)
<1>1. Pow2[1] = 1
    BY DEF Pow2
<1>2. ASSUME NEW o \in V4, NEW i \in 1 .. 4, NEW p \in Octet, NEW n \in Nat, n >= i * 8
      PROVE  Agree(o, i, p, n) <=> o[i] = p
  <2>1. Least(n - (i - 1) * 8, 8) = 8
      BY <1>2 DEF Least
  <2>2. Agree(o, i, p, n) <=> o[i] \div 1 = p \div 1
      BY <1>1, <2>1, Widths DEF Agree
  <2>3. o[i] \in Nat /\ p \in Nat
      BY DEF V4, Octet
  <2> QED BY <2>2, <2>3
<1>3. ASSUME NEW s \in V6, NEW i \in 1 .. 8, NEW p \in Segment, NEW n \in Nat, n >= i * 16
      PROVE  Agree(s, i, p, n) <=> s[i] = p
  <2>1. Least(n - (i - 1) * 16, 16) = 16
      BY <1>3 DEF Least
  <2>w. Width(s) = 16
      BY Widths
  <2>l. Pow2[Width(s) - Least(n - (i - 1) * Width(s), Width(s)) + 1] = 1
      BY <1>1, <2>1, <2>w
  <2>2. Agree(s, i, p, n) <=> s[i] \div 1 = p \div 1
      BY <2>l DEF Agree
  <2>s. s[i] \in Segment
      BY DEF V6
  <2>3. s[i] \in Nat /\ p \in Nat
      BY <2>s, SegmentIsNat
  <2> QED BY <2>2, <2>3
<1> QED BY <1>2, <1>3

(* The same for the prefix lengths of the IPv4 blocks. *)
LEMMA Whole4 ==
    ASSUME NEW o \in V4, NEW p \in Octet
    PROVE  /\ \A n \in {8, 10, 12, 15, 16, 24} : Agree(o, 1, p, n) <=> o[1] = p
           /\ \A n \in {16, 24} : Agree(o, 2, p, n) <=> o[2] = p
           /\ Agree(o, 3, p, 24) <=> o[3] = p
BY Whole

(* The same for the prefix lengths of the IPv6 blocks and carriers. *)
LEMMA Whole6 ==
    ASSUME NEW s \in V6, NEW p \in Segment
    PROVE  /\ \A n \in {16, 28, 32, 64, 96} : Agree(s, 1, p, n) <=> s[1] = p
           /\ \A n \in {32, 64, 96} : Agree(s, 2, p, n) <=> s[2] = p
           /\ \A n \in {64, 96} : Agree(s, 3, p, n) <=> s[3] = p
           /\ \A n \in {64, 96} : Agree(s, 4, p, n) <=> s[4] = p
           /\ Agree(s, 5, p, 96) <=> s[5] = p
           /\ Agree(s, 6, p, 96) <=> s[6] = p
BY Whole

(* A part that the prefix covers in part: the range its leading bits leave. *)
LEMMA Partial4 ==
    ASSUME NEW o \in V4
    PROVE  /\ Agree(o, 2, 64, 10) <=> o[2] \div 64 = 1
           /\ Agree(o, 2, 16, 12) <=> o[2] \div 16 = 1
           /\ Agree(o, 2, 18, 15) <=> o[2] \div 2 = 9
           /\ Agree(o, 1, 224, 4) <=> o[1] \div 16 = 14
           /\ Agree(o, 1, 240, 4) <=> o[1] \div 16 = 15
<1>1. Pow2[7] = 64 /\ Pow2[5] = 16 /\ Pow2[2] = 2
    BY DEF Pow2
<1> QED BY <1>1, Widths DEF Agree, Least

(* The same for IPv6. *)
LEMMA Partial6 ==
    ASSUME NEW s \in V6
    PROVE  /\ Agree(s, 1, 64512, 7) <=> s[1] \div 512 = 126
           /\ Agree(s, 1, 65152, 10) <=> s[1] \div 64 = 1018
           /\ Agree(s, 1, 65280, 8) <=> s[1] \div 256 = 255
           /\ Agree(s, 2, 16, 28) <=> s[2] \div 16 = 1
           /\ Agree(s, 2, 32, 28) <=> s[2] \div 16 = 2
<1>1. Pow2[10] = 512 /\ Pow2[7] = 64 /\ Pow2[9] = 256 /\ Pow2[5] = 16
    BY DEF Pow2
<1> QED BY <1>1, Widths DEF Agree, Least

(* A prefix is tested part by part, one lemma for each number of parts. *)
LEMMA Prefix1 == \A a, n, p : In(a, <<p>>, n) <=> Agree(a, 1, p, n)
BY DEF In

LEMMA Prefix2 ==
    \A a, n, p, q : In(a, <<p, q>>, n) <=> Agree(a, 1, p, n) /\ Agree(a, 2, q, n)
BY DEF In

LEMMA Prefix3 ==
    \A a, n, p, q, r : In(a, <<p, q, r>>, n) <=>
                          Agree(a, 1, p, n) /\ Agree(a, 2, q, n) /\ Agree(a, 3, r, n)
BY DEF In

LEMMA Prefix4 ==
    \A a, n, p, q, r, t : In(a, <<p, q, r, t>>, n) <=>
        /\ Agree(a, 1, p, n) /\ Agree(a, 2, q, n) /\ Agree(a, 3, r, n) /\ Agree(a, 4, t, n)
BY DEF In

(* The list of IPv4 blocks, test by test. *)
LEMMA Blocks4 ==
    ASSUME NEW o \in V4
    PROVE  Reference4(o) <=>
             /\ o[1] # 0 /\ o[1] # 10 /\ ~(o[1] = 100 /\ o[2] \div 64 = 1) /\ o[1] # 127
             /\ ~(o[1] = 169 /\ o[2] = 254) /\ ~(o[1] = 172 /\ o[2] \div 16 = 1)
             /\ ~(o[1] = 192 /\ o[2] = 0 /\ o[3] = 0) /\ ~(o[1] = 192 /\ o[2] = 0 /\ o[3] = 2)
             /\ ~(o[1] = 192 /\ o[2] = 168) /\ ~(o[1] = 198 /\ o[2] \div 2 = 9)
             /\ ~(o[1] = 198 /\ o[2] = 51 /\ o[3] = 100)
             /\ ~(o[1] = 203 /\ o[2] = 0 /\ o[3] = 113)
             /\ o[1] \div 16 # 14 /\ o[1] \div 16 # 15
<1>1. Reference4(o) <=>
        /\ ~In(o, <<0>>, 8) /\ ~In(o, <<10>>, 8) /\ ~In(o, <<100, 64>>, 10) /\ ~In(o, <<127>>, 8)
        /\ ~In(o, <<169, 254>>, 16) /\ ~In(o, <<172, 16>>, 12) /\ ~In(o, <<192, 0, 0>>, 24)
        /\ ~In(o, <<192, 0, 2>>, 24) /\ ~In(o, <<192, 168>>, 16) /\ ~In(o, <<198, 18>>, 15)
        /\ ~In(o, <<198, 51, 100>>, 24) /\ ~In(o, <<203, 0, 113>>, 24)
        /\ ~In(o, <<224>>, 4) /\ ~In(o, <<240>>, 4)
    BY DEF Reference4, Outside, Special4
<1>2. /\ In(o, <<0>>, 8) <=> o[1] = 0
      /\ In(o, <<10>>, 8) <=> o[1] = 10
      /\ In(o, <<127>>, 8) <=> o[1] = 127
      /\ In(o, <<224>>, 4) <=> o[1] \div 16 = 14
      /\ In(o, <<240>>, 4) <=> o[1] \div 16 = 15
    BY Prefix1, Whole4, Partial4, OctetLiterals
<1>3. /\ In(o, <<100, 64>>, 10) <=> o[1] = 100 /\ o[2] \div 64 = 1
      /\ In(o, <<172, 16>>, 12) <=> o[1] = 172 /\ o[2] \div 16 = 1
      /\ In(o, <<198, 18>>, 15) <=> o[1] = 198 /\ o[2] \div 2 = 9
      /\ In(o, <<169, 254>>, 16) <=> o[1] = 169 /\ o[2] = 254
      /\ In(o, <<192, 168>>, 16) <=> o[1] = 192 /\ o[2] = 168
    BY Prefix2, Whole4, Partial4, OctetLiterals
<1>4. /\ In(o, <<192, 0, 0>>, 24) <=> o[1] = 192 /\ o[2] = 0 /\ o[3] = 0
      /\ In(o, <<192, 0, 2>>, 24) <=> o[1] = 192 /\ o[2] = 0 /\ o[3] = 2
      /\ In(o, <<198, 51, 100>>, 24) <=> o[1] = 198 /\ o[2] = 51 /\ o[3] = 100
      /\ In(o, <<203, 0, 113>>, 24) <=> o[1] = 203 /\ o[2] = 0 /\ o[3] = 113
    BY Prefix3, Whole4, OctetLiterals
<1> QED BY <1>1, <1>2, <1>3, <1>4

(* The octet tests are the list of IPv4 blocks. *)
LEMMA Exact4 == \A o \in V4 : PublicV4(o) <=> Reference4(o)
<1> SUFFICES ASSUME NEW o \in V4 PROVE PublicV4(o) <=> Reference4(o)
    OBVIOUS
<1>1. o[1] \in Octet /\ o[2] \in Octet /\ o[3] \in Octet
    BY DEF V4
<1>2. /\ o[2] \in 16 .. 31 <=> o[2] \div 16 = 1
      /\ o[2] \in 64 .. 127 <=> o[2] \div 64 = 1
      /\ o[2] = 18 \/ o[2] = 19 <=> o[2] \div 2 = 9
      /\ o[1] \in 224 .. 239 <=> o[1] \div 16 = 14
    BY <1>1 DEF Octet
<1> QED BY <1>2, Blocks4 DEF PublicV4, is_loopback, is_private, is_link_local, is_multicast

(* The segment tests are the list of IPv6 blocks. *)
LEMMA Blocks6 ==
    ASSUME NEW s \in V6
    PROVE  Outside(s, Special6) <=> PublicV6(s)
<1>1. Outside(s, Special6) <=>
        /\ ~In(s, <<64512>>, 7) /\ ~In(s, <<65152>>, 10) /\ ~In(s, <<65280>>, 8)
        /\ ~In(s, <<8193, 3512>>, 32) /\ ~In(s, <<8193, 0>>, 32) /\ ~In(s, <<8193, 16>>, 28)
        /\ ~In(s, <<8193, 32>>, 28) /\ ~In(s, <<256, 0, 0, 0>>, 64)
    BY DEF Outside, Special6
<1>2. /\ In(s, <<64512>>, 7) <=> s[1] \div 512 = 126
      /\ In(s, <<65152>>, 10) <=> s[1] \div 64 = 1018
      /\ In(s, <<65280>>, 8) <=> s[1] \div 256 = 255
    BY Prefix1, Partial6
<1>3. /\ In(s, <<8193, 3512>>, 32) <=> s[1] = 8193 /\ s[2] = 3512
      /\ In(s, <<8193, 0>>, 32) <=> s[1] = 8193 /\ s[2] = 0
      /\ In(s, <<8193, 16>>, 28) <=> s[1] = 8193 /\ s[2] \div 16 = 1
      /\ In(s, <<8193, 32>>, 28) <=> s[1] = 8193 /\ s[2] \div 16 = 2
    BY Prefix2, Whole6, Partial6, SegmentIsNat
<1>4. In(s, <<256, 0, 0, 0>>, 64) <=> s[1] = 256 /\ s[2] = 0 /\ s[3] = 0 /\ s[4] = 0
    BY Prefix4, Whole6, SegmentIsNat
<1>5. Zero(s, 2, 4) <=> s[2] = 0 /\ s[3] = 0 /\ s[4] = 0
    BY DEF Zero
<1> QED BY <1>1, <1>2, <1>3, <1>4, <1>5 DEF PublicV6

LEMMA Prefix6 ==
    \A a, n, p, q, r, t, u, v : In(a, <<p, q, r, t, u, v>>, n) <=>
        /\ Agree(a, 1, p, n) /\ Agree(a, 2, q, n) /\ Agree(a, 3, r, n)
        /\ Agree(a, 4, t, n) /\ Agree(a, 5, u, n) /\ Agree(a, 6, v, n)
BY DEF In

(* The five carriers, test by test. *)
LEMMA CarriersAre ==
    ASSUME NEW s \in V6
    PROVE  /\ Carries(s, <<<<0, 0, 0, 0, 0, 65535>>, 6>>) <=> Zero(s, 1, 5) /\ s[6] = 65535
           /\ Carries(s, <<<<0, 0, 0, 0, 65535, 0>>, 6>>) <=> /\ Zero(s, 1, 4) /\ s[5] = 65535
                                                              /\ s[6] = 0
           /\ Carries(s, <<<<0, 0, 0, 0, 0, 0>>, 6>>) <=> Zero(s, 1, 6)
           /\ Carries(s, <<<<100, 65435, 0, 0, 0, 0>>, 6>>) <=> /\ s[1] = 100 /\ s[2] = 65435
                                                                /\ Zero(s, 3, 6)
           /\ Carries(s, <<<<8194>>, 1>>) <=> s[1] = 8194
<1>1. /\ Zero(s, 1, 4) <=> s[1] = 0 /\ s[2] = 0 /\ s[3] = 0 /\ s[4] = 0
      /\ Zero(s, 1, 5) <=> s[1] = 0 /\ s[2] = 0 /\ s[3] = 0 /\ s[4] = 0 /\ s[5] = 0
      /\ Zero(s, 1, 6) <=> s[1] = 0 /\ s[2] = 0 /\ s[3] = 0 /\ s[4] = 0 /\ s[5] = 0 /\ s[6] = 0
      /\ Zero(s, 3, 6) <=> s[3] = 0 /\ s[4] = 0 /\ s[5] = 0 /\ s[6] = 0
    BY DEF Zero
<1>2. ASSUME NEW p \in Segment, NEW q \in Segment, NEW u \in Segment, NEW v \in Segment
      PROVE  Carries(s, <<<<p, q, 0, 0, u, v>>, 6>>) <=>
               s[1] = p /\ s[2] = q /\ s[3] = 0 /\ s[4] = 0 /\ s[5] = u /\ s[6] = v
  <2>1. Carries(s, <<<<p, q, 0, 0, u, v>>, 6>>) <=> In(s, <<p, q, 0, 0, u, v>>, 96)
      BY DEF Carries
  <2> QED BY <2>1, Prefix6, Whole6, SegmentIsNat
<1>3. Carries(s, <<<<8194>>, 1>>) <=> s[1] = 8194
  <2>1. Carries(s, <<<<8194>>, 1>>) <=> In(s, <<8194>>, 16)
      BY DEF Carries
  <2> QED BY <2>1, Prefix1, Whole6, SegmentIsNat
<1> QED BY <1>1, <1>2, <1>3, SegmentIsNat

(* Two segments are an IPv4 address. *)
LEMMA QuadType == \A hi, lo \in Segment : Quad(hi, lo) \in V4 /\ Quad(hi, lo) # <<>>
<1> SUFFICES ASSUME NEW hi \in Segment, NEW lo \in Segment
             PROVE  Quad(hi, lo) \in V4 /\ Quad(hi, lo) # <<>>
    OBVIOUS
<1>1. hi \div 256 \in Octet /\ hi % 256 \in Octet /\ lo \div 256 \in Octet /\ lo % 256 \in Octet
    BY SegmentIsNat DEF Octet
<1> QED BY <1>1 DEF Quad, V4

(* An IPv6 address is decided by the address it carries, or else by its blocks. *)
LEMMA Exact6 == \A s \in V6 : is_public_target(s) <=> Reference6(s)
<1> SUFFICES ASSUME NEW s \in V6 PROVE is_public_target(s) <=> Reference6(s)
    OBVIOUS
<1> DEFINE Low == \/ Zero(s, 1, 5) /\ s[6] = 65535
                  \/ Zero(s, 1, 4) /\ s[5] = 65535 /\ s[6] = 0
                  \/ Zero(s, 1, 6)
                  \/ s[1] = 100 /\ s[2] = 65435 /\ Zero(s, 3, 6)
<1>s. \A i \in 1 .. 8 : s[i] \in Segment
    BY DEF V6
<1>l. Len(s) = 8
    BY Widths
<1>z. Zero(s, 1, 5) \/ Zero(s, 1, 4) \/ Zero(s, 1, 6) => s[1] = 0
    BY DEF Zero
<1>c. /\ \A c \in Carrier : c[2] = 6 \/ c = <<<<8194>>, 1>>
      /\ <<<<8194>>, 1>> \in Carrier /\ <<<<8194>>, 1>>[2] = 1
    BY DEF Carrier
<1>1. CASE Low
  <2>1. embedded_ipv4(s) = Quad(s[7], s[8]) /\ Quad(s[7], s[8]) # <<>> /\ Quad(s[7], s[8]) \in V4
      BY <1>1, <1>s, QuadType DEF embedded_ipv4
  <2>2. is_public_target(s) <=> Reference4(Quad(s[7], s[8]))
      BY <1>l, <2>1, Exact4 DEF is_public_target
  <2>3. \E c \in Carrier : Carries(s, c)
      BY <1>1, CarriersAre DEF Carrier
  <2>4. \A c \in Carrier : Carries(s, c) => c[2] = 6
    <3>1. s[1] # 8194
        BY <1>1, <1>z
    <3> QED BY <1>c, <3>1, CarriersAre
  <2> QED BY <2>2, <2>3, <2>4 DEF Reference6
<1>2. CASE ~Low /\ s[1] = 8194
  <2>1. embedded_ipv4(s) = Quad(s[2], s[3]) /\ Quad(s[2], s[3]) # <<>> /\ Quad(s[2], s[3]) \in V4
      BY <1>2, <1>s, QuadType DEF embedded_ipv4
  <2>2. is_public_target(s) <=> Reference4(Quad(s[2], s[3]))
      BY <1>l, <2>1, Exact4 DEF is_public_target
  <2>3. \A c \in Carrier : Carries(s, c) <=> c = <<<<8194>>, 1>>
      BY <1>2, CarriersAre DEF Carrier
  <2> QED BY <1>c, <2>2, <2>3 DEF Reference6
<1>3. CASE ~Low /\ s[1] # 8194
  <2>1. embedded_ipv4(s) = <<>>
      BY <1>3 DEF embedded_ipv4
  <2>2. is_public_target(s) <=> PublicV6(s)
      BY <1>l, <2>1 DEF is_public_target
  <2>3. \A c \in Carrier : ~Carries(s, c)
      BY <1>3, CarriersAre DEF Carrier
  <2>4. Reference6(s) <=> Outside(s, Special6)
      BY <2>3 DEF Reference6
  <2> QED BY <2>2, <2>4, Blocks6
<1> QED BY <1>1, <1>2, <1>3

(* Four octets are an IPv4 address. *)
LEMMA Tuple4 ==
    /\ \A o \in V4 : o = <<o[1], o[2], o[3], o[4]>>
    /\ \A p, q, r, t \in Octet : <<p, q, r, t>> \in V4
<1>1. ASSUME NEW o \in V4 PROVE o = <<o[1], o[2], o[3], o[4]>>
    BY DEF V4
<1>2. ASSUME NEW p \in Octet, NEW q \in Octet, NEW r \in Octet, NEW t \in Octet
      PROVE  <<p, q, r, t>> \in V4
    BY DEF V4
<1> QED BY <1>1, <1>2

(* The provers list an interval between literals, so its end is named.     *)
LEMMA InSegment == ASSUME NEW z \in Int, 0 <= z, z <= 65535 PROVE z \in Segment
<1> DEFINE n == 65535
<1>1. n \in Int /\ Segment = 0 .. n /\ z <= n
    BY DEF Segment
<1> HIDE DEF n
<1> QED BY <1>1

(* Two octets to a segment and back. *)
LEMMA Packed ==
    \A o \in V4 : /\ o[1] * 256 + o[2] \in Segment /\ o[3] * 256 + o[4] \in Segment
                  /\ Quad(o[1] * 256 + o[2], o[3] * 256 + o[4]) = o
<1>1. ASSUME NEW x \in Octet, NEW y \in Octet
      PROVE  /\ x * 256 + y \in Segment
             /\ (x * 256 + y) \div 256 = x /\ (x * 256 + y) % 256 = y
  <2>1. x \in 0 .. 255 /\ y \in 0 .. 255
      BY DEF Octet
  <2>2. x * 256 + y \in Int /\ 0 <= x * 256 + y /\ x * 256 + y <= 65535
      BY <2>1
  <2>3. (x * 256 + y) \div 256 = x
      BY <2>1
  <2>4. (x * 256 + y) % 256 = y
      BY <2>1
  <2> QED BY <2>2, <2>3, <2>4, InSegment
<1> SUFFICES ASSUME NEW o \in V4
             PROVE  /\ o[1] * 256 + o[2] \in Segment /\ o[3] * 256 + o[4] \in Segment
                    /\ Quad(o[1] * 256 + o[2], o[3] * 256 + o[4]) = o
    OBVIOUS
<1>2. o[1] \in Octet /\ o[2] \in Octet /\ o[3] \in Octet /\ o[4] \in Octet
    BY DEF V4
<1>3. Quad(o[1] * 256 + o[2], o[3] * 256 + o[4]) = <<o[1], o[2], o[3], o[4]>>
    BY <1>1, <1>2 DEF Quad
<1> QED BY <1>1, <1>2, <1>3, Tuple4

(* embedded_ipv4 gives back the address that a spelling carries. *)
LEMMA SpelledAlike ==
    ASSUME NEW o \in V4, NEW c \in Carrier
    PROVE  is_public_target(Spelled(o, c)) <=> Reference4(o)
<1> DEFINE s == Spelled(o, c)
           hi == o[1] * 256 + o[2]
           lo == o[3] * 256 + o[4]
<1>p. hi \in Segment /\ lo \in Segment /\ Quad(hi, lo) = o /\ o # <<>>
    BY Packed, QuadType
<1> HIDE DEF hi, lo
<1>t. Len(s) = 8 /\ DOMAIN s = 1 .. 8
    BY DEF Spelled
<1>1. CASE c = <<<<0, 0, 0, 0, 0, 65535>>, 6>>
  <2>1. Zero(s, 1, 5) /\ s[6] = 65535 /\ s[7] = hi /\ s[8] = lo
      BY <1>1 DEF Spelled, Zero, hi, lo
  <2> QED BY <1>p, <1>t, <2>1, Exact4 DEF is_public_target, embedded_ipv4
<1>2. CASE c = <<<<0, 0, 0, 0, 65535, 0>>, 6>>
  <2>1. Zero(s, 1, 4) /\ s[5] = 65535 /\ s[6] = 0 /\ s[7] = hi /\ s[8] = lo
      BY <1>2 DEF Spelled, Zero, hi, lo
  <2> QED BY <1>p, <1>t, <2>1, Exact4 DEF is_public_target, embedded_ipv4
<1>3. CASE c = <<<<0, 0, 0, 0, 0, 0>>, 6>>
  <2>1. Zero(s, 1, 6) /\ s[7] = hi /\ s[8] = lo
      BY <1>3 DEF Spelled, Zero, hi, lo
  <2> QED BY <1>p, <1>t, <2>1, Exact4 DEF is_public_target, embedded_ipv4
<1>4. CASE c = <<<<100, 65435, 0, 0, 0, 0>>, 6>>
  <2>1. s[1] = 100 /\ s[2] = 65435 /\ Zero(s, 3, 6) /\ s[7] = hi /\ s[8] = lo
      BY <1>4 DEF Spelled, Zero, hi, lo
  <2> QED BY <1>p, <1>t, <2>1, Exact4 DEF is_public_target, embedded_ipv4
<1>5. CASE c = <<<<8194>>, 1>>
  <2>1. s[1] = 8194 /\ s[2] = hi /\ s[3] = lo
      BY <1>5 DEF Spelled, hi, lo
  <2>2. ~Zero(s, 1, 5) /\ ~Zero(s, 1, 4) /\ ~Zero(s, 1, 6)
      BY <2>1 DEF Zero
  <2> QED BY <1>p, <1>t, <2>1, <2>2, Exact4 DEF is_public_target, embedded_ipv4
<1> QED BY <1>1, <1>2, <1>3, <1>4, <1>5 DEF Carrier

(* Of two addresses, dial_target takes the first that is admitted and answers. *)
LEMMA DialsFirst ==
    ASSUME NEW a \in V4, NEW b \in V4, a # b, NEW allow \in BOOLEAN, NEW answers \in SUBSET {a, b}
    PROVE  LET ok == {x \in {a, b} : allow \/ Reference4(x)} IN
           dial_target(<<a, b>>, allow, answers) =
             IF ok = {} THEN "Denied"
             ELSE IF ok \cap answers = {} THEN "DialFailed"
             ELSE IF a \in ok \cap answers THEN a ELSE b
<1> DEFINE addrs == <<a, b>>
           ok == {x \in {a, b} : allow \/ Reference4(x)}
           left == resolve_target(addrs, allow)
           up == {i \in left : addrs[i] \in answers}
           least == CHOOSE i \in up : \A j \in up : i <= j
<1> SUFFICES dial_target(addrs, allow, answers) =
               IF ok = {} THEN "Denied"
               ELSE IF ok \cap answers = {} THEN "DialFailed"
               ELSE IF a \in ok \cap answers THEN a ELSE b
    OBVIOUS
<1>p. \A x \in V4 : is_public_target(x) <=> Reference4(x)
    BY Exact4, Widths DEF is_public_target
<1>1. left = {i \in {1, 2} : addrs[i] \in ok}
    BY <1>p DEF resolve_target
<1>2. addrs[1] = a /\ addrs[2] = b
    OBVIOUS
<1>3. left = {} <=> ok = {}
    BY <1>1, <1>2
<1>4. up = {i \in {1, 2} : addrs[i] \in ok \cap answers}
    BY <1>1
<1>5. up = {} <=> ok \cap answers = {}
    BY <1>2, <1>4
<1>6. dial_target(addrs, allow, answers) =
        IF left = {} THEN "Denied" ELSE IF up = {} THEN "DialFailed" ELSE addrs[least]
    BY DEF dial_target
<1> HIDE DEF left, up
<1>7. CASE 1 \in up
  <2>1. 1 \in up /\ \A j \in up : 1 <= j
      BY <1>4, <1>7
  <2>2. least \in up /\ \A j \in up : least <= j
      BY <2>1, ZenonT(60)
  <2>3. least = 1
      BY <1>4, <2>1, <2>2
  <2>4. a \in ok \cap answers
      BY <1>2, <1>4, <1>7
  <2> HIDE DEF least, ok, addrs
  <2> QED BY <1>2, <1>3, <1>5, <1>6, <2>1, <2>3, <2>4
<1>8. CASE 1 \notin up /\ 2 \in up
  <2>1. 2 \in up /\ \A j \in up : 2 <= j
      BY <1>4, <1>8
  <2>2. least \in up /\ \A j \in up : least <= j
      BY <2>1, ZenonT(60)
  <2>3. least = 2
      BY <1>4, <1>8, <2>2
  <2>4. a \notin ok \cap answers
      BY <1>2, <1>4, <1>8
  <2> HIDE DEF least, ok, addrs
  <2> QED BY <1>2, <1>3, <1>5, <1>6, <2>1, <2>3, <2>4
<1>9. CASE up = {}
  <2> HIDE DEF least, ok, addrs
  <2> QED BY <1>3, <1>5, <1>6, <1>9
<1> QED BY <1>4, <1>7, <1>8, <1>9

(* Every IPv4 and every IPv6 address, not only those at the edges, is      *)
(* decided by is_public_target as the list of blocks decides it, and an    *)
(* IPv4 address the same way in each of its IPv6 spellings.                *)
THEOREM EveryTargetIsDecided ==
    /\ \A o \in V4 : /\ is_public_target(o) <=> Reference4(o)
                     /\ \A c \in Carrier : is_public_target(Spelled(o, c)) <=> Reference4(o)
    /\ \A s \in V6 : is_public_target(s) <=> Reference6(s)
<1>1. \A o \in V4 : is_public_target(o) <=> Reference4(o)
    BY Exact4, Widths DEF is_public_target
<1> QED BY <1>1, SpelledAlike, Exact6

(* The first part that is tried is an octet or a segment. *)
EgressInv ==
    /\ family = "v4" => first \in Octet
    /\ family = "v6" => first \in Segment

LEMMA EgressInvExact == EgressInv => EgressExact
<1> SUFFICES ASSUME EgressInv PROVE EgressExact
    OBVIOUS
<1>1. ASSUME family = "v6", NEW s \in Tried6 PROVE is_public_target(s) <=> Reference6(s)
  <2>1. s \in V6
    <3>1. PICK b, c \in SegmentEdge, e, f \in {0, 65535} :
              s = <<first, b, c, 0, e, f, 10 * 256, 1>>
        BY <1>1 DEF Tried6
    <3>2. first \in Segment /\ b \in Segment /\ c \in Segment
        BY <1>1, EgressAssumption DEF EgressInv
    <3>3. 0 \in Segment /\ 65535 \in Segment /\ 1 \in Segment
        BY DEF Segment
    <3>4. 10 * 256 \in Segment
        BY DEF Segment
    <3>5. e \in Segment /\ f \in Segment
        BY <3>3
    <3> QED BY <3>1, <3>2, <3>3, <3>4, <3>5 DEF V6
  <2> QED BY <2>1, EveryTargetIsDecided
<1>2. ASSUME family = "v4", NEW o \in Tried4
      PROVE  /\ is_public_target(o) <=> Reference4(o)
             /\ \A c \in Carrier : is_public_target(Spelled(o, c)) <=> Reference4(o)
  <2>1. o \in V4
    <3>1. PICK b \in SecondEdge, c \in ThirdEdge, d \in {0, 255} : o = <<first, b, c, d>>
        BY <1>2 DEF Tried4
    <3>2. first \in Octet /\ b \in Octet /\ c \in Octet
        BY <1>2, EgressAssumption DEF EgressInv
    <3>3. d \in Octet
        BY DEF Octet
    <3> QED BY <3>1, <3>2, <3>3, Tuple4
  <2> QED BY <2>1, EveryTargetIsDecided
<1>3. CASE family = "v4"
  <2>1. <<first, 0, 2, 1>> \in V4 /\ <<first, 64, 0, 1>> \in V4
    <3>1. first \in Octet
        BY <1>3 DEF EgressInv
    <3>2. 0 \in Octet /\ 1 \in Octet /\ 2 \in Octet /\ 64 \in Octet
        BY DEF Octet
    <3> QED BY <3>1, <3>2, Tuple4
  <2>2. <<first, 0, 2, 1>> # <<first, 64, 0, 1>>
      OBVIOUS
  <2> QED BY <1>1, <1>2, <1>3, <2>1, <2>2, DialsFirst DEF EgressExact
<1>4. CASE family # "v4"
    BY <1>1, <1>4 DEF EgressExact
<1> QED BY <1>3, <1>4

(* EgressExact of every state: what the edges are does not matter, and a   *)
(* dial takes the first admitted address that answers (dial_target).       *)
THEOREM PolicyIsExact == EgressSpec => []EgressExact
<1>1. EgressInit => EgressInv
    BY DEF EgressInit, EgressInv
<1>2. EgressInv /\ [EgressNext]_egressVars => EgressInv'
    BY EgressAssumption DEF EgressInv, EgressNext, TryV4, TryV6, egressVars, Octet
<1> QED BY <1>1, <1>2, EgressInvExact, PTL DEF EgressSpec

=============================================================================
