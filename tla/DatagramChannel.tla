--------------------------- MODULE DatagramChannel ---------------------------
(***************************************************************************)
(* One direction of the unreliable UDP fast path: tasks that encode frames *)
(* with a shared counter generator, a network that loses, duplicates and   *)
(* reorders datagrams, and the receiver's sliding-window replay filter.    *)
(*                                                                         *)
(* Sources: proto/crypto.rs (CounterGen, ReplayWindow), proto/mux.rs       *)
(* (FrameSink::try_send_lossy), proto/frame.rs (FrameDecoder::next_frame), *)
(* server/wt.rs (spawn_dgram_reader).                                      *)
(***************************************************************************)
EXTENDS Integers, FiniteSets

CONSTANTS
    Sender,      \* tasks that share the direction's CounterGen
    Base,        \* first counter of the direction's range
    MaxFrames,   \* bound: frames encoded in the connection's life, below the range's size
    Window       \* bits of ReplayWindow.mask (64)

ASSUME ChannelAssumption ==
    /\ Base \in Nat \ {0} /\ MaxFrames \in Nat /\ Window \in Nat \ {0}

VARIABLES
    next,        \* CounterGen.next
    held,        \* the counter of the datagram a sender has encoded and not yet sent; 0 is none
    net,         \* every datagram ever handed to QUIC; it may arrive never, once or often
    highest,     \* ReplayWindow.highest
    mask,        \* ReplayWindow.mask: the offsets of the bits that are set
    seen,        \* history: the counters the window accepted
    answer       \* the last counter the window was asked about, and what it said

sending == <<next, held, net>>
window == <<highest, mask, seen, answer>>
vars == <<sending, window>>

Counter == Base .. (Base + MaxFrames - 1)

Init ==
    /\ next = 0
    /\ held = [s \in Sender |-> 0]
    /\ net = {}
    /\ highest = 0 /\ mask = {}
    /\ seen = {} /\ answer = <<0, "reject">>

-----------------------------------------------------------------------------
\* mutant: the generator is read and advanced without fetch_add
Encode_Torn(s) ==
    /\ held[s] = 0 /\ next < MaxFrames
    /\ held' = [held EXCEPT ![s] = Base + next]
    /\ next' \in {next, next + 1}
    /\ UNCHANGED <<net, window>>

(* FrameEncoder::encode takes the next counter (one fetch_add) and seals   *)
(* the frame with it.                                                      *)
Encode(s) ==
    /\ held[s] = 0 /\ next < MaxFrames
    /\ held' = [held EXCEPT ![s] = Base + next]
    /\ next' = next + 1
    /\ UNCHANGED <<net, window>>

(* The datagram fits and QUIC takes it. Between encoding and sending other *)
(* tasks may have sent theirs, so counters leave out of order.             *)
SendDatagram(s) ==
    /\ held[s] # 0
    /\ net' = net \cup {held[s]}
    /\ held' = [held EXCEPT ![s] = 0]
    /\ UNCHANGED <<next, window>>

(* It does not fit, or QUIC refuses it: the frame goes to the fallback     *)
(* queue, to be encoded again with the stream counters, and this counter   *)
(* is never sent.                                                          *)
FallBack(s) ==
    /\ held[s] # 0
    /\ held' = [held EXCEPT ![s] = 0]
    /\ UNCHANGED <<next, net, window>>

-----------------------------------------------------------------------------
(* ReplayWindow::check. The mask is 64 bits wide: what a shift moves past  *)
(* its end is lost, and a shift by the whole width leaves only bit 0.      *)
Shifted(n) == IF n >= Window THEN {} ELSE {d + n : d \in mask} \cap 0 .. (Window - 1)

First(c) == c # 0 /\ highest = 0
Ahead(c) == c # 0 /\ highest # 0 /\ c > highest
\* mutant: the oldest tracked offset is off by one
Behind_OffByOne(c) ==
    /\ c # 0 /\ highest # 0 /\ c <= highest
    /\ highest - c <= Window /\ (highest - c) \notin mask

Behind(c) ==
    /\ c # 0 /\ highest # 0 /\ c <= highest
    /\ highest - c < Window /\ (highest - c) \notin mask

\* mutant: the new highest counter's own bit is not set
Advance_ForgetsBit(c) ==
    /\ c \in net /\ (First(c) \/ Ahead(c))
    /\ highest' = c
    /\ mask' = IF First(c) THEN {0} ELSE Shifted(c - highest)
    /\ seen' = seen \cup {c} /\ answer' = <<c, "accept">>
    /\ UNCHANGED sending

(* The first datagram, or one ahead of all the others. *)
Advance(c) ==
    /\ c \in net /\ (First(c) \/ Ahead(c))
    /\ highest' = c
    /\ mask' = IF First(c) THEN {0} ELSE Shifted(c - highest) \cup {0}
    /\ seen' = seen \cup {c} /\ answer' = <<c, "accept">>
    /\ UNCHANGED sending

(* A late datagram inside the window that was not there yet. *)
FillGap(c) ==
    /\ c \in net /\ Behind(c)
    /\ mask' = mask \cup {highest - c}
    /\ seen' = seen \cup {c} /\ answer' = <<c, "accept">>
    /\ UNCHANGED <<sending, highest>>

(* A duplicate, or one too old to tell: next_frame fails, the frame is     *)
(* dropped and the window stays.                                           *)
Reject(c) ==
    /\ c \in net /\ ~First(c) /\ ~Ahead(c) /\ ~Behind(c)
    /\ answer' = <<c, "reject">>
    /\ UNCHANGED <<sending, highest, mask, seen>>

-----------------------------------------------------------------------------
Next ==
    \/ \E s \in Sender : Encode(s) \/ SendDatagram(s) \/ FallBack(s)
    \/ \E c \in Counter : Advance(c) \/ FillGap(c) \/ Reject(c)

Spec == Init /\ [][Next]_vars

-----------------------------------------------------------------------------
(* Properties. *)

TypeOK ==
    /\ next \in 0 .. MaxFrames
    /\ held \in [Sender -> Counter \cup {0}]
    /\ net \subseteq Counter /\ seen \subseteq Counter
    /\ highest \in Counter \cup {0}
    /\ mask \subseteq 0 .. (Window - 1)
    /\ answer \in (Counter \cup {0}) \X {"accept", "reject"}

(* No two frames of the direction are ever sealed with the same counter,   *)
(* however many tasks share the generator: a counter in a task's hands is  *)
(* in no other task's, and is not one that was sent before.                *)
CounterUnique ==
    \A s \in Sender : held[s] # 0 =>
        /\ held[s] \notin net
        /\ \A t \in Sender \ {s} : held[t] # held[s]

(* The 64 bits are exactly the accepted counters of the last Window, seen  *)
(* from the highest one: nothing is forgotten inside the window by shifts, *)
(* gaps or late arrivals, and nothing is marked that was not accepted.     *)
MaskExact ==
    /\ highest = 0 <=> seen = {}
    /\ highest # 0 => highest \in seen /\ \A c \in seen : c <= highest
    /\ \A d \in 0 .. (Window - 1) : d \in mask <=> (highest # 0 /\ highest - d \in seen)

(* The window answers as the unbounded filter does: every duplicate is     *)
(* rejected, and a datagram that is new and less than Window behind is     *)
(* never rejected, whatever the network loses, repeats or reorders.        *)
Filter == INSTANCE ReplayFilter
    WITH Window <- Window, Counter <- Counter, seen <- seen, answer <- answer
FiltersExactly == Filter!Spec

=============================================================================
