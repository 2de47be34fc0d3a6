---------------------------- MODULE EgressPolicy ----------------------------
(***************************************************************************)
(* Which targets the server connects to by default: is_public_target and   *)
(* embedded_ipv4 (server/hub.rs), written with octet and segment tests,    *)
(* against the list of special-purpose blocks they stand for, and          *)
(* resolve_target and dial_target, which apply them.                       *)
(*                                                                         *)
(* An address is its sequence of parts: four octets or eight segments.     *)
(***************************************************************************)
EXTENDS Integers, Sequences

CONSTANTS
    SecondEdge,     \* second octets that are tried: both sides of every bound in the code
    ThirdEdge,      \* third octets that are tried
    SegmentEdge     \* first to third segments that are tried

Octet == 0 .. 255
Segment == 0 .. 65535

ASSUME EgressAssumption ==
    /\ SecondEdge \subseteq Octet /\ ThirdEdge \subseteq Octet
    /\ SegmentEdge \subseteq Segment

VARIABLES
    family,     \* are IPv4 or IPv6 targets, or none, tried in this state?
    first       \* their first octet or segment

egressVars == <<family, first>>

-----------------------------------------------------------------------------
(* std::net::Ipv4Addr *)
is_loopback(o) == o[1] = 127
is_private(o) ==
    \/ o[1] = 10
    \/ o[1] = 172 /\ o[2] \in 16 .. 31
    \/ o[1] = 192 /\ o[2] = 168
is_link_local(o) == o[1] = 169 /\ o[2] = 254
is_multicast(o) == o[1] \in 224 .. 239

PublicV4(o) ==
    /\ ~is_loopback(o) /\ ~is_private(o) /\ ~is_link_local(o) /\ ~is_multicast(o)
    /\ o[1] # 0                                       \* also the unspecified address
    /\ o[1] \div 16 # 15                              \* also the broadcast address
    /\ ~(o[1] = 100 /\ o[2] \in 64 .. 127)
    /\ ~(o[1] = 192 /\ o[2] = 0 /\ o[3] = 0)
    /\ ~(o[1] = 192 /\ o[2] = 0 /\ o[3] = 2)
    /\ ~(o[1] = 198 /\ o[2] = 18) /\ ~(o[1] = 198 /\ o[2] = 19)
    /\ ~(o[1] = 198 /\ o[2] = 51 /\ o[3] = 100)
    /\ ~(o[1] = 203 /\ o[2] = 0 /\ o[3] = 113)

Zero(s, from, to) == \A i \in from .. to : s[i] = 0
Quad(hi, lo) == <<hi \div 256, hi % 256, lo \div 256, lo % 256>>

(* The IPv4 address an IPv6 address routes to, or <<>>. *)
\* mutant: the 6to4 prefix is read from the last two segments
embedded_ipv4_Tail(s) ==
    IF \/ Zero(s, 1, 5) /\ s[6] \in {0, 65535}
       \/ Zero(s, 1, 4) /\ s[5] = 65535 /\ s[6] = 0
       \/ s[1] = 100 /\ s[2] = 65435 /\ Zero(s, 3, 6)
       \/ s[1] = 8194
    THEN Quad(s[7], s[8]) ELSE <<>>

embedded_ipv4(s) ==
    IF \/ Zero(s, 1, 5) /\ s[6] = 65535                     \* ::ffff:a.b.c.d
       \/ Zero(s, 1, 4) /\ s[5] = 65535 /\ s[6] = 0         \* ::ffff:0:a.b.c.d
       \/ Zero(s, 1, 6)                                     \* ::a.b.c.d
       \/ s[1] = 100 /\ s[2] = 65435 /\ Zero(s, 3, 6)       \* 64:ff9b::a.b.c.d
    THEN Quad(s[7], s[8])
    ELSE IF s[1] = 8194 THEN Quad(s[2], s[3]) ELSE <<>>     \* 2002:a.b.c.d::

(* The unspecified and the loopback address never get here: both have an   *)
(* embedded IPv4 address.                                                  *)
PublicV6(s) ==
    /\ s[1] \div 256 # 255
    /\ s[1] \div 512 # 126                              \* fc00::/7
    /\ s[1] \div 64 # 1018                              \* fe80::/10
    /\ ~(s[1] = 8193 /\ s[2] = 3512)                    \* 2001:db8::/32
    /\ ~(s[1] = 8193 /\ s[2] = 0)                       \* 2001::/32
    /\ ~(s[1] = 8193 /\ s[2] \div 16 \in {1, 2})        \* 2001:10::/28, 2001:20::/28
    /\ ~(s[1] = 256 /\ Zero(s, 2, 4))                   \* 100::/64

is_public_target(a) ==
    IF Len(a) = 4 THEN PublicV4(a)
    ELSE IF embedded_ipv4(a) # <<>> THEN PublicV4(embedded_ipv4(a)) ELSE PublicV6(a)

-----------------------------------------------------------------------------
(* resolve_target: which of the addresses that a literal or the resolver   *)
(* gives, in its order, the policy leaves.                                 *)
resolve_target(addrs, allow) ==
    {i \in DOMAIN addrs : allow \/ is_public_target(addrs[i])}

(* dial_target: the first address of those that answers. *)
dial_target(addrs, allow, answers) ==
    LET left == resolve_target(addrs, allow)
        up == {i \in left : addrs[i] \in answers}
    IN IF left = {} THEN "Denied"
       ELSE IF up = {} THEN "DialFailed"
       ELSE addrs[CHOOSE i \in up : \A j \in up : i <= j]

-----------------------------------------------------------------------------
(* The reference: blocks, each as the leading bits of an address.          *)
Width(a) == IF Len(a) = 4 THEN 8 ELSE 16
Least(a, b) == IF a <= b THEN a ELSE b
Pow2 == <<1, 2, 4, 8, 16, 32, 64, 128, 256, 512, 1024, 2048, 4096, 8192, 16384, 32768>>
(* Does part i of a agree with the prefix's, in those of the first n bits  *)
(* of the address that are in it?                                          *)
Agree(a, i, part, n) ==
    LET bits == Least(n - (i - 1) * Width(a), Width(a))
        low  == Pow2[Width(a) - bits + 1]
    IN a[i] \div low = part \div low
In(a, prefix, n) == \A i \in 1 .. Len(prefix) : Agree(a, i, prefix[i], n)

Special4 ==
    {<<<<0>>, 8>>, <<<<10>>, 8>>, <<<<100, 64>>, 10>>, <<<<127>>, 8>>, <<<<169, 254>>, 16>>,
     <<<<172, 16>>, 12>>, <<<<192, 0, 0>>, 24>>, <<<<192, 0, 2>>, 24>>, <<<<192, 168>>, 16>>,
     <<<<198, 18>>, 15>>, <<<<198, 51, 100>>, 24>>, <<<<203, 0, 113>>, 24>>,
     <<<<224>>, 4>>, <<<<240>>, 4>>}
Special6 ==
    {<<<<64512>>, 7>>, <<<<65152>>, 10>>, <<<<65280>>, 8>>, <<<<8193, 3512>>, 32>>,
     <<<<8193, 0>>, 32>>, <<<<8193, 16>>, 28>>, <<<<8193, 32>>, 28>>, <<<<256, 0, 0, 0>>, 64>>}
(* Where an IPv6 address carries an IPv4 one, after how many segments. *)
Carrier ==
    {<<<<0, 0, 0, 0, 0, 65535>>, 6>>, <<<<0, 0, 0, 0, 65535, 0>>, 6>>,
     <<<<0, 0, 0, 0, 0, 0>>, 6>>, <<<<100, 65435, 0, 0, 0, 0>>, 6>>, <<<<8194>>, 1>>}

Carries(s, c) == In(s, c[1], Len(c[1]) * 16)

Outside(a, blocks) == \A b \in blocks : ~In(a, b[1], b[2])
Reference4(o) == Outside(o, Special4)
Reference6(s) ==
    LET carried == {c \in Carrier : Carries(s, c)} IN
    IF carried = {} THEN Outside(s, Special6)
    ELSE \A c \in carried : Reference4(Quad(s[c[2] + 1], s[c[2] + 2]))

(* The targets tried in a state: those that begin with first, and for     *)
(* IPv4 the same ones in every IPv6 spelling.                              *)
Tried4 == {<<first, b, c, d>> : b \in SecondEdge, c \in ThirdEdge, d \in {0, 255}}
Spelled(o, c) ==
    LET at == c[2] IN
    [i \in 1 .. 8 |->
        CASE i <= at -> c[1][i]
          [] i = at + 1 -> o[1] * 256 + o[2]
          [] i = at + 2 -> o[3] * 256 + o[4]
          [] OTHER -> 0]
Tried6 == {<<first, b, c, 0, e, f, 10 * 256, 1>> : b, c \in SegmentEdge, e, f \in {0, 65535}}

EgressInit == family = "none" /\ first = 0
TryV4 == first' \in 0 .. 255 /\ family' = "v4"
TryV6 == first' \in SegmentEdge /\ family' = "v6"
EgressNext == family = "none" /\ (TryV4 \/ TryV6)

EgressSpec == EgressInit /\ [][EgressNext]_egressVars

(* The octet tests decide exactly as the list of special-purpose blocks    *)
(* does, at every block's edges; an IPv4 target is decided alike in all    *)
(* five of its IPv6 spellings; and a dial reaches the first admitted       *)
(* address that answers, is denied only when the policy left none, and     *)
(* fails only when none of those left answers.                             *)
EgressExact ==
    /\ family = "v6" => \A s \in Tried6 : is_public_target(s) <=> Reference6(s)
    /\ family = "v4" => \A o \in Tried4 :
         /\ is_public_target(o) <=> Reference4(o)
         /\ \A c \in Carrier : is_public_target(Spelled(o, c)) <=> Reference4(o)
    /\ family = "v4" =>
       LET target == <<first, 0, 2, 1>>
           other == <<first, 64, 0, 1>> IN
       \A allow \in BOOLEAN, answers \in SUBSET {target, other} :
          LET ok == {a \in {target, other} : allow \/ Reference4(a)} IN
          dial_target(<<target, other>>, allow, answers) =
             IF ok = {} THEN "Denied"
             ELSE IF ok \cap answers = {} THEN "DialFailed"
             ELSE IF target \in ok \cap answers THEN target ELSE other
=============================================================================
