------------------------ MODULE DatagramChannelProofs ------------------------
(***************************************************************************)
(* The datagram channel implements the unbounded replay filter, for every  *)
(* window width, range and number of senders; and no counter is used twice.*)
(*                                                                         *)
(* UsedBelow strengthens CounterUnique: every counter handed out is below  *)
(* the generator's next one. MaskExact is inductive once the types are     *)
(* known, and makes every step of the window a step of the filter.         *)
(***************************************************************************)
EXTENDS DatagramChannel, TLAPS

(* Every counter in a sender's hands or on the network was drawn before. *)
UsedBelow ==
    /\ \A s \in Sender : held[s] # 0 => held[s] < Base + next
    /\ \A c \in net : c < Base + next

SendInv == TypeOK /\ UsedBelow /\ CounterUnique

(* The counters of the range are positive integers. *)
LEMMA CounterRange == \A c \in Counter : c \in Nat /\ c # 0 /\ c > 0
BY ChannelAssumption DEF Counter

LEMMA SendInitially == Init => SendInv
BY ChannelAssumption DEF Init, SendInv, TypeOK, UsedBelow, CounterUnique

(* What the window's steps leave alone, and where the counter comes from. *)
LEMMA WindowStep ==
    ASSUME NEW c, Advance(c) \/ FillGap(c) \/ Reject(c)
    PROVE  UNCHANGED sending /\ c \in net
BY DEF Advance, FillGap, Reject, sending

LEMMA TypeInductive ==
    ASSUME TypeOK, [Next]_vars
    PROVE  TypeOK'
<1> USE ChannelAssumption
<1>1. ASSUME NEW s \in Sender, Encode(s) PROVE TypeOK'
    BY <1>1 DEF Encode, TypeOK, Counter, window
<1>2. ASSUME NEW s \in Sender, SendDatagram(s) PROVE TypeOK'
    BY <1>2 DEF SendDatagram, TypeOK, window
<1>3. ASSUME NEW s \in Sender, FallBack(s) PROVE TypeOK'
    BY <1>3 DEF FallBack, TypeOK, window
<1>4. ASSUME NEW c \in Counter, Advance(c) PROVE TypeOK'
  <2>1. mask' \subseteq 0 .. (Window - 1)
      BY <1>4 DEF Advance, Shifted
  <2>2. highest' = c /\ seen' = seen \cup {c} /\ answer' = <<c, "accept">> /\ UNCHANGED sending
      BY <1>4 DEF Advance
  <2> QED BY <2>1, <2>2 DEF TypeOK, sending
<1>5. ASSUME NEW c \in Counter, FillGap(c) PROVE TypeOK'
  <2>1. highest - c \in 0 .. (Window - 1)
      BY <1>5, CounterRange DEF FillGap, Behind, TypeOK
  <2> QED BY <1>5, <2>1 DEF FillGap, TypeOK, sending
<1>6. ASSUME NEW c \in Counter, Reject(c) PROVE TypeOK'
    BY <1>6 DEF Reject, TypeOK, sending
<1>7. CASE UNCHANGED vars
    BY <1>7 DEF vars, sending, window, TypeOK
<1> QED BY <1>1, <1>2, <1>3, <1>4, <1>5, <1>6, <1>7 DEF Next

LEMMA SendInductive ==
    ASSUME SendInv, [Next]_vars
    PROVE  SendInv'
<1> USE ChannelAssumption
<1>t. TypeOK /\ TypeOK'
    BY TypeInductive DEF SendInv
<1>d. DOMAIN held = Sender /\ next \in Nat /\ \A s \in Sender : held[s] \in Nat
    BY <1>t, CounterRange DEF TypeOK
<1>n. net \subseteq Nat
    BY <1>t, CounterRange DEF TypeOK
<1>u. /\ \A s \in Sender : held[s] # 0 => held[s] < Base + next
      /\ \A c \in net : c < Base + next
      /\ \A s \in Sender : held[s] # 0 => held[s] \notin net /\ \A t \in Sender \ {s} : held[t] # held[s]
    BY DEF SendInv, UsedBelow, CounterUnique
<1>1. ASSUME NEW s \in Sender, Encode(s) PROVE UsedBelow' /\ CounterUnique'
  <2>1. /\ \A t \in Sender : held'[t] = IF t = s THEN Base + next ELSE held[t]
        /\ next' = next + 1 /\ net' = net
      BY <1>1, <1>d DEF Encode
  <2> QED BY <2>1, <1>d, <1>n, <1>u DEF UsedBelow, CounterUnique
<1>2. ASSUME NEW s \in Sender, SendDatagram(s) PROVE UsedBelow' /\ CounterUnique'
  <2>1. /\ \A t \in Sender : held'[t] = IF t = s THEN 0 ELSE held[t]
        /\ next' = next /\ net' = net \cup {held[s]} /\ held[s] # 0
      BY <1>2, <1>d DEF SendDatagram
  <2> QED BY <2>1, <1>d, <1>u DEF UsedBelow, CounterUnique
<1>3. ASSUME NEW s \in Sender, FallBack(s) PROVE UsedBelow' /\ CounterUnique'
  <2>1. /\ \A t \in Sender : held'[t] = IF t = s THEN 0 ELSE held[t]
        /\ next' = next /\ net' = net
      BY <1>3, <1>d DEF FallBack
  <2> QED BY <2>1, <1>d, <1>u DEF UsedBelow, CounterUnique
<1>4. ASSUME UNCHANGED sending PROVE UsedBelow' /\ CounterUnique'
    BY <1>4, <1>u DEF sending, UsedBelow, CounterUnique
<1>5. UsedBelow' /\ CounterUnique'
    BY <1>1, <1>2, <1>3, <1>4, WindowStep DEF Next, vars
<1> QED BY <1>t, <1>5 DEF SendInv

(* No two frames of one direction are sealed with the same counter, for    *)
(* any number of tasks sharing its generator.                              *)
THEOREM CountersAreUnique == Spec => []CounterUnique
<1>1. SendInv => CounterUnique
    BY DEF SendInv
<1> QED BY <1>1, SendInitially, SendInductive, PTL DEF Spec

-----------------------------------------------------------------------------
WindowInv == TypeOK /\ MaskExact

LEMMA WindowInitially == Init => WindowInv
BY ChannelAssumption DEF Init, WindowInv, TypeOK, MaskExact

(* Every step keeps the mask equal to the last Window accepted counters. *)
LEMMA WindowInductive ==
    ASSUME WindowInv, [Next]_vars
    PROVE  WindowInv'
<1> USE ChannelAssumption
<1>t. TypeOK /\ TypeOK'
    BY TypeInductive DEF WindowInv
<1>m. /\ highest = 0 <=> seen = {}
      /\ highest # 0 => highest \in seen /\ \A c \in seen : c <= highest
      /\ \A d \in 0 .. (Window - 1) : d \in mask <=> (highest # 0 /\ highest - d \in seen)
    BY DEF WindowInv, MaskExact
<1>n. highest \in Nat /\ seen \subseteq Nat /\ 0 \notin seen /\ mask \subseteq 0 .. (Window - 1)
    BY <1>t, CounterRange DEF TypeOK
<1>1. ASSUME NEW c \in Counter, Advance(c) PROVE MaskExact'
  <2>0. c \in Nat /\ c # 0 /\ highest' = c /\ seen' = seen \cup {c}
      BY <1>1, CounterRange DEF Advance
  <2>1. CASE highest = 0
    <3>1. mask' = {0} /\ seen' = {c}
        BY <1>1, <2>0, <2>1, <1>m DEF Advance, First
    <3> QED BY <3>1, <2>0 DEF MaskExact
  <2>2. CASE highest # 0
    <3>1. c > highest /\ mask' = Shifted(c - highest) \cup {0}
        BY <1>1, <2>2 DEF Advance, First, Ahead
    <3>2. \A e \in seen : e <= highest /\ e < c
        BY <1>m, <1>n, <2>0, <2>2, <3>1
    <3>3. ASSUME NEW d \in 0 .. (Window - 1)
          PROVE  d \in mask' <=> c - d \in seen'
      <4>1. CASE d = 0
          BY <4>1, <3>1, <2>0
      <4>2. CASE d # 0
        <5>0. c - d # c
            BY <4>2, <2>0
        <5>1. CASE c - highest >= Window
          <6>1. Shifted(c - highest) = {}
              BY <5>1 DEF Shifted
          <6>2. c - d \notin seen
              BY <5>1, <3>2, <1>n, <2>0
          <6> QED BY <6>1, <6>2, <5>0, <4>2, <3>1, <2>0
        <5>2. CASE ~(c - highest >= Window)
          <6>1. d \in mask' <=> \E b \in mask : d = b + (c - highest)
              BY <5>2, <4>2, <3>1 DEF Shifted
          <6> DEFINE b == d - (c - highest)
          <6>2. d \in mask' <=> b \in mask
              BY <6>1, <1>n, <2>0
          <6>3. highest - b = c - d
              BY <1>n, <2>0
          <6>4. CASE b \in 0 .. (Window - 1)
            <7> HIDE DEF b
            <7>1. b \in mask <=> highest - b \in seen
                BY <6>4, <1>m, <2>2
            <7> QED BY <7>1, <6>2, <6>3, <5>0, <2>0
          <6>5. CASE b \notin 0 .. (Window - 1)
            <7>1. b < 0
                BY <6>5, <3>1, <1>n, <2>0
            <7>2. c - d \notin seen
                BY <7>1, <3>2, <1>n, <2>0
            <7> QED BY <7>2, <6>2, <6>5, <1>n, <5>0, <2>0
          <6> QED BY <6>4, <6>5
        <5> QED BY <5>1, <5>2
      <4> QED BY <4>1, <4>2
    <3>4. highest' # 0 /\ highest' \in seen' /\ seen' # {}
        BY <2>0
    <3>5. \A e \in seen' : e <= highest'
        BY <3>2, <2>0, <1>n
    <3>6. \A d \in 0 .. (Window - 1) : d \in mask' <=> (highest' # 0 /\ highest' - d \in seen')
        BY <3>3, <2>0
    <3> QED BY <3>4, <3>5, <3>6 DEF MaskExact
  <2> QED BY <2>1, <2>2
<1>2. ASSUME NEW c \in Counter, FillGap(c) PROVE MaskExact'
  <2>0. /\ c \in Nat /\ c # 0 /\ highest' = highest /\ seen' = seen \cup {c} /\ highest # 0
        /\ c <= highest /\ mask' = mask \cup {highest - c}
      BY <1>2, CounterRange DEF FillGap, Behind
  <2>1. ASSUME NEW d \in 0 .. (Window - 1)
        PROVE  d \in mask' <=> highest - d \in seen'
    <3>1. d = highest - c <=> highest - d = c
        BY <2>0, <1>n
    <3> QED BY <3>1, <2>0, <1>m
  <2> QED BY <2>0, <2>1, <1>m DEF MaskExact
<1>3. ASSUME UNCHANGED <<highest, mask, seen>> PROVE MaskExact'
    BY <1>3, <1>m DEF MaskExact
<1>4. MaskExact'
    BY <1>1, <1>2, <1>3 DEF Next, vars, window, Encode, SendDatagram, FallBack, Reject
<1> QED BY <1>t, <1>4 DEF WindowInv

LEMMA WindowInvariant == Spec => []WindowInv
BY WindowInitially, WindowInductive, PTL DEF Spec

(* The replay window's bits are exactly the recent accepted counters. *)
THEOREM MaskIsExact == Spec => []MaskExact
<1>1. WindowInv => MaskExact
    BY DEF WindowInv
<1> QED BY <1>1, WindowInvariant, PTL

(* The verdict of the bit window is the verdict of the unbounded filter. *)
LEMMA VerdictAgrees ==
    ASSUME WindowInv, NEW c \in Counter
    PROVE  Filter!Acceptable(c) <=> First(c) \/ Ahead(c) \/ Behind(c)
<1> USE ChannelAssumption
<1>m. /\ highest = 0 <=> seen = {}
      /\ highest # 0 => highest \in seen /\ \A d \in seen : d <= highest
      /\ \A d \in 0 .. (Window - 1) : d \in mask <=> (highest # 0 /\ highest - d \in seen)
    BY DEF WindowInv, MaskExact
<1>n. highest \in Nat /\ seen \subseteq Nat /\ c \in Nat /\ c # 0
    BY CounterRange DEF WindowInv, TypeOK
<1>1. CASE highest = 0
    BY <1>1, <1>m, <1>n DEF Filter!Acceptable, First
<1>2. CASE highest # 0 /\ c > highest
  <2>1. \A d \in seen : d \in Nat /\ d <= highest
      BY <1>2, <1>m, <1>n
  <2>2. c \notin seen /\ \A d \in seen : d - c < Window
      BY <2>1, <1>2, <1>n
  <2> QED BY <2>2, <1>2, <1>n DEF Filter!Acceptable, Ahead
<1>3. CASE highest # 0 /\ ~(c > highest)
  <2>1. (\A d \in seen : d - c < Window) <=> highest - c < Window
    <3>1. \A d \in seen : d \in Nat /\ d <= highest
        BY <1>3, <1>m, <1>n
    <3> QED BY <3>1, <1>3, <1>m, <1>n
  <2>2. CASE highest - c < Window
    <3>1. highest - c \in 0 .. (Window - 1) /\ highest - (highest - c) = c
        BY <2>2, <1>3, <1>n
    <3>2. highest - c \in mask <=> c \in seen
        BY <3>1, <1>3, <1>m
    <3> QED BY <2>1, <2>2, <3>2, <1>3, <1>n DEF Filter!Acceptable, First, Ahead, Behind
  <2>3. CASE ~(highest - c < Window)
      BY <2>1, <2>3, <1>3, <1>n DEF Filter!Acceptable, First, Ahead, Behind
  <2> QED BY <2>2, <2>3
<1> QED BY <1>1, <1>2, <1>3

(* The datagram channel implements the unbounded filter: the sliding       *)
(* window accepts a counter exactly when it is new and less than Window    *)
(* behind the highest, on every behaviour of the network.                  *)
THEOREM WindowFiltersExactly == Spec => FiltersExactly
<1>1. Init => Filter!Init
    BY DEF Init, Filter!Init
<1>2. ASSUME WindowInv, [Next]_vars
      PROVE  [Filter!Next]_<<seen, answer>>
  <2>1. ASSUME NEW c \in Counter, Advance(c) \/ FillGap(c) PROVE Filter!Next
    <3>1. Filter!Acceptable(c)
        BY <1>2, <2>1, VerdictAgrees DEF Advance, FillGap
    <3>2. Filter!Check(c)
        BY <2>1, <3>1 DEF Filter!Check, Advance, FillGap
    <3> QED BY <3>2 DEF Filter!Next
  <2>2. ASSUME NEW c \in Counter, Reject(c) PROVE Filter!Next
    <3>1. ~Filter!Acceptable(c)
        BY <1>2, <2>2, VerdictAgrees DEF Reject
    <3>2. Filter!Check(c)
        BY <2>2, <3>1 DEF Filter!Check, Reject
    <3> QED BY <3>2 DEF Filter!Next
  <2>3. ASSUME NEW s \in Sender, Encode(s) \/ SendDatagram(s) \/ FallBack(s)
        PROVE  UNCHANGED <<seen, answer>>
      BY <2>3 DEF Encode, SendDatagram, FallBack, window
  <2>4. CASE UNCHANGED vars
      BY <2>4 DEF vars, window
  <2> QED BY <1>2, <2>1, <2>2, <2>3, <2>4 DEF Next
<1> QED BY <1>1, <1>2, WindowInvariant, PTL DEF Spec, Filter!Spec, FiltersExactly

=============================================================================
