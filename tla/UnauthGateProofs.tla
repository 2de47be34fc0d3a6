--------------------------- MODULE UnauthGateProofs ---------------------------
(***************************************************************************)
(* The unauthenticated-connection gate is correct for every set of peers   *)
(* and addresses and every pair of caps.                                   *)
(*                                                                         *)
(* CountsExact is inductive once the types are known; GateCaps follows     *)
(* from it and from the two counters staying within their caps (CapInv),   *)
(* because the guard's holders are among the attempts counted. In fair     *)
(* behaviours every slot comes back.                                       *)
(***************************************************************************)
EXTENDS UnauthGate, FiniteSetTheorems, TLAPS

(* The counters themselves stay within the caps. *)
CapInv == global <= MaxGlobal /\ \A i \in Ip : per_ip[i] <= MaxPerIp

(* The inductive invariant. *)
GateInv == TypeOK /\ CountsExact /\ CapInv

(* Putting one element in, or taking it out, moves a cardinality by one. *)
LEMMA OneMore ==
    ASSUME NEW S, IsFiniteSet(S), NEW x, x \notin S
    PROVE  Cardinality(S \cup {x}) = Cardinality(S) + 1
BY FS_AddElement

LEMMA OneLess ==
    ASSUME NEW S, IsFiniteSet(S), NEW x, x \in S
    PROVE  Cardinality(S \ {x}) = Cardinality(S) - 1 /\ Cardinality(S) >= 1
<1>1. Cardinality(S \ {x}) = Cardinality(S) - 1
    BY FS_RemoveElement
<1>2. IsFiniteSet(S \ {x})
    BY FS_RemoveElement
<1>3. Cardinality(S \ {x}) \in Nat /\ Cardinality(S) \in Nat
    BY <1>2, FS_CardinalityType
<1> QED BY <1>1, <1>3

(* The sets of attempts that are counted are finite. *)
LEMMA CountedFinite ==
    /\ IsFiniteSet(CountedGlobally)
    /\ IsFiniteSet(Holders)
    /\ \A i : IsFiniteSet(CountedAt(i))
<1>1. IsFiniteSet(Peer)
    BY GateAssumption
<1>2. CountedGlobally \subseteq Peer /\ Holders \subseteq Peer
    BY DEF CountedGlobally, Holders
<1>3. \A i : CountedAt(i) \subseteq Peer
    BY DEF CountedAt
<1> QED BY <1>1, <1>2, <1>3, FS_Subset

(* Every step preserves the invariant: one step per action, each saying    *)
(* how the counted sets move.                                              *)
LEMMA GateInductive ==
    ASSUME GateInv, [Next]_vars
    PROVE  GateInv'
<1> USE GateAssumption
<1>t. /\ global \in Nat /\ per_ip \in [Ip -> Nat] /\ ip \in [Peer -> Ip \cup {NoIp}]
      /\ pc \in [Peer -> {"idle", "global", "undo", "drop", "drop_ip"} \cup Guarded]
      /\ TypeOK
    BY DEF GateInv, TypeOK
<1>d. DOMAIN pc = Peer
    BY <1>t
<1>c. /\ global = Cardinality(CountedGlobally) /\ global <= MaxGlobal
      /\ \A i \in Ip : per_ip[i] = Cardinality(CountedAt(i)) /\ per_ip[i] <= MaxPerIp
    BY DEF GateInv, CountsExact, CapInv
<1>f. IsFiniteSet(CountedGlobally) /\ \A i : IsFiniteSet(CountedAt(i))
    BY CountedFinite
<1>g. Guarded = {"request", "stream", "auth"}
    BY DEF Guarded
\* it is enough to know the types and the two counts after the step
<1>q. ASSUME TypeOK', CountsExact', CapInv' PROVE GateInv'
    BY <1>q DEF GateInv
\* a step that moves p between two phases that are counted alike changes no set
<1>same. ASSUME NEW p \in Peer, NEW v, pc' = [pc EXCEPT ![p] = v], UNCHANGED ip,
                v \in Guarded \cup {"drop"} <=> pc[p] \in Guarded \cup {"drop"},
                v # "idle" <=> pc[p] # "idle"
         PROVE  CountedGlobally' = CountedGlobally /\ \A i : CountedAt(i)' = CountedAt(i)
  <2>3. CountedGlobally' = CountedGlobally
      BY <1>d, <1>same DEF CountedGlobally
  <2>4. ASSUME NEW i PROVE CountedAt(i)' = CountedAt(i)
      BY <1>d, <1>same DEF CountedAt
  <2> QED BY <2>3, <2>4
\* p leaves the attempts counted at its address, as its release says
<1>release. ASSUME NEW p \in Peer, pc[p] # "idle", pc' = [pc EXCEPT ![p] = "idle"],
                   pc[p] \notin Guarded \cup {"drop"}, UNCHANGED <<global, ip>>,
                   per_ip' = ReleasedIp(p)
            PROVE  GateInv'
  <2>1. CountedGlobally' = CountedGlobally
    <3>1. CountedGlobally' = CountedGlobally \ {p}
        BY <1>d, <1>release, <1>g DEF CountedGlobally
    <3>2. p \notin CountedGlobally
        BY <1>release DEF CountedGlobally
    <3> QED BY <3>1, <3>2
  <2>2. \A i : CountedAt(i)' = CountedAt(i) \ {p}
      BY <1>d, <1>release DEF CountedAt
  <2>3. \A i : p \in CountedAt(i) <=> ip[p] = i
      BY <1>release DEF CountedAt
  <2>4. ASSUME NEW i \in Ip
        PROVE  per_ip'[i] \in Nat /\ per_ip'[i] = Cardinality(CountedAt(i)') /\ per_ip'[i] <= MaxPerIp
    <3>1. CASE ip[p] = i
      <4>1. Cardinality(CountedAt(i) \ {p}) = Cardinality(CountedAt(i)) - 1 /\ Cardinality(CountedAt(i)) >= 1
          BY <3>1, <2>3, <1>f, OneLess
      <4>2. per_ip'[i] = IF per_ip[i] = 0 THEN 0 ELSE per_ip[i] - 1
          BY <3>1, <1>t, <1>release DEF ReleasedIp
      <4>3. CountedAt(i)' = CountedAt(i) \ {p}
          BY <2>2
      <4>4. per_ip[i] \in Nat /\ per_ip[i] = Cardinality(CountedAt(i)) /\ per_ip[i] <= MaxPerIp
          BY <1>c, <1>t
      <4> QED BY <4>1, <4>2, <4>3, <4>4
    <3>2. CASE ip[p] # i
      <4>1. per_ip'[i] = per_ip[i]
          BY <3>2, <1>t, <1>release DEF ReleasedIp
      <4>2. CountedAt(i)' = CountedAt(i)
          BY <2>2, <2>3, <3>2
      <4> QED BY <4>1, <4>2, <1>c, <1>t
    <3> QED BY <3>1, <3>2
  <2>5. per_ip' \in [Ip -> Nat]
    <3>1. per_ip' = [i \in Ip |-> per_ip'[i]]
        BY <1>t, <1>release DEF ReleasedIp
    <3> QED BY <3>1, <2>4
  <2>6. TypeOK'
      BY <1>t, <1>release, <2>5 DEF TypeOK
  <2>7. CountsExact' /\ CapInv'
      BY <2>1, <2>4, <1>c, <1>release DEF CountsExact, CapInv
  <2> QED BY <2>6, <2>7, <1>q
<1>1. ASSUME NEW p \in Peer, CountIp(p) PROVE GateInv'
  <2>0. /\ pc[p] = "idle" /\ pc' = [pc EXCEPT ![p] = "global"] /\ UNCHANGED <<global, ip>>
      BY <1>1 DEF CountIp
  <2>1. CountedGlobally' = CountedGlobally
    <3>1. CountedGlobally' = CountedGlobally \ {p}
        BY <1>d, <2>0, <1>g DEF CountedGlobally
    <3>2. p \notin CountedGlobally
        BY <2>0, <1>g DEF CountedGlobally
    <3> QED BY <3>1, <3>2
  <2>2. \A i : CountedAt(i)' = IF ip[p] = i THEN CountedAt(i) \cup {p} ELSE CountedAt(i) \ {p}
      BY <1>d, <2>0 DEF CountedAt
  <2>3. \A i : p \notin CountedAt(i)
      BY <2>0 DEF CountedAt
  <2>4. ASSUME NEW i \in Ip
        PROVE  per_ip'[i] \in Nat /\ per_ip'[i] = Cardinality(CountedAt(i)') /\ per_ip'[i] <= MaxPerIp
    <3>1. CASE ip[p] = i
      <4>1. Cardinality(CountedAt(i) \cup {p}) = Cardinality(CountedAt(i)) + 1
          BY <2>3, <1>f, OneMore
      <4>2. per_ip'[i] = per_ip[i] + 1 /\ per_ip[i] < MaxPerIp
          BY <3>1, <1>t, <1>1 DEF CountIp
      <4>3. CountedAt(i)' = CountedAt(i) \cup {p}
          BY <2>2, <3>1
      <4>4. per_ip[i] \in Nat /\ per_ip[i] = Cardinality(CountedAt(i))
          BY <1>c, <1>t
      <4> QED BY <4>1, <4>2, <4>3, <4>4
    <3>2. CASE ip[p] # i
      <4>1. per_ip'[i] = per_ip[i]
          BY <3>2, <1>t, <1>1 DEF CountIp
      <4>2. CountedAt(i)' = CountedAt(i)
          BY <2>2, <2>3, <3>2
      <4> QED BY <4>1, <4>2, <1>c, <1>t
    <3> QED BY <3>1, <3>2
  <2>5. per_ip' \in [Ip -> Nat]
    <3>1. per_ip' = [i \in Ip |-> per_ip'[i]]
        BY <1>t, <1>1 DEF CountIp
    <3> QED BY <3>1, <2>4
  <2>6. TypeOK'
      BY <1>t, <2>0, <2>5 DEF TypeOK
  <2>7. CountsExact' /\ CapInv'
      BY <2>1, <2>4, <1>c, <2>0 DEF CountsExact, CapInv
  <2> QED BY <2>6, <2>7, <1>q
<1>2. ASSUME NEW p \in Peer, TakeGlobal(p) PROVE GateInv'
  <2>0. pc[p] = "global" /\ UNCHANGED <<per_ip, ip>>
      BY <1>2 DEF TakeGlobal
  <2>1. CASE global >= MaxGlobal
    <3>1. pc' = [pc EXCEPT ![p] = "undo"] /\ global' = global
        BY <1>2, <2>1 DEF TakeGlobal
    <3>2. CountedGlobally' = CountedGlobally /\ \A i : CountedAt(i)' = CountedAt(i)
        BY <3>1, <2>0, <1>g, <1>same
    <3>3. TypeOK'
        BY <1>t, <2>0, <3>1 DEF TypeOK
    <3> QED BY <3>1, <3>2, <3>3, <2>0, <1>c, <1>q DEF CountsExact, CapInv
  <2>2. CASE ~(global >= MaxGlobal)
    <3> DEFINE v == IF ip[p] = NoIp THEN "auth" ELSE "request"
    <3>1. pc' = [pc EXCEPT ![p] = v] /\ global' = global + 1
        BY <1>2, <2>2 DEF TakeGlobal
    <3>2. v \in Guarded /\ v # "idle"
        BY <1>g
    <3> HIDE DEF v
    <3>3. CountedGlobally' = CountedGlobally \cup {p}
        BY <1>d, <2>0, <3>1, <3>2 DEF CountedGlobally
    <3>4. p \notin CountedGlobally /\ \A i : p \in CountedAt(i) <=> ip[p] = i
        BY <2>0, <1>g DEF CountedGlobally, CountedAt
    <3>5. ASSUME NEW i PROVE CountedAt(i)' = CountedAt(i)
        BY <1>d, <2>0, <3>1, <3>2 DEF CountedAt
    <3>6. global' = Cardinality(CountedGlobally') /\ global' <= MaxGlobal
      <4>1. Cardinality(CountedGlobally \cup {p}) = Cardinality(CountedGlobally) + 1
          BY <3>4, <1>f, OneMore
      <4> QED BY <4>1, <3>1, <3>3, <1>c, <1>t, <2>2
    <3>7. TypeOK'
        BY <1>t, <2>0, <3>1, <3>2 DEF TypeOK
    <3> QED BY <3>5, <3>6, <3>7, <2>0, <1>c, <1>q DEF CountsExact, CapInv
  <2> QED BY <2>1, <2>2
<1>3. ASSUME NEW p \in Peer, Refuse(p) PROVE GateInv'
    BY <1>3, <1>g, <1>release DEF Refuse
<1>4. ASSUME NEW p \in Peer, SessionAccepted(p) \/ StreamAccepted(p) \/ GuardDropped(p)
      PROVE  GateInv'
  <2>0. PICK v \in {"stream", "auth", "drop"} : pc' = [pc EXCEPT ![p] = v]
      BY <1>4 DEF SessionAccepted, StreamAccepted, GuardDropped
  <2>1. pc[p] \in Guarded /\ UNCHANGED <<global, per_ip, ip>>
      BY <1>4, <1>g DEF SessionAccepted, StreamAccepted, GuardDropped
  <2>2. CountedGlobally' = CountedGlobally /\ \A i : CountedAt(i)' = CountedAt(i)
      BY <2>0, <2>1, <1>g, <1>same
  <2>3. TypeOK'
      BY <1>t, <1>g, <2>0, <2>1 DEF TypeOK
  <2> QED BY <2>1, <2>2, <2>3, <1>c, <1>q DEF CountsExact, CapInv
<1>5. ASSUME NEW p \in Peer, DropGlobal(p) PROVE GateInv'
  <2>0. /\ pc[p] = "drop" /\ pc' = [pc EXCEPT ![p] = "drop_ip"] /\ UNCHANGED <<per_ip, ip>>
        /\ global' = global - 1
      BY <1>5 DEF DropGlobal
  <2>1. CountedGlobally' = CountedGlobally \ {p}
      BY <1>d, <1>g, <2>0 DEF CountedGlobally
  <2>2. p \in CountedGlobally /\ \A i : p \in CountedAt(i) <=> ip[p] = i
      BY <2>0 DEF CountedGlobally, CountedAt
  <2>3. ASSUME NEW i PROVE CountedAt(i)' = CountedAt(i)
      BY <1>d, <2>0 DEF CountedAt
  <2>4. global' = Cardinality(CountedGlobally') /\ global' <= MaxGlobal /\ global' \in Nat
    <3>1. Cardinality(CountedGlobally \ {p}) = Cardinality(CountedGlobally) - 1 /\ Cardinality(CountedGlobally) >= 1
        BY <2>2, <1>f, OneLess
    <3> QED BY <3>1, <2>0, <2>1, <1>c, <1>t
  <2>5. TypeOK'
      BY <1>t, <2>0, <2>4 DEF TypeOK
  <2> QED BY <2>3, <2>4, <2>5, <2>0, <1>c, <1>q DEF CountsExact, CapInv
<1>6. ASSUME NEW p \in Peer, DropIp(p) PROVE GateInv'
    BY <1>6, <1>g, <1>release DEF DropIp
<1>7. ASSUME UNCHANGED vars PROVE GateInv'
    BY <1>7 DEF vars, GateInv, TypeOK, CountsExact, CapInv, CountedGlobally, CountedAt
<1> QED
  <2>1. CASE Next
      BY <2>1, <1>1, <1>2, <1>3, <1>4, <1>5, <1>6 DEF Next
  <2>2. CASE UNCHANGED vars
      BY <2>2, <1>7
  <2> QED BY <2>1, <2>2

LEMMA GateInitially == Init => GateInv
<1> SUFFICES ASSUME Init PROVE GateInv
    OBVIOUS
<1>1. CountedGlobally = {} /\ \A i : CountedAt(i) = {}
    BY DEF Init, CountedGlobally, CountedAt, Guarded
<1>2. Cardinality({}) = 0
    BY FS_EmptySet
<1>3. TypeOK
    BY DEF Init, TypeOK
<1>4. CountsExact /\ CapInv
    BY <1>1, <1>2, GateAssumption DEF Init, CountsExact, CapInv
<1> QED BY <1>3, <1>4 DEF GateInv

LEMMA GateInvariant == Spec => []GateInv
BY GateInitially, GateInductive, PTL DEF Spec

(* Neither count of the gate ever drifts from the guards and attempts it   *)
(* stands for, for any number of peers and addresses.                      *)
THEOREM GateCountsAreExact == Spec => []CountsExact
<1>1. GateInv => CountsExact
    BY DEF GateInv
<1> QED BY <1>1, GateInvariant, PTL

(* No more connections hold a guard than the caps allow, globally and per  *)
(* address, whatever the caps are.                                         *)
THEOREM GateCapsHold == Spec => []GateCaps
<1>1. GateInv => GateCaps
  <2> SUFFICES ASSUME GateInv PROVE GateCaps
      OBVIOUS
  <2>1. /\ global = Cardinality(CountedGlobally) /\ global <= MaxGlobal /\ global \in Nat
        /\ \A i \in Ip : per_ip[i] = Cardinality(CountedAt(i)) /\ per_ip[i] <= MaxPerIp /\ per_ip[i] \in Nat
      BY DEF GateInv, CountsExact, CapInv, TypeOK
  <2>2. Holders \subseteq CountedGlobally
      BY DEF Holders, CountedGlobally
  <2>3. Cardinality(Holders) <= MaxGlobal
    <3>1. Cardinality(Holders) <= Cardinality(CountedGlobally) /\ Cardinality(Holders) \in Nat
        BY <2>2, CountedFinite, FS_Subset, FS_CardinalityType
    <3> QED BY <3>1, <2>1, GateAssumption
  <2>4. ASSUME NEW i \in Ip PROVE Cardinality({p \in Holders : ip[p] = i}) <= MaxPerIp
    <3> DEFINE H == {p \in Holders : ip[p] = i}
    <3>1. H \subseteq CountedAt(i)
        BY DEF Holders, CountedAt, Guarded
    <3> HIDE DEF H
    <3>2. Cardinality(H) <= Cardinality(CountedAt(i)) /\ Cardinality(H) \in Nat
        BY <3>1, CountedFinite, FS_Subset, FS_CardinalityType
    <3>3. Cardinality(H) <= MaxPerIp
        BY <3>2, <2>1, GateAssumption
    <3> QED BY <3>3 DEF H
  <2> QED BY <2>3, <2>4 DEF GateCaps
<1> QED BY <1>1, GateInvariant, PTL

-----------------------------------------------------------------------------
(* Liveness. No backend reasons about ENABLED, so the one fact about it    *)
(* that weak fairness needs is a hypothesis: at a point where its guard    *)
(* holds, a step can be taken. Both steps are a guard and assignments.     *)
GuardsEnable ==
    \A p \in Peer :
        /\ [](pc[p] \in {"stream", "auth"} => ENABLED <<TimesOut(p)>>_vars)
        /\ [](pc[p] \in {"drop", "drop_ip"} => ENABLED <<Runs(p)>>_vars)

(* A guard on its way out moves forward only, one step of its own task at  *)
(* a time, and no other task moves it.                                     *)
LEMMA GuardGoesForward ==
    ASSUME NEW p \in Peer, TypeOK, [Next]_vars
    PROVE  /\ pc[p] \in {"stream", "auth"} => pc'[p] \in {"stream", "auth", "drop"}
           /\ pc[p] = "drop" => pc'[p] \in {"drop", "drop_ip"}
           /\ pc[p] = "drop_ip" => pc'[p] \in {"drop_ip", "idle"}
<1> USE DEF TypeOK
<1>1. CASE UNCHANGED vars
    BY <1>1 DEF vars
<1>2. ASSUME NEW q \in Peer,
             \/ CountIp(q) \/ TakeGlobal(q) \/ Refuse(q)
             \/ SessionAccepted(q) \/ StreamAccepted(q) \/ GuardDropped(q)
             \/ DropGlobal(q) \/ DropIp(q)
      PROVE  /\ q # p => pc'[p] = pc[p]
             /\ pc[q] \in {"stream", "auth"} => pc'[q] \in {"auth", "drop"}
             /\ pc[q] = "drop" => pc'[q] = "drop_ip"
             /\ pc[q] = "drop_ip" => pc'[q] = "idle"
    BY <1>2 DEF CountIp, TakeGlobal, Refuse, SessionAccepted, StreamAccepted, GuardDropped,
                DropGlobal, DropIp, Guarded
<1> QED BY <1>1, <1>2 DEF Next

(* A peer that stays silent after its session was accepted gives its slot  *)
(* back and is uncounted, in every fair behaviour, whatever the other      *)
(* peers do: AUTH_TIMEOUT drops the guard, and the drop goes through both  *)
(* of its releases.                                                        *)
THEOREM SlotsComeBack == FairSpec /\ GuardsEnable => SlotReturned
<1> SUFFICES ASSUME NEW p \in Peer
             PROVE  FairSpec /\ GuardsEnable => (pc[p] \in {"stream", "auth"} ~> pc[p] = "idle")
    BY DEF SlotReturned
<1> DEFINE Silent == pc[p] \in {"stream", "auth"}
           Drop   == pc[p] = "drop"
           Uncount == pc[p] = "drop_ip"
           Idle   == pc[p] = "idle"
<1>1. TypeOK /\ Silent /\ [Next]_vars => Silent' \/ Drop'
    BY GuardGoesForward
<1>2. TypeOK /\ Silent /\ <<TimesOut(p)>>_vars => Drop'
    BY DEF TypeOK, TimesOut, GuardDropped
<1>3. TypeOK /\ Drop /\ [Next]_vars => Drop' \/ Uncount'
    BY GuardGoesForward
<1>4. TypeOK /\ Drop /\ <<Runs(p)>>_vars => Uncount'
    BY DEF TypeOK, Runs, TakeGlobal, Refuse, DropGlobal, DropIp
<1>5. TypeOK /\ Uncount /\ [Next]_vars => Uncount' \/ Idle'
    BY GuardGoesForward
<1>6. TypeOK /\ Uncount /\ <<Runs(p)>>_vars => Idle'
    BY DEF TypeOK, Runs, TakeGlobal, Refuse, DropGlobal, DropIp
<1>7. FairSpec => Spec /\ Fairness(p)
    BY DEF FairSpec
<1>8. GuardsEnable => /\ [](Silent => ENABLED <<TimesOut(p)>>_vars)
                      /\ [](Drop \/ Uncount => ENABLED <<Runs(p)>>_vars)
  <2>1. GuardsEnable => /\ [](pc[p] \in {"stream", "auth"} => ENABLED <<TimesOut(p)>>_vars)
                        /\ [](pc[p] \in {"drop", "drop_ip"} => ENABLED <<Runs(p)>>_vars)
      BY DEF GuardsEnable
  <2>2. Drop \/ Uncount => pc[p] \in {"drop", "drop_ip"}
      OBVIOUS
  <2> QED BY <2>1, <2>2, PTL
<1>9. Spec => []TypeOK
  <2>1. GateInv => TypeOK
      BY DEF GateInv
  <2> QED BY <2>1, GateInvariant, PTL
<1> HIDE DEF Silent, Drop, Uncount, Idle
<1>10. FairSpec /\ GuardsEnable => (Silent ~> Idle)
    BY <1>1, <1>2, <1>3, <1>4, <1>5, <1>6, <1>7, <1>8, <1>9, PTL DEF Spec, Fairness
<1> QED BY <1>10 DEF Silent, Idle

=============================================================================
