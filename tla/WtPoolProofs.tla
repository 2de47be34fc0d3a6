----------------------------- MODULE WtPoolProofs -----------------------------
(***************************************************************************)
(* The per-connection session count of the client's pool is exact, and the *)
(* limit on admitted sessions holds, for every number of connections and   *)
(* callers, every pool size and every limit.                               *)
(*                                                                         *)
(* SessionsExact is inductive given the types: a caller is in Counted from *)
(* its fetch_add to its fetch_sub, and is admitted only when the fetch_add *)
(* returned less than the limit, that is, when fewer callers were counted. *)
(*                                                                         *)
(* In fair behaviours retired connections are closed, requests end and     *)
(* dead connections leave the pool at the maintenance tick.                *)
(***************************************************************************)
EXTENDS WtPool, FiniteSetTheorems, TLAPS

LEMMA PoolTypeInitially == Init => TypeOK
BY FS_EmptySet DEF Init, TypeOK

(* The labels a caller may be sent to by an action that has a connection. *)
Label == {"idle", "dial", "push", "have", "count", "opening", "reply", "open", "uncount", "uncount_kill",
          "kill", "pend", "ask", "wait", "unpend", "route", "assoc"}

(* Moving a caller keeps the types of pc and at. *)
LEMMA GotoType ==
    ASSUME TypeOK, NEW k \in Caller, NEW l \in Label, Goto(k, l),
           l \in {"idle", "dial"} \/ at[k] \in Conn
    PROVE  /\ pc' \in [Caller -> Label]
           /\ at' \in [Caller -> Conn \cup {NoConn}]
           /\ \A j \in Caller : pc'[j] \notin {"idle", "dial"} => at'[j] \in Conn
BY DEF TypeOK, Goto, Label

LEMMA GotoArrives ==
    ASSUME TypeOK, NEW k \in Caller, NEW l, Goto(k, l)
    PROVE  pc'[k] = l
BY DEF TypeOK, Goto

(* A caller that left the idle and dial labels has a connection. *)
LEMMA HasConn ==
    ASSUME TypeOK, NEW k \in Caller, pc[k] \notin {"idle", "dial"}
    PROVE  at[k] \in Conn
BY DEF TypeOK

(* A caller is counted exactly once on the connection it holds, so moving  *)
(* it changes one set at most.                                             *)
LEMMA GotoMoves ==
    ASSUME TypeOK, NEW k \in Caller, NEW l, Goto(k, l), NEW c \in Conn
    PROVE  /\ Counted(c)' = IF at[k] = c /\ l \in {"opening", "reply", "open", "uncount", "uncount_kill"}
                             THEN Counted(c) \cup {k} ELSE Counted(c) \ {k}
           /\ Admitted(c)' = IF at[k] = c /\ l \in {"opening", "reply", "open"}
                              THEN Admitted(c) \cup {k} ELSE Admitted(c) \ {k}
<1>d. DOMAIN pc = Caller /\ DOMAIN at = Caller /\ NoConn \notin Conn
    BY PoolAssumption DEF TypeOK
<1>1. \A j \in Caller : pc'[j] = IF j = k THEN l ELSE pc[j]
    BY <1>d DEF Goto
<1>2. \A j \in Caller : at'[j] = IF j = k /\ l = "idle" THEN NoConn ELSE at[j]
    BY <1>d DEF Goto
<1>3. CASE l = "idle"
    BY <1>1, <1>2, <1>3, <1>d DEF Counted, Admitted
<1>4. CASE l # "idle"
    BY <1>1, <1>2, <1>4 DEF Counted, Admitted
<1> QED BY <1>3, <1>4

InCount == {"opening", "reply", "open", "uncount", "uncount_kill"}
Inside == {"opening", "reply", "open"}

LEMMA PoolFinite == \A c : IsFiniteSet(Counted(c)) /\ IsFiniteSet(Admitted(c))
<1>1. \A c : Counted(c) \subseteq Caller /\ Admitted(c) \subseteq Caller
    BY DEF Counted, Admitted
<1> QED BY <1>1, PoolAssumption, FS_Subset

(* The counts stay exact when no counted set changes and nobody is admitted. *)
LEMMA SameCounts ==
    ASSUME TypeOK, SessionsExact, sessions' = sessions,
           \A c \in Conn : Counted(c)' = Counted(c) /\ Admitted(c)' \subseteq Admitted(c)
    PROVE  SessionsExact'
<1>1. ASSUME NEW c \in Conn
      PROVE  sessions'[c] = Cardinality(Counted(c)') /\ Cardinality(Admitted(c)') <= MaxPerConn
  <2>1. sessions[c] = Cardinality(Counted(c)) /\ Cardinality(Admitted(c)) <= MaxPerConn
      BY DEF SessionsExact
  <2>2. /\ Cardinality(Admitted(c)') <= Cardinality(Admitted(c))
        /\ Cardinality(Admitted(c)') \in Nat /\ Cardinality(Admitted(c)) \in Nat
      BY PoolFinite, FS_Subset, FS_CardinalityType
  <2> QED BY <2>1, <2>2, PoolAssumption
<1> QED BY <1>1 DEF SessionsExact

(* A move that neither enters nor leaves the counted labels. *)
LEMMA QuietMove ==
    ASSUME TypeOK, SessionsExact, NEW k \in Caller, NEW l, Goto(k, l), sessions' = sessions,
           l \in InCount <=> pc[k] \in InCount, l \in Inside => pc[k] \in Inside
    PROVE  SessionsExact'
<1>1. ASSUME NEW c \in Conn
      PROVE  Counted(c)' = Counted(c) /\ Admitted(c)' \subseteq Admitted(c)
  <2>1. /\ k \in Counted(c) <=> at[k] = c /\ pc[k] \in InCount
        /\ k \in Admitted(c) <=> at[k] = c /\ pc[k] \in Inside
      BY DEF Counted, Admitted, InCount, Inside
  <2>2. /\ Counted(c)' = IF at[k] = c /\ l \in InCount THEN Counted(c) \cup {k} ELSE Counted(c) \ {k}
        /\ Admitted(c)' = IF at[k] = c /\ l \in Inside THEN Admitted(c) \cup {k} ELSE Admitted(c) \ {k}
      BY GotoMoves DEF InCount, Inside
  <2>3. Counted(c)' = Counted(c)
    <3>1. CASE at[k] = c /\ l \in InCount
        BY <3>1, <2>1, <2>2
    <3>2. CASE ~(at[k] = c /\ l \in InCount)
        BY <3>2, <2>1, <2>2
    <3> QED BY <3>1, <3>2
  <2>4. Admitted(c)' \subseteq Admitted(c)
    <3>1. CASE at[k] = c /\ l \in Inside
        BY <3>1, <2>1, <2>2
    <3>2. CASE ~(at[k] = c /\ l \in Inside)
        BY <3>2, <2>2
    <3> QED BY <3>1, <3>2
  <2> QED BY <2>3, <2>4
<1> QED BY <1>1, SameCounts

(* A step in which no caller moves. *)
LEMMA NoMove ==
    ASSUME TypeOK, SessionsExact, UNCHANGED <<sessions, pc, at>>
    PROVE  SessionsExact'
<1>1. \A c \in Conn : Counted(c)' = Counted(c) /\ Admitted(c)' = Admitted(c)
    BY DEF Counted, Admitted
<1> QED BY <1>1, SameCounts

(* fetch_add: one more counted, admitted only below the limit. *)
LEMMA CountExact ==
    ASSUME TypeOK, SessionsExact, NEW k \in Caller, Count(k)
    PROVE  SessionsExact' /\ sessions' \in [Conn -> Nat]
<1>k. at[k] \in Conn
    BY HasConn DEF Count
<1> DEFINE l == IF sessions[at[k]] >= MaxPerConn THEN "uncount" ELSE "opening"
<1>l. l \in InCount /\ (l \in Inside => ~(sessions[at[k]] >= MaxPerConn))
    BY DEF InCount, Inside
<1>g. Goto(k, l) /\ pc[k] = "count" /\ sessions' = [sessions EXCEPT ![at[k]] = @ + 1]
    BY DEF Count
<1> HIDE DEF l
<1>s. sessions \in [Conn -> Nat]
    BY DEF TypeOK
<1>1. ASSUME NEW c \in Conn
      PROVE  sessions'[c] = Cardinality(Counted(c)') /\ Cardinality(Admitted(c)') <= MaxPerConn
  <2>0. /\ sessions[c] = Cardinality(Counted(c)) /\ Cardinality(Admitted(c)) <= MaxPerConn
        /\ sessions[c] \in Nat
      BY <1>s DEF SessionsExact
  <2>1. k \notin Counted(c) /\ k \notin Admitted(c) /\ Admitted(c) \subseteq Counted(c)
      BY <1>g DEF Counted, Admitted
  <2>2. /\ Counted(c)' = IF at[k] = c /\ l \in InCount THEN Counted(c) \cup {k} ELSE Counted(c) \ {k}
        /\ Admitted(c)' = IF at[k] = c /\ l \in Inside THEN Admitted(c) \cup {k} ELSE Admitted(c) \ {k}
      BY <1>g, GotoMoves DEF InCount, Inside
  <2>3. CASE at[k] # c
    <3>1. Counted(c)' = Counted(c) /\ Admitted(c)' = Admitted(c)
        BY <2>1, <2>2, <2>3
    <3>2. sessions'[c] = sessions[c]
        BY <1>g, <1>s, <2>3
    <3> QED BY <3>1, <3>2, <2>0
  <2>4. CASE at[k] = c
    <3>1. Counted(c)' = Counted(c) \cup {k}
        BY <2>2, <2>4, <1>l
    <3>2. Cardinality(Counted(c) \cup {k}) = Cardinality(Counted(c)) + 1
        BY <2>1, PoolFinite, FS_AddElement
    <3>3. sessions'[c] = sessions[c] + 1
        BY <1>g, <1>s, <2>4
    <3>4. Cardinality(Admitted(c)') <= MaxPerConn
      <4>1. CASE l \in Inside
        <5>1. Admitted(c)' = Admitted(c) \cup {k}
            BY <2>2, <2>4, <4>1
        <5>2. Cardinality(Admitted(c) \cup {k}) = Cardinality(Admitted(c)) + 1
            BY <2>1, PoolFinite, FS_AddElement
        <5>3. Cardinality(Admitted(c)) <= Cardinality(Counted(c)) /\ Cardinality(Admitted(c)) \in Nat
            BY <2>1, PoolFinite, FS_Subset, FS_CardinalityType
        <5>4. ~(sessions[c] >= MaxPerConn)
            BY <1>l, <4>1, <2>4
        <5> QED BY <5>1, <5>2, <5>3, <5>4, <2>0, PoolAssumption
      <4>2. CASE l \notin Inside
        <5>1. Admitted(c)' = Admitted(c)
            BY <2>1, <2>2, <4>2
        <5> QED BY <5>1, <2>0
      <4> QED BY <4>1, <4>2
    <3>5. sessions'[c] = Cardinality(Counted(c)')
        BY <3>1, <3>2, <3>3, <2>0
    <3> QED BY <3>4, <3>5
  <2> QED BY <2>3, <2>4
<1>2. sessions' \in [Conn -> Nat]
    BY <1>g, <1>s, <1>k
<1> QED BY <1>1, <1>2 DEF SessionsExact

(* fetch_sub: the caller was counted, so the count is at least one. *)
LEMMA UncountExact ==
    ASSUME TypeOK, SessionsExact, NEW k \in Caller, Uncount(k)
    PROVE  SessionsExact' /\ sessions' \in [Conn -> Nat]
<1>p. pc[k] \in {"uncount", "uncount_kill"}
    BY DEF Uncount
<1>k. at[k] \in Conn
    BY <1>p, HasConn
<1> DEFINE l == IF pc[k] = "uncount" THEN "idle" ELSE "kill"
<1>l. l \notin InCount /\ l \notin Inside
    BY DEF InCount, Inside
<1>g. Goto(k, l) /\ sessions' = [sessions EXCEPT ![at[k]] = @ - 1]
    BY DEF Uncount
<1> HIDE DEF l
<1>s. sessions \in [Conn -> Nat]
    BY DEF TypeOK
<1>1. ASSUME NEW c \in Conn
      PROVE  /\ sessions'[c] = Cardinality(Counted(c)') /\ sessions'[c] \in Nat
             /\ Cardinality(Admitted(c)') <= MaxPerConn
  <2>0. /\ sessions[c] = Cardinality(Counted(c)) /\ Cardinality(Admitted(c)) <= MaxPerConn
        /\ sessions[c] \in Nat
      BY <1>s DEF SessionsExact
  <2>1. k \in Counted(c) <=> at[k] = c
      BY <1>p DEF Counted
  <2>2. k \notin Admitted(c)
      BY <1>p DEF Admitted
  <2>3. Counted(c)' = Counted(c) \ {k} /\ Admitted(c)' = Admitted(c) \ {k}
      BY <1>g, <1>l, GotoMoves DEF InCount, Inside
  <2>4. Cardinality(Admitted(c)') <= MaxPerConn
    <3>1. Admitted(c)' = Admitted(c)
        BY <2>2, <2>3
    <3> QED BY <3>1, <2>0
  <2>5. sessions'[c] = Cardinality(Counted(c)') /\ sessions'[c] \in Nat
    <3>1. CASE at[k] = c
      <4>1. Cardinality(Counted(c) \ {k}) = Cardinality(Counted(c)) - 1 /\ IsFiniteSet(Counted(c) \ {k})
          BY <2>1, <3>1, PoolFinite, FS_RemoveElement
      <4>2. Cardinality(Counted(c) \ {k}) \in Nat
          BY <4>1, FS_CardinalityType
      <4>3. sessions'[c] = sessions[c] - 1
          BY <1>g, <1>s, <3>1
      <4> QED BY <4>1, <4>2, <4>3, <2>0, <2>3
    <3>2. CASE at[k] # c
      <4>1. sessions'[c] = sessions[c]
          BY <1>g, <1>s, <3>2
      <4>2. Counted(c)' = Counted(c)
          BY <2>1, <2>3, <3>2
      <4> QED BY <4>1, <4>2, <2>0
    <3> QED BY <3>1, <3>2
  <2> QED BY <2>4, <2>5
<1>2. sessions' = [c \in Conn |-> sessions'[c]]
    BY <1>g, <1>s
<1>3. sessions' \in [Conn -> Nat]
    BY <1>1, <1>2
<1> QED BY <1>1, <1>3 DEF SessionsExact

(* A caller that has no connection yet picks one. *)
LEMMA UseMove ==
    ASSUME TypeOK, SessionsExact, NEW k \in Caller, NEW c \in Conn, NEW l \in {"have", "push"},
           pc[k] \in {"idle", "dial"}, Use(k, c, l), sessions' = sessions
    PROVE  /\ SessionsExact'
           /\ pc' \in [Caller -> Label] /\ at' \in [Caller -> Conn \cup {NoConn}]
           /\ \A j \in Caller : pc'[j] \notin {"idle", "dial"} => at'[j] \in Conn
<1>d. DOMAIN pc = Caller /\ DOMAIN at = Caller
    BY DEF TypeOK
<1>1. \A j \in Caller \ {k} : pc'[j] = pc[j] /\ at'[j] = at[j]
    BY <1>d DEF Use
<1>2. pc'[k] = l /\ at'[k] = c
    BY <1>d DEF Use
<1>3. \A d \in Conn : Counted(d)' = Counted(d) /\ Admitted(d)' = Admitted(d)
    BY <1>1, <1>2 DEF Counted, Admitted
<1>4. SessionsExact'
    BY <1>3, SameCounts
<1>5. pc' \in [Caller -> Label] /\ at' \in [Caller -> Conn \cup {NoConn}]
    BY DEF Use, TypeOK, Label
<1>6. \A j \in Caller : pc'[j] \notin {"idle", "dial"} => at'[j] \in Conn
    BY <1>1, <1>2 DEF TypeOK
<1> QED BY <1>4, <1>5, <1>6

PoolInv == TypeOK /\ SessionsExact

(* The types of everything that does not follow the callers. *)
Rest ==
    /\ quic \in [Conn -> {"new", "up", "closed"}]
    /\ alive \subseteq Conn /\ cancelled \subseteq Conn /\ pool \subseteq Conn
    /\ IsFiniteSet(pool)
    /\ pending_udp \in [Conn -> SUBSET Caller] /\ udp \in [Conn -> SUBSET Caller]
    /\ expiring \in [Runner \X Conn -> {"idle", "pending", "routes", "cancel", "done"}]
    /\ need \in Nat

(* A quiet move of one caller, with the rest well typed, keeps PoolInv. *)
LEMMA MoveKeeps ==
    ASSUME PoolInv, NEW k \in Caller, NEW l \in Label, Goto(k, l), sessions' = sessions,
           l \in {"idle", "dial"} \/ at[k] \in Conn,
           l \in InCount <=> pc[k] \in InCount, l \in Inside => pc[k] \in Inside, Rest'
    PROVE  PoolInv'
<1>1. SessionsExact'
    BY QuietMove DEF PoolInv
<1>2. /\ pc' \in [Caller -> Label] /\ at' \in [Caller -> Conn \cup {NoConn}]
      /\ \A j \in Caller : pc'[j] \notin {"idle", "dial"} => at'[j] \in Conn
    BY GotoType DEF PoolInv
<1>3. sessions' \in [Conn -> Nat]
    BY DEF PoolInv, TypeOK
<1>4. TypeOK'
    BY <1>2, <1>3 DEF TypeOK, Rest, Label
<1> QED BY <1>1, <1>4 DEF PoolInv

LEMMA PoolRest == PoolInv => Rest
BY DEF PoolInv, TypeOK, Rest

(* A step of the connections, of expire or of the maintenance. *)
LEMMA StillKeeps ==
    ASSUME PoolInv, UNCHANGED <<sessions, pc, at>>, Rest'
    PROVE  PoolInv'
<1>1. SessionsExact'
    BY NoMove DEF PoolInv
<1>2. TypeOK'
    BY DEF PoolInv, TypeOK, Rest
<1> QED BY <1>1, <1>2 DEF PoolInv

(* fetch_add and fetch_sub. *)
LEMMA CountsKeep ==
    ASSUME PoolInv, NEW k \in Caller, Count(k) \/ Uncount(k)
    PROVE  PoolInv'
<1>1. SessionsExact' /\ sessions' \in [Conn -> Nat]
    BY CountExact, UncountExact DEF PoolInv
<1>2. PICK l \in Label : Goto(k, l)
    BY DEF Count, Uncount, Label
<1>3. at[k] \in Conn
    BY HasConn DEF PoolInv, Count, Uncount
<1>4. /\ pc' \in [Caller -> Label] /\ at' \in [Caller -> Conn \cup {NoConn}]
      /\ \A j \in Caller : pc'[j] \notin {"idle", "dial"} => at'[j] \in Conn
    BY <1>2, <1>3, GotoType DEF PoolInv
<1>5. UNCHANGED <<life, pool, routes, expiring, need>>
    BY DEF Count, Uncount
<1>6. TypeOK'
    BY <1>1, <1>4, <1>5 DEF PoolInv, TypeOK, Label, life, routes
<1> QED BY <1>1, <1>6 DEF PoolInv

LEMMA PoolInvKept == PoolInv /\ [Next]_vars => PoolInv'
<1> SUFFICES ASSUME PoolInv, [Next]_vars PROVE PoolInv'
    OBVIOUS
<1>r. Rest
    BY PoolRest
<1>h. \A k \in Caller : pc[k] \notin {"idle", "dial"} => at[k] \in Conn
    BY HasConn DEF PoolInv
<1>1. ASSUME NEW k \in Caller, Acquire(k) PROVE PoolInv'
  <2>0. Rest' /\ sessions' = sessions
      BY <1>1, <1>r DEF Acquire, Rest, life, routes
  <2>1. CASE Goto(k, "dial")
      BY <1>1, <2>0, <2>1, MoveKeeps DEF Acquire, Label, InCount, Inside
  <2>2. ASSUME NEW c \in Usable, Use(k, c, "have") PROVE PoolInv'
    <3>1. c \in Conn /\ pc[k] = "idle"
        BY <1>1, <1>r, <2>2 DEF Usable, Acquire, Rest
    <3>2. /\ SessionsExact'
          /\ pc' \in [Caller -> Label] /\ at' \in [Caller -> Conn \cup {NoConn}]
          /\ \A j \in Caller : pc'[j] \notin {"idle", "dial"} => at'[j] \in Conn
        BY <2>0, <2>2, <3>1, UseMove DEF PoolInv
    <3> QED BY <2>0, <3>2 DEF PoolInv, TypeOK, Rest, Label
  <2> QED BY <1>1, <2>1, <2>2 DEF Acquire
<1>2. ASSUME NEW k \in Caller, NEW c \in Conn, DialOk(k, c) PROVE PoolInv'
  <2>0. Rest' /\ sessions' = sessions
      BY <1>2, <1>r DEF DialOk, Connected, Rest, routes
  <2>1. Use(k, c, "push") /\ pc[k] = "dial"
      BY <1>2 DEF DialOk
  <2>2. /\ SessionsExact'
        /\ pc' \in [Caller -> Label] /\ at' \in [Caller -> Conn \cup {NoConn}]
        /\ \A j \in Caller : pc'[j] \notin {"idle", "dial"} => at'[j] \in Conn
      BY <2>0, <2>1, UseMove DEF PoolInv
  <2> QED BY <2>0, <2>2 DEF PoolInv, TypeOK, Rest, Label
<1>3. ASSUME NEW k \in Caller, DialErr(k) PROVE PoolInv'
  <2>0. Rest' /\ sessions' = sessions
      BY <1>3, <1>r DEF DialErr, Rest, life, routes
  <2> QED BY <1>3, <2>0, MoveKeeps DEF DialErr, Label, InCount, Inside
<1>4. ASSUME NEW k \in Caller, Push(k) PROVE PoolInv'
  <2>1. at[k] \in Conn
      BY <1>4, <1>h DEF Push
  <2>2. IsFiniteSet(pool \cap alive) /\ IsFiniteSet((pool \cap alive) \cup {at[k]})
      BY <1>r, FS_Subset, FS_AddElement DEF Rest
  <2>0. Rest' /\ sessions' = sessions
      BY <1>4, <1>r, <2>1, <2>2 DEF Push, Rest, life, routes
  <2> QED BY <1>4, <2>0, <2>1, MoveKeeps DEF Push, Label, InCount, Inside
<1>5. ASSUME NEW k \in Caller, CheckAlive(k) PROVE PoolInv'
  <2>0. Rest' /\ sessions' = sessions /\ at[k] \in Conn
      BY <1>5, <1>r, <1>h DEF CheckAlive, Rest, life, routes
  <2>1. PICK l \in {"count", "pend", "kill"} : Goto(k, l)
      BY <1>5 DEF CheckAlive
  <2> QED BY <1>5, <2>0, <2>1, MoveKeeps DEF CheckAlive, Label, InCount, Inside
<1>6. ASSUME NEW k \in Caller, SendOpen(k) \/ OpenReply(k) \/ SessionEnds(k) PROVE PoolInv'
  <2>0. Rest' /\ sessions' = sessions /\ at[k] \in Conn /\ pc[k] \in {"opening", "reply", "open"}
      BY <1>6, <1>r, <1>h DEF SendOpen, OpenReply, SessionEnds, Rest, life, routes
  <2>1. PICK l \in {"reply", "open", "uncount", "uncount_kill"} : Goto(k, l)
      BY <1>6 DEF SendOpen, OpenReply, SessionEnds
  <2> QED BY <2>0, <2>1, MoveKeeps DEF Label, InCount, Inside
<1>7. ASSUME NEW k \in Caller, Kill(k) PROVE PoolInv'
  <2>0. Rest' /\ sessions' = sessions
      BY <1>7, <1>r, <1>h DEF Kill, Rest, routes
  <2> QED BY <1>7, <2>0, MoveKeeps DEF Kill, Label, InCount, Inside
<1>8. ASSUME NEW k \in Caller, Pend(k) \/ Unpend(k) \/ UdpReply(k) PROVE PoolInv'
  <2>0. Rest' /\ sessions' = sessions /\ at[k] \in Conn /\ pc[k] \in {"pend", "unpend", "wait"}
      BY <1>8, <1>r, <1>h DEF Pend, Unpend, UdpReply, Rest, life
  <2>1. PICK l \in {"ask", "kill", "route", "idle"} : Goto(k, l)
      BY <1>8 DEF Pend, Unpend, UdpReply
  <2> QED BY <2>0, <2>1, MoveKeeps DEF Label, InCount, Inside
<1>9. ASSUME NEW k \in Caller, AskUdp(k) \/ UdpGivesUp(k) PROVE PoolInv'
  <2>0. Rest' /\ sessions' = sessions /\ at[k] \in Conn /\ pc[k] \in {"ask", "wait"}
      BY <1>9, <1>r, <1>h DEF AskUdp, UdpGivesUp, Rest, life, routes
  <2>1. PICK l \in {"wait", "unpend"} : Goto(k, l)
      BY <1>9 DEF AskUdp, UdpGivesUp
  <2> QED BY <2>0, <2>1, MoveKeeps DEF Label, InCount, Inside
<1>10. ASSUME NEW k \in Caller, RouteUdp(k) \/ AssocEnds(k) PROVE PoolInv'
  <2>0. Rest' /\ sessions' = sessions /\ at[k] \in Conn /\ pc[k] \in {"route", "assoc"}
      BY <1>10, <1>r, <1>h DEF RouteUdp, AssocEnds, Rest, life
  <2>1. PICK l \in {"assoc", "idle"} : Goto(k, l)
      BY <1>10 DEF RouteUdp, AssocEnds
  <2> QED BY <2>0, <2>1, MoveKeeps DEF Label, InCount, Inside
<1>11. ASSUME NEW c \in Conn, QuicCloses(c) \/ ReaderExpires(c) \/ WatcherWakes(c) PROVE PoolInv'
  <2>0. Rest' /\ UNCHANGED <<sessions, pc, at>>
      BY <1>11, <1>r DEF QuicCloses, ReaderExpires, WatcherWakes, Rest, routes, Runner
  <2> QED BY <2>0, StillKeeps
<1>12. ASSUME NEW e \in Runner \X Conn, Expire(e) PROVE PoolInv'
  <2>1. e[2] \in Conn
      OBVIOUS
  <2>0. Rest' /\ UNCHANGED <<sessions, pc, at>>
      BY <1>12, <1>r, <2>1 DEF Expire, ClearPending, ClearRoutes, CancelClose, Rest, life, routes
  <2> QED BY <2>0, StillKeeps
<1>13. ASSUME NEW c \in Conn, MaintDialOk(c) PROVE PoolInv'
  <2>1. IsFiniteSet(pool \cup {c})
      BY <1>r, FS_AddElement DEF Rest
  <2>0. Rest' /\ UNCHANGED <<sessions, pc, at>>
      BY <1>13, <1>r, <2>1 DEF MaintDialOk, Connected, Rest, routes
  <2> QED BY <2>0, StillKeeps
<1>14. ASSUME MaintTick PROVE PoolInv'
  <2>1. pool' \subseteq pool
      BY <1>14 DEF MaintTick
  <2>2. IsFiniteSet(pool') /\ Cardinality(pool') \in Nat
      BY <1>r, <2>1, FS_Subset, FS_CardinalityType DEF Rest
  <2>3. need' \in Nat
      BY <1>14, <2>2, PoolAssumption DEF MaintTick
  <2>4. alive' \subseteq Conn /\ cancelled' \subseteq Conn /\ pool' \subseteq Conn
      BY <1>14, <1>r DEF MaintTick, Rest
  <2>0. Rest' /\ UNCHANGED <<sessions, pc, at>>
      BY <1>14, <1>r, <2>2, <2>3, <2>4 DEF MaintTick, Rest, routes
  <2> QED BY <2>0, StillKeeps
<1>15. ASSUME MaintDialErr PROVE PoolInv'
  <2>0. Rest' /\ UNCHANGED <<sessions, pc, at>>
      BY <1>15, <1>r DEF MaintDialErr, Rest, life, routes
  <2> QED BY <2>0, StillKeeps
<1>16. ASSUME UNCHANGED vars PROVE PoolInv'
  <2>0. Rest' /\ UNCHANGED <<sessions, pc, at>>
      BY <1>16, <1>r DEF vars, Rest, life, routes
  <2> QED BY <2>0, StillKeeps
<1> QED
    BY <1>1, <1>2, <1>3, <1>4, <1>5, <1>6, <1>7, <1>8, <1>9, <1>10, <1>11, <1>12, <1>13,
       <1>14, <1>15, <1>16, CountsKeep DEF Next, CallerStep, SendStep

(* Initially nobody is counted. *)
LEMMA PoolInvInitially == Init => PoolInv
<1> SUFFICES ASSUME Init PROVE SessionsExact
    BY PoolTypeInitially DEF PoolInv
<1>1. \A c \in Conn : Counted(c) = {} /\ Admitted(c) = {}
    BY DEF Init, Counted, Admitted
<1>2. Cardinality({}) = 0
    BY FS_EmptySet
<1>3. \A c \in Conn : sessions[c] = 0
    BY DEF Init
<1>4. ASSUME NEW c \in Conn
      PROVE  sessions[c] = Cardinality(Counted(c)) /\ Cardinality(Admitted(c)) <= MaxPerConn
  <2>1. Cardinality(Counted(c)) = 0 /\ Cardinality(Admitted(c)) = 0
      BY <1>1, <1>2
  <2> QED BY <2>1, <1>3, PoolAssumption
<1> QED BY <1>4 DEF SessionsExact

(* Type correctness of the pool (WtPool and WtConn in client/wt.rs). *)
THEOREM PoolTypeCorrect == Spec => []TypeOK
<1>1. PoolInv => TypeOK
    BY DEF PoolInv
<1> QED BY <1>1, PoolInvInitially, PoolInvKept, PTL DEF Spec

(* WtConn.sessions equals the number of callers between their fetch_add    *)
(* and their fetch_sub, and never more than MAX_PER_CONN sessions are      *)
(* admitted on a connection.                                               *)
THEOREM SessionsAreExact == Spec => []SessionsExact
<1>1. PoolInv => SessionsExact
    BY DEF PoolInv
<1> QED BY <1>1, PoolInvInitially, PoolInvKept, PTL DEF Spec

-----------------------------------------------------------------------------
(* Death. Whatever the pool, a caller or expire can cancel was dialled, so  *)
(* its death watcher runs; and a watcher that woke has closed QUIC.        *)
Dialled(c) == quic[c] # "new"

CloseInv ==
    /\ \A c \in Conn : c \in pool \cup alive \cup cancelled => Dialled(c)
    /\ \A k \in Caller : pc[k] \notin {"idle", "dial"} => Dialled(at[k])
    /\ \A e \in Runner \X Conn : expiring[e] # "idle" => Dialled(e[2])
    /\ \A c \in Conn : expiring[<<"watcher", c>>] # "idle" => quic[c] = "closed"

(* QUIC only moves forward, and never back to "new". *)
LEMMA QuicForward ==
    ASSUME TypeOK, [Next]_vars, NEW c \in Conn
    PROVE  /\ Dialled(c) => Dialled(c)'
           /\ quic[c] = "closed" => quic'[c] = "closed"
<1> USE DEF TypeOK, Dialled
<1>1. CASE UNCHANGED quic
    BY <1>1
<1>2. ASSUME NEW d \in Conn, Connected(d) \/ QuicCloses(d) \/ WatcherWakes(d)
      PROVE  /\ quic[c] # "new" => quic'[c] # "new"
             /\ quic[c] = "closed" => quic'[c] = "closed"
    BY <1>2 DEF Connected, QuicCloses, WatcherWakes
<1>3. UNCHANGED quic \/ \E d \in Conn : Connected(d) \/ QuicCloses(d) \/ WatcherWakes(d)
  <2>1. ASSUME NEW k \in Caller,
               \/ Acquire(k) \/ CallerStep(k) \/ SendStep(k) \/ UdpReply(k)
               \/ SessionEnds(k) \/ AssocEnds(k)
        PROVE  UNCHANGED quic
      BY <2>1 DEF Acquire, CallerStep, SendStep, UdpReply, SessionEnds, AssocEnds, DialErr, Push,
                  CheckAlive, Count, OpenReply, Uncount, Kill, Pend, UdpGivesUp, Unpend, RouteUdp,
                  SendOpen, AskUdp, life
  <2>2. ASSUME NEW e \in Runner \X Conn, Expire(e) PROVE UNCHANGED quic
      BY <2>2 DEF Expire, ClearPending, ClearRoutes, CancelClose, life
  <2>3. ASSUME MaintTick \/ MaintDialErr \/ UNCHANGED vars \/ \E d \in Conn : ReaderExpires(d)
        PROVE  UNCHANGED quic
      BY <2>3, ZenonT(60) DEF MaintTick, MaintDialErr, ReaderExpires, vars, life
  <2>4. ASSUME NEW d \in Conn, MaintDialOk(d) \/ \E k \in Caller : DialOk(k, d)
        PROVE  Connected(d)
      BY <2>4 DEF MaintDialOk, DialOk
  <2> QED BY <2>1, <2>2, <2>3, <2>4 DEF Next
<1> QED BY <1>1, <1>2, <1>3

LEMMA CloseInitially == Init => CloseInv
BY DEF Init, CloseInv, Dialled, Runner

(* One step per way a connection, a caller or a runner can move. *)
LEMMA CloseKept ==
    ASSUME TypeOK, CloseInv, [Next]_vars
    PROVE  CloseInv'
<1>q. \A c \in Conn : (Dialled(c) => Dialled(c)') /\ (quic[c] = "closed" => quic'[c] = "closed")
    BY QuicForward
<1>i. /\ \A c \in Conn : c \in pool \cup alive \cup cancelled => Dialled(c)
      /\ \A k \in Caller : pc[k] \notin {"idle", "dial"} => Dialled(at[k]) /\ at[k] \in Conn
      /\ \A e \in Runner \X Conn : expiring[e] # "idle" => Dialled(e[2])
      /\ \A c \in Conn : expiring[<<"watcher", c>>] # "idle" => quic[c] = "closed"
    BY HasConn DEF CloseInv
<1>t. /\ pool \subseteq Conn /\ pc \in [Caller -> Label] /\ at \in [Caller -> Conn \cup {NoConn}]
      /\ quic \in [Conn -> {"new", "up", "closed"}]
      /\ expiring \in [Runner \X Conn -> {"idle", "pending", "routes", "cancel", "done"}]
    BY DEF TypeOK, Label
<1> DEFINE Sets == \A c \in Conn : c \in pool' \cup alive' \cup cancelled' => Dialled(c)'
           Callers == \A k \in Caller : pc'[k] \notin {"idle", "dial"} => quic'[at'[k]] # "new"
           Runners == /\ \A e \in Runner \X Conn : expiring'[e] # "idle" => Dialled(e[2])'
                      /\ \A c \in Conn : expiring'[<<"watcher", c>>] # "idle" => quic'[c] = "closed"
<1>s. /\ UNCHANGED <<pool, alive, cancelled>> => Sets
      /\ UNCHANGED <<pc, at>> => Callers
      /\ UNCHANGED expiring => Runners
  <2>1. UNCHANGED <<pool, alive, cancelled>> => Sets
      BY <1>q, <1>i
  <2>2. UNCHANGED <<pc, at>> => Callers
      BY <1>q, <1>i DEF Dialled
  <2>3. UNCHANGED expiring => Runners
      BY <1>q, <1>i
  <2> QED BY <2>1, <2>2, <2>3
<1>g. ASSUME NEW k \in Caller, NEW l, Goto(k, l), pc[k] \notin {"idle", "dial"} \/ l \in {"idle", "dial"}
      PROVE  Callers
  <2>1. \A j \in Caller \ {k} : pc'[j] = pc[j] /\ at'[j] = at[j]
      BY <1>g, <1>t DEF Goto
  <2>2. pc'[k] = l /\ (l # "idle" => at'[k] = at[k])
      BY <1>g, <1>t DEF Goto
  <2>3. \A j \in Caller \ {k} : pc'[j] \notin {"idle", "dial"} => quic'[at'[j]] # "new"
      BY <2>1, <1>q, <1>i DEF Dialled
  <2>4. pc'[k] \notin {"idle", "dial"} => quic'[at'[k]] # "new"
      BY <1>g, <2>2, <1>q, <1>i DEF Dialled
  <2> QED BY <2>3, <2>4
<1>u. ASSUME NEW k \in Caller, NEW c \in Conn, NEW l, Use(k, c, l), Dialled(c)'
      PROVE  Callers
  <2>1. \A j \in Caller \ {k} : pc'[j] = pc[j] /\ at'[j] = at[j]
      BY <1>u, <1>t DEF Use
  <2>2. at'[k] = c
      BY <1>u, <1>t DEF Use
  <2>3. \A j \in Caller \ {k} : pc'[j] \notin {"idle", "dial"} => quic'[at'[j]] # "new"
      BY <2>1, <1>q, <1>i DEF Dialled
  <2> QED BY <1>u, <2>2, <2>3 DEF Dialled
<1> HIDE DEF Sets, Callers, Runners
<1>1. ASSUME NEW k \in Caller, Acquire(k) PROVE Sets /\ Callers /\ Runners
  <2>1. UNCHANGED <<life, pool, expiring>>
      BY <1>1 DEF Acquire
  <2>2. CASE Goto(k, "dial")
      BY <2>1, <2>2, <1>g, <1>s DEF life
  <2>3. ASSUME NEW c \in Usable, Use(k, c, "have") PROVE Callers
      BY <2>3, <1>t, <1>u, <1>i, <1>q DEF Usable
  <2> QED BY <1>1, <2>1, <2>2, <2>3, <1>s DEF Acquire, life
<1>2. ASSUME NEW k \in Caller, NEW c \in Conn, DialOk(k, c) PROVE Sets /\ Callers /\ Runners
  <2>1. Use(k, c, "push") /\ Connected(c) /\ UNCHANGED <<pool, expiring>>
      BY <1>2 DEF DialOk
  <2>2. Dialled(c)' /\ alive' = alive \cup {c} /\ cancelled' = cancelled
      BY <2>1, <1>t DEF Connected, Dialled
  <2>3. Sets
      BY <2>1, <2>2, <1>q, <1>i DEF Sets
  <2> QED BY <2>1, <2>2, <2>3, <1>u, <1>s
<1>3. ASSUME NEW k \in Caller, Push(k) \/ Kill(k) PROVE Sets /\ Callers /\ Runners
  <2>1. /\ Goto(k, "have") \/ Goto(k, "idle")
        /\ UNCHANGED <<quic, expiring>>
        /\ pool' \subseteq pool \cup {at[k]} /\ alive' \subseteq alive
        /\ cancelled' \subseteq cancelled \cup {at[k]}
      BY <1>3 DEF Push, Kill, life
  <2>2. pc[k] \notin {"idle", "dial"}
      BY <1>3 DEF Push, Kill
  <2>3. Sets
      BY <2>1, <2>2, <1>q, <1>i DEF Sets
  <2> QED BY <2>1, <2>2, <2>3, <1>g, <1>s
<1>4. ASSUME NEW k \in Caller,
             \/ DialErr(k) \/ CheckAlive(k) \/ Count(k) \/ OpenReply(k) \/ Uncount(k)
             \/ Pend(k) \/ UdpGivesUp(k) \/ Unpend(k) \/ RouteUdp(k)
             \/ SendStep(k) \/ UdpReply(k) \/ SessionEnds(k) \/ AssocEnds(k)
      PROVE  Sets /\ Callers /\ Runners
  <2>1. UNCHANGED <<life, pool, expiring>>
      BY <1>4 DEF DialErr, CheckAlive, Count, OpenReply, Uncount, Pend, UdpGivesUp, Unpend,
                  RouteUdp, SendStep, SendOpen, AskUdp, UdpReply, SessionEnds, AssocEnds
  <2>2. \E l : Goto(k, l) /\ (pc[k] \notin {"idle", "dial"} \/ l \in {"idle", "dial"})
    <3>1. CASE DialErr(k)
        BY <3>1 DEF DialErr
    <3>2. CASE ~DialErr(k)
      <4>1. pc[k] \notin {"idle", "dial"}
          BY <1>4, <3>2 DEF CheckAlive, Count, OpenReply, Uncount, Pend, UdpGivesUp, Unpend,
                  RouteUdp, SendStep, SendOpen, AskUdp, UdpReply, SessionEnds, AssocEnds
      <4>2. \E l : Goto(k, l)
          BY <1>4, <3>2 DEF CheckAlive, Count, OpenReply, Uncount, Pend, UdpGivesUp, Unpend,
                  RouteUdp, SendStep, SendOpen, AskUdp, UdpReply, SessionEnds, AssocEnds
      <4> QED BY <4>1, <4>2
    <3> QED BY <3>1, <3>2
  <2> QED BY <2>1, <2>2, <1>g, <1>s DEF life
<1>5. ASSUME NEW c \in Conn, QuicCloses(c) PROVE Sets /\ Callers /\ Runners
    BY <1>5, <1>s DEF QuicCloses
<1>6. ASSUME NEW c \in Conn, ReaderExpires(c) PROVE Sets /\ Callers /\ Runners
  <2>1. /\ Dialled(c) /\ alive' \subseteq alive /\ UNCHANGED <<quic, cancelled, pool, pc, at>>
        /\ expiring' = [expiring EXCEPT ![<<"reader", c>>] = "pending"]
      BY <1>6 DEF ReaderExpires, Dialled
  <2>2. Sets
      BY <2>1, <1>q, <1>i DEF Sets
  <2>3. \A e \in Runner \X Conn : e # <<"reader", c>> => expiring'[e] = expiring[e]
      BY <2>1, <1>t
  <2>4. \A d \in Conn : <<"watcher", d>> \in Runner \X Conn /\ <<"watcher", d>> # <<"reader", c>>
      BY DEF Runner
  <2>5. Runners
      BY <2>1, <2>3, <2>4, <1>q, <1>i DEF Runners
  <2> QED BY <2>1, <2>2, <2>5, <1>s
<1>7. ASSUME NEW c \in Conn, WatcherWakes(c) PROVE Sets /\ Callers /\ Runners
  <2>1. /\ quic'[c] = "closed" /\ alive' \subseteq alive /\ UNCHANGED <<cancelled, pool, pc, at>>
        /\ expiring' = [expiring EXCEPT ![<<"watcher", c>>] = "pending"]
      BY <1>7, <1>t DEF WatcherWakes
  <2>2. Sets
      BY <2>1, <1>q, <1>i DEF Sets
  <2>3. \A e \in Runner \X Conn : e # <<"watcher", c>> => expiring'[e] = expiring[e]
      BY <2>1, <1>t
  <2>4. \A d \in Conn : <<"watcher", d>> \in Runner \X Conn /\ (d # c => <<"watcher", d>> # <<"watcher", c>>)
      BY DEF Runner
  <2>5. Dialled(c)'
      BY <2>1 DEF Dialled
  <2>6. Runners
      BY <2>1, <2>3, <2>4, <2>5, <1>q, <1>i DEF Runners
  <2> QED BY <2>1, <2>2, <2>6, <1>s
<1>8. ASSUME NEW e \in Runner \X Conn, Expire(e) PROVE Sets /\ Callers /\ Runners
  <2>1. /\ expiring[e] # "idle" /\ UNCHANGED <<quic, alive, pool, pc, at>>
        /\ cancelled' \subseteq cancelled \cup {e[2]}
      BY <1>8 DEF Expire, ClearPending, ClearRoutes, CancelClose, life
  <2>2. \A f \in Runner \X Conn : f # e => expiring'[f] = expiring[f]
      BY <1>8, <1>t DEF Expire, ClearPending, ClearRoutes, CancelClose
  <2>3. Sets
      BY <2>1, <1>q, <1>i DEF Sets
  <2>4. \A d \in Conn : <<"watcher", d>> \in Runner \X Conn
      BY DEF Runner
  <2>5. Runners
      BY <2>1, <2>2, <2>4, <1>q, <1>i DEF Runners
  <2> QED BY <2>1, <2>3, <2>5, <1>s
<1>9. ASSUME MaintTick PROVE Sets /\ Callers /\ Runners
  <2>1. /\ pool' \subseteq pool /\ alive' \subseteq alive /\ cancelled' \subseteq cancelled \cup pool
        /\ UNCHANGED <<quic, expiring, pc, at>>
      BY <1>9 DEF MaintTick
  <2>2. Sets
      BY <2>1, <1>q, <1>i DEF Sets
  <2> QED BY <2>1, <2>2, <1>s
<1>10. ASSUME NEW c \in Conn, MaintDialOk(c) PROVE Sets /\ Callers /\ Runners
  <2>1. Connected(c) /\ pool' = pool \cup {c} /\ UNCHANGED <<expiring, pc, at>>
      BY <1>10 DEF MaintDialOk
  <2>2. Dialled(c)' /\ alive' = alive \cup {c} /\ cancelled' = cancelled
      BY <2>1, <1>t DEF Connected, Dialled
  <2>3. Sets
      BY <2>1, <2>2, <1>q, <1>i DEF Sets
  <2> QED BY <2>1, <2>3, <1>s
<1>11. ASSUME MaintDialErr \/ UNCHANGED vars PROVE Sets /\ Callers /\ Runners
    BY <1>11, <1>s DEF MaintDialErr, vars, life
<1>12. Sets /\ Callers /\ Runners
    BY <1>1, <1>2, <1>3, <1>4, <1>5, <1>6, <1>7, <1>8, <1>9, <1>10, <1>11 DEF Next, CallerStep
<1> QED BY <1>12 DEF Sets, Callers, Runners, CloseInv, Dialled

LEMMA CloseInvariant == Spec => [](TypeOK /\ CloseInv)
BY PoolTypeCorrect, CloseInitially, CloseKept, PTL DEF Spec

(* The facts about ENABLED that weak fairness needs, as hypotheses: a      *)
(* caller with a step of its own can take it, a write on a closed          *)
(* connection can end, and the watcher of a cancelled connection can wake. *)
(* Each of these steps is a guard and assignments.                         *)
Ready == {"dial", "push", "have", "count", "reply", "uncount", "uncount_kill", "kill",
          "pend", "wait", "unpend", "route"}

CallersEnabled ==
    \A k \in Caller :
        /\ [](pc[k] \in Ready => ENABLED <<CallerStep(k)>>_vars)
        /\ [](pc[k] \in {"opening", "ask"} /\ quic[at[k]] = "closed" => ENABLED <<SendUnblocked(k)>>_vars)

WatchersEnabled ==
    \A c \in Conn :
        [](/\ c \in cancelled /\ quic[c] = "up" /\ expiring[<<"watcher", c>>] = "idle"
           => ENABLED <<WatcherWakes(c)>>_vars)

(* Cancelling is never taken back. *)
LEMMA CancelledStays ==
    ASSUME [Next]_vars, NEW c \in cancelled
    PROVE  c \in cancelled'
<1>1. ASSUME NEW k \in Caller,
             \/ Acquire(k) \/ CallerStep(k) \/ SendStep(k) \/ UdpReply(k)
             \/ SessionEnds(k) \/ AssocEnds(k)
      PROVE  c \in cancelled'
    BY <1>1, ZenonT(60) DEF Acquire, CallerStep, SendStep, UdpReply, SessionEnds, AssocEnds, DialErr, Push,
                CheckAlive, Count, OpenReply, Uncount, Kill, Pend, UdpGivesUp, Unpend, RouteUdp,
                SendOpen, AskUdp, life
<1>2. ASSUME NEW e \in Runner \X Conn, Expire(e) PROVE c \in cancelled'
    BY <1>2 DEF Expire, ClearPending, ClearRoutes, CancelClose, life
<1>3. ASSUME MaintTick \/ MaintDialErr \/ UNCHANGED vars PROVE c \in cancelled'
    BY <1>3, ZenonT(60) DEF MaintTick, MaintDialErr, vars, life
<1>4. ASSUME NEW d \in Conn,
             \/ QuicCloses(d) \/ ReaderExpires(d) \/ WatcherWakes(d) \/ MaintDialOk(d)
             \/ \E k \in Caller : DialOk(k, d)
      PROVE  c \in cancelled'
    BY <1>4 DEF QuicCloses, ReaderExpires, WatcherWakes, MaintDialOk, DialOk, Connected
<1> QED BY <1>1, <1>2, <1>3, <1>4, ZenonT(60) DEF Next

(* A connection that the pool retires, a caller gives up or expire cancels *)
(* is closed at the QUIC level in every fair behaviour: its death watcher  *)
(* is there, and either it has closed QUIC already or it wakes.            *)
THEOREM RetiredAreClosed == FairSpec /\ WatchersEnabled => RetiredCloses
<1> SUFFICES ASSUME NEW c \in Conn
             PROVE  FairSpec /\ WatchersEnabled => (c \in cancelled ~> quic[c] = "closed")
    BY DEF RetiredCloses
<1> DEFINE Retired == c \in cancelled
           Closed == quic[c] = "closed"
           Watched == /\ c \in cancelled /\ quic[c] = "up" /\ expiring[<<"watcher", c>>] = "idle"
<1>1. TypeOK /\ CloseInv /\ Retired => Closed \/ Watched
  <2> SUFFICES ASSUME TypeOK, CloseInv, Retired, ~Closed PROVE Watched
      OBVIOUS
  <2>1. quic[c] = "up"
      BY DEF TypeOK, CloseInv, Dialled
  <2> QED BY <2>1 DEF CloseInv
<1>2. Retired /\ [Next]_vars => Retired'
    BY CancelledStays
<1>3. TypeOK /\ <<WatcherWakes(c)>>_vars => Closed'
    BY DEF TypeOK, WatcherWakes
<1>4. FairSpec => Spec /\ WatcherRuns(c)
    BY DEF FairSpec
<1>5. WatchersEnabled => [](Watched => ENABLED <<WatcherWakes(c)>>_vars)
    BY DEF WatchersEnabled
<1> HIDE DEF Retired, Closed, Watched
<1>6. FairSpec /\ WatchersEnabled => (Retired ~> Closed)
    BY <1>1, <1>2, <1>3, <1>4, <1>5, CloseInvariant, PTL DEF Spec, WatcherRuns
<1> QED BY <1>6 DEF Retired, Closed

(* Where one step can take a request: closer to its answer. *)
LEMMA RequestMoves ==
    ASSUME TypeOK, [Next]_vars, NEW k \in Caller
    PROVE  \/ pc'[k] = pc[k] /\ at'[k] = at[k]
           \/ /\ pc[k] = "dial" => pc'[k] \in {"idle", "push"}
              /\ pc[k] = "push" => pc'[k] = "have"
              /\ pc[k] = "have" => pc'[k] \in {"count", "pend", "kill"}
              /\ pc[k] = "count" => pc'[k] \in {"opening", "uncount"}
              /\ pc[k] = "pend" => pc'[k] = "ask"
              /\ pc[k] = "opening" => pc'[k] \in {"reply", "uncount_kill"}
              /\ pc[k] = "ask" => pc'[k] \in {"wait", "unpend"}
              /\ pc[k] = "reply" => pc'[k] \in {"open", "uncount", "uncount_kill"}
              /\ pc[k] = "wait" => pc'[k] \in {"route", "idle", "unpend"}
              /\ pc[k] = "uncount_kill" => pc'[k] = "kill"
              /\ pc[k] = "unpend" => pc'[k] = "kill"
              /\ pc[k] = "route" => pc'[k] = "assoc"
              /\ pc[k] \in {"uncount", "kill"} => pc'[k] = "idle"
<1>t. pc \in [Caller -> Label] /\ at \in [Caller -> Conn \cup {NoConn}]
    BY DEF TypeOK, Label
<1>g. \A j \in Caller : \A l : Goto(j, l) => pc'[j] = l /\ (j # k => pc'[k] = pc[k] /\ at'[k] = at[k])
    BY <1>t DEF Goto
<1>u. \A j \in Caller : \A c, l : Use(j, c, l) => pc'[j] = l /\ (j # k => pc'[k] = pc[k] /\ at'[k] = at[k])
    BY <1>t DEF Use
<1>1. CASE UNCHANGED <<pc, at>>
    BY <1>1
<1>2. ASSUME NEW j \in Caller, Acquire(j) \/ SessionEnds(j) \/ AssocEnds(j)
      PROVE  /\ pc[j] \in {"idle", "open", "assoc"}
             /\ j # k => pc'[k] = pc[k] /\ at'[k] = at[k]
    BY <1>2, <1>g, <1>u DEF Acquire, SessionEnds, AssocEnds
<1>3. ASSUME NEW j \in Caller, DialErr(j) \/ Push(j) \/ CheckAlive(j) \/ Count(j) \/ Kill(j) \/ Pend(j)
                               \/ \E c \in Conn : DialOk(j, c)
      PROVE  /\ j # k => pc'[k] = pc[k] /\ at'[k] = at[k]
             /\ \/ pc[j] = "dial" /\ pc'[j] \in {"idle", "push"}
                \/ pc[j] = "push" /\ pc'[j] = "have"
                \/ pc[j] = "have" /\ pc'[j] \in {"count", "pend", "kill"}
                \/ pc[j] = "count" /\ pc'[j] \in {"opening", "uncount"}
                \/ pc[j] = "kill" /\ pc'[j] = "idle"
                \/ pc[j] = "pend" /\ pc'[j] = "ask"
    BY <1>3, <1>g, <1>u DEF DialErr, Push, CheckAlive, Count, Kill, Pend, DialOk
<1>4. ASSUME NEW j \in Caller, OpenReply(j) \/ Uncount(j) \/ UdpGivesUp(j) \/ Unpend(j) \/ RouteUdp(j)
                               \/ SendStep(j) \/ UdpReply(j)
      PROVE  /\ j # k => pc'[k] = pc[k] /\ at'[k] = at[k]
             /\ \/ pc[j] = "opening" /\ pc'[j] \in {"reply", "uncount_kill"}
                \/ pc[j] = "ask" /\ pc'[j] \in {"wait", "unpend"}
                \/ pc[j] = "reply" /\ pc'[j] \in {"open", "uncount", "uncount_kill"}
                \/ pc[j] = "wait" /\ pc'[j] \in {"route", "idle", "unpend"}
                \/ pc[j] = "uncount" /\ pc'[j] = "idle"
                \/ pc[j] \in {"uncount_kill", "unpend"} /\ pc'[j] = "kill"
                \/ pc[j] = "route" /\ pc'[j] = "assoc"
    BY <1>4, <1>g DEF OpenReply, Uncount, UdpGivesUp, Unpend, RouteUdp, SendStep, SendOpen, AskUdp, UdpReply
<1>5. \/ UNCHANGED <<pc, at>>
      \/ \E j \in Caller : Acquire(j) \/ SessionEnds(j) \/ AssocEnds(j)
      \/ \E j \in Caller : DialErr(j) \/ Push(j) \/ CheckAlive(j) \/ Count(j) \/ Kill(j) \/ Pend(j)
                           \/ \E c \in Conn : DialOk(j, c)
      \/ \E j \in Caller : OpenReply(j) \/ Uncount(j) \/ UdpGivesUp(j) \/ Unpend(j) \/ RouteUdp(j)
                           \/ SendStep(j) \/ UdpReply(j)
  <2>1. ASSUME NEW c \in Conn, QuicCloses(c) \/ ReaderExpires(c) \/ WatcherWakes(c) \/ MaintDialOk(c)
        PROVE  UNCHANGED <<pc, at>>
      BY <2>1 DEF QuicCloses, ReaderExpires, WatcherWakes, MaintDialOk
  <2>2. ASSUME NEW e \in Runner \X Conn, Expire(e) PROVE UNCHANGED <<pc, at>>
      BY <2>2 DEF Expire, ClearPending, ClearRoutes, CancelClose
  <2>3. ASSUME MaintTick \/ MaintDialErr \/ UNCHANGED vars PROVE UNCHANGED <<pc, at>>
      BY <2>3 DEF MaintTick, MaintDialErr, vars
  <2> QED BY <2>1, <2>2, <2>3 DEF Next, CallerStep
<1>6. CASE \E j \in Caller : Acquire(j) \/ SessionEnds(j) \/ AssocEnds(j)
    BY <1>6, <1>2, ZenonT(60)
<1>7. CASE \E j \in Caller : DialErr(j) \/ Push(j) \/ CheckAlive(j) \/ Count(j) \/ Kill(j) \/ Pend(j)
                             \/ \E c \in Conn : DialOk(j, c)
  <2>1. PICK j \in Caller : DialErr(j) \/ Push(j) \/ CheckAlive(j) \/ Count(j) \/ Kill(j) \/ Pend(j)
                             \/ \E c \in Conn : DialOk(j, c)
      BY <1>7
  <2> QED BY <2>1, <1>3
<1>8. CASE \E j \in Caller : OpenReply(j) \/ Uncount(j) \/ UdpGivesUp(j) \/ Unpend(j) \/ RouteUdp(j)
                             \/ SendStep(j) \/ UdpReply(j)
  <2>1. PICK j \in Caller : OpenReply(j) \/ Uncount(j) \/ UdpGivesUp(j) \/ Unpend(j) \/ RouteUdp(j)
                             \/ SendStep(j) \/ UdpReply(j)
      BY <1>8
  <2> QED BY <2>1, <1>4
<1> QED BY <1>1, <1>5, <1>6, <1>7, <1>8, ZenonT(60)

(* A caller's own step moves it. *)
LEMMA OwnStepMoves ==
    ASSUME TypeOK, NEW k \in Caller, CallerStep(k) \/ SendUnblocked(k)
    PROVE  pc'[k] # pc[k] /\ [Next]_vars
<1>g. \A l : Goto(k, l) => pc'[k] = l
    BY GotoArrives
<1>1. ASSUME DialErr(k) \/ Push(k) \/ CheckAlive(k) \/ Count(k) \/ Kill(k) \/ Pend(k)
      PROVE  pc'[k] # pc[k]
    BY <1>1, <1>g, ZenonT(60) DEF DialErr, Push, CheckAlive, Count, Kill, Pend
<1>2. ASSUME OpenReply(k) \/ Uncount(k) \/ UdpGivesUp(k) \/ Unpend(k) \/ RouteUdp(k) \/ SendStep(k)
      PROVE  pc'[k] # pc[k]
    BY <1>2, <1>g DEF OpenReply, Uncount, UdpGivesUp, Unpend, RouteUdp, SendStep, SendOpen, AskUdp
<1>3. pc'[k] # pc[k]
    BY <1>1, <1>2 DEF CallerStep, SendUnblocked
<1>4. Next
    BY DEF Next, SendUnblocked
<1> QED BY <1>3, <1>4

(* Every request gets its answer in every fair behaviour, or its write     *)
(* waits on an open QUIC connection, whatever expire, the watcher, the     *)
(* maintenance and the other callers do meanwhile. The labels are ordered  *)
(* so that each step of the caller brings it closer to an answer, and no   *)
(* other task moves it.                                                    *)
THEOREM RequestsEnd == FairSpec /\ CallersEnabled => RequestEnds
<1> SUFFICES ASSUME NEW k \in Caller
             PROVE  FairSpec /\ CallersEnabled =>
                    []<>(\/ pc[k] \in {"idle", "open", "assoc"}
                         \/ pc[k] \in {"opening", "ask"} /\ quic[at[k]] = "up")
    BY DEF RequestEnds
<1> DEFINE Done == \/ pc[k] \in {"idle", "open", "assoc"}
                   \/ pc[k] \in {"opening", "ask"} /\ quic[at[k]] = "up"
           Ends == pc[k] \in {"kill", "uncount", "route"}
           Fails == pc[k] \in {"unpend", "uncount_kill"}
           Waits == pc[k] \in {"reply", "wait"}
           Stuck == pc[k] \in {"opening", "ask"} /\ quic[at[k]] = "closed"
           Starts == pc[k] \in {"count", "pend"}
           Has == pc[k] = "have"
           Pushes == pc[k] = "push"
           Dials == pc[k] = "dial"
           Inv == TypeOK /\ CloseInv
<1> USE DEF Inv
<1>0. Inv => Done \/ Ends \/ Fails \/ Waits \/ Stuck \/ Starts \/ Has \/ Pushes \/ Dials
    BY HasConn DEF TypeOK, CloseInv, Dialled
<1>1. /\ Inv /\ Ends /\ [Next]_vars => Ends' \/ Done'
      /\ Inv /\ Ends /\ <<CallerStep(k)>>_vars => Done'
    BY RequestMoves, OwnStepMoves, ZenonT(60)
<1>2. /\ Inv /\ Fails /\ [Next]_vars => Fails' \/ Ends'
      /\ Inv /\ Fails /\ <<CallerStep(k)>>_vars => Ends'
    BY RequestMoves, OwnStepMoves, ZenonT(60)
<1>3. /\ Inv /\ Waits /\ [Next]_vars => Waits' \/ Done' \/ Ends' \/ Fails'
      /\ Inv /\ Waits /\ <<CallerStep(k)>>_vars => Done' \/ Ends' \/ Fails'
    BY RequestMoves, OwnStepMoves, ZenonT(60)
<1>4. /\ Inv /\ Stuck /\ [Next]_vars => Stuck' \/ Waits' \/ Fails'
      /\ Inv /\ Stuck /\ <<SendUnblocked(k)>>_vars => Waits' \/ Fails'
    BY RequestMoves, OwnStepMoves, QuicForward, HasConn, ZenonT(60)
<1>5. /\ Inv /\ Inv' /\ Starts /\ [Next]_vars => Starts' \/ Done' \/ Ends' \/ Stuck'
      /\ Inv /\ Inv' /\ Starts /\ <<CallerStep(k)>>_vars => Done' \/ Ends' \/ Stuck'
  <2> SUFFICES ASSUME Inv, Inv', Starts, [Next]_vars
               PROVE  (Starts' /\ pc'[k] = pc[k]) \/ Done' \/ Ends' \/ Stuck'
      BY OwnStepMoves
  <2>1. pc'[k] = pc[k] \/ pc'[k] \in {"opening", "ask", "uncount"}
      BY RequestMoves
  <2>2. pc'[k] \in {"opening", "ask"} => quic'[at'[k]] \in {"up", "closed"}
    <3>1. pc'[k] \in {"opening", "ask"} => at'[k] \in Conn /\ quic'[at'[k]] # "new"
        BY DEF TypeOK, CloseInv, Dialled
    <3> QED BY <3>1 DEF TypeOK
  <2> QED BY <2>1, <2>2
<1>6. /\ Inv /\ Has /\ [Next]_vars => Has' \/ Starts' \/ Ends'
      /\ Inv /\ Has /\ <<CallerStep(k)>>_vars => Starts' \/ Ends'
    BY RequestMoves, OwnStepMoves, ZenonT(60)
<1>7. /\ Inv /\ Pushes /\ [Next]_vars => Pushes' \/ Has'
      /\ Inv /\ Pushes /\ <<CallerStep(k)>>_vars => Has'
    BY RequestMoves, OwnStepMoves, ZenonT(60)
<1>8. /\ Inv /\ Dials /\ [Next]_vars => Dials' \/ Pushes' \/ Done'
      /\ Inv /\ Dials /\ <<CallerStep(k)>>_vars => Pushes' \/ Done'
    BY RequestMoves, OwnStepMoves, ZenonT(60)
<1>f. FairSpec => Spec /\ CallerRuns(k)
    BY DEF FairSpec
<1>e. CallersEnabled =>
        /\ [](pc[k] \in Ready => ENABLED <<CallerStep(k)>>_vars)
        /\ [](Stuck => ENABLED <<SendUnblocked(k)>>_vars)
    BY DEF CallersEnabled
<1>r. Ends \/ Fails \/ Waits \/ Starts \/ Has \/ Pushes \/ Dials => pc[k] \in Ready
    BY DEF Ready
<1> HIDE DEF Done, Ends, Fails, Waits, Stuck, Starts, Has, Pushes, Dials, Inv
<1>i. Spec => []Inv
    BY CloseInvariant DEF Inv
<1> DEFINE Fair == /\ [][Next]_vars /\ []Inv /\ CallerRuns(k)
                   /\ [](pc[k] \in Ready => ENABLED <<CallerStep(k)>>_vars)
                   /\ [](Stuck => ENABLED <<SendUnblocked(k)>>_vars)
<1>9. FairSpec /\ CallersEnabled => Fair
    BY <1>f, <1>e, <1>i, PTL DEF Spec
<1>11. Fair => (Ends ~> Done)
    BY <1>1, <1>r, PTL DEF CallerRuns
<1>12. Fair => (Fails ~> Ends)
    BY <1>2, <1>r, PTL DEF CallerRuns
<1>13. Fair => (Waits ~> Done \/ Ends \/ Fails)
    BY <1>3, <1>r, PTL DEF CallerRuns
<1>14. Fair => (Stuck ~> Waits \/ Fails)
    BY <1>4, PTL DEF CallerRuns
<1>15. Fair => (Starts ~> Done \/ Ends \/ Stuck)
    BY <1>5, <1>r, PTL DEF CallerRuns
<1>16. Fair => (Has ~> Starts \/ Ends)
    BY <1>6, <1>r, PTL DEF CallerRuns
<1>17. Fair => (Pushes ~> Has)
    BY <1>7, <1>r, PTL DEF CallerRuns
<1>18. Fair => (Dials ~> Pushes \/ Done)
    BY <1>8, <1>r, PTL DEF CallerRuns
<1>19. Fair => []<>Done
    BY <1>0, <1>11, <1>12, <1>13, <1>14, <1>15, <1>16, <1>17, <1>18, PTL
<1>20. FairSpec /\ CallersEnabled => []<>Done
    BY <1>9, <1>19, PTL
<1> QED BY <1>20 DEF Done

(* Alive is set once, when the connection is dialled: the dead stay dead,  *)
(* and only the dialling of it puts a connection into the pool.            *)
LEMMA DeadStayDead ==
    ASSUME TypeOK, CloseInv, [Next]_vars, NEW c \in pool \ alive, need = 0
    PROVE  c \notin pool' \/ (c \in pool' \ alive' /\ need' = 0)
<1>0. c \in Conn /\ quic[c] # "new"
    BY DEF TypeOK, CloseInv, Dialled
<1>1. CASE alive' \subseteq alive /\ need' = 0
    BY <1>1
<1>2. CASE MaintTick
    BY <1>2, ZenonT(60) DEF MaintTick
<1>3. ASSUME NEW k \in Caller,
             \/ Acquire(k) \/ CallerStep(k) \/ SendStep(k) \/ UdpReply(k)
             \/ SessionEnds(k) \/ AssocEnds(k)
      PROVE  alive' \subseteq alive /\ need' = 0
    BY <1>3, ZenonT(60) DEF Acquire, CallerStep, SendStep, UdpReply, SessionEnds, AssocEnds, DialErr, Push,
                CheckAlive, Count, OpenReply, Uncount, Kill, Pend, UdpGivesUp, Unpend, RouteUdp,
                SendOpen, AskUdp, life
<1>4. ASSUME NEW k \in Caller, NEW d \in Conn, DialOk(k, d)
      PROVE  c \notin pool' \/ (c \in pool' \ alive' /\ need' = 0)
    BY <1>0, <1>4, ZenonT(60) DEF DialOk, Connected
<1>5. ASSUME NEW d \in Conn, QuicCloses(d) \/ ReaderExpires(d) \/ WatcherWakes(d)
      PROVE  alive' \subseteq alive /\ need' = 0
    BY <1>5, ZenonT(60) DEF QuicCloses, ReaderExpires, WatcherWakes
<1>6. ASSUME NEW e \in Runner \X Conn, Expire(e) PROVE alive' \subseteq alive /\ need' = 0
    BY <1>6 DEF Expire, ClearPending, ClearRoutes, CancelClose, life
<1>7. ~MaintDialErr /\ \A d \in Conn : ~MaintDialOk(d)
    BY DEF MaintDialErr, MaintDialOk
<1>8. CASE UNCHANGED vars
    BY <1>8 DEF vars, life
<1> QED BY <1>1, <1>2, <1>3, <1>4, <1>5, <1>6, <1>7, <1>8 DEF Next

(* With a dead connection in the pool and no dial left to make, the tick    *)
(* can be taken and changes something.                                     *)
MaintEnabled ==
    \A c \in Conn : [](c \in pool \ alive /\ need = 0 => ENABLED <<MaintTick \/ MaintDialErr>>_vars)

(* A connection that is dead when the maintenance task waits for its timer *)
(* leaves the pool in every fair behaviour, for it cannot come back to     *)
(* life. (That a tick's dials end is an induction on their number.)        *)
THEOREM DeadLeaveAtTheTick ==
    FairSpec /\ MaintEnabled => \A c \in Conn : (c \in pool \ alive /\ need = 0) ~> c \notin pool
<1> SUFFICES ASSUME NEW c \in Conn
             PROVE  FairSpec /\ MaintEnabled => ((c \in pool \ alive /\ need = 0) ~> c \notin pool)
    OBVIOUS
<1> DEFINE Dead == c \in pool \ alive /\ need = 0
           Out == c \notin pool
<1>1. TypeOK /\ CloseInv /\ Dead /\ [Next]_vars => Dead' \/ Out'
    BY DeadStayDead
<1>2. Dead /\ <<MaintTick \/ MaintDialErr>>_vars => Out'
  <2>1. MaintTick => pool' \subseteq pool \cap alive
      BY DEF MaintTick
  <2>2. MaintDialErr => need # 0
      BY DEF MaintDialErr
  <2> QED BY <2>1, <2>2
<1>3. FairSpec => Spec /\ MaintRuns
    BY DEF FairSpec
<1>4. MaintEnabled => [](Dead => ENABLED <<MaintTick \/ MaintDialErr>>_vars)
    BY DEF MaintEnabled
<1> HIDE DEF Dead, Out
<1>5. FairSpec /\ MaintEnabled => (Dead ~> Out)
    BY <1>1, <1>2, <1>3, <1>4, CloseInvariant, PTL DEF Spec, MaintRuns
<1> QED BY <1>5 DEF Dead, Out

=============================================================================
