--------------------------- MODULE SessionHubProofs ---------------------------
(***************************************************************************)
(* Theorems about SessionHub, and about Shutdown composed with it, for     *)
(* every number of connections, session ids and requests and every limit:  *)
(* first what always holds, then that cancelled requests settle and that   *)
(* the shutdown's wait ends.                                               *)
(***************************************************************************)
EXTENDS Shutdown, FiniteSetTheorems, TLAPS

\* The default prover and its time limit; leaves that need Zenon say so.
USE SMTT(60)

-----------------------------------------------------------------------------
(* Finiteness of the sets that the cardinalities range over. *)

LEMMA KeyFinite == IsFiniteSet(Key)
BY FS_Product, HubAssumption DEF Key

LEMMA ActorFinite == IsFiniteSet(Actor)
<1>1. IsFiniteSet({"worker", "out", "in"}) /\ IsFiniteSet({"reader", "reaper"})
  <2>1. IsFiniteSet({"reader"} \cup {"reaper"}) /\ IsFiniteSet({"worker"} \cup {"out"})
    BY FS_Singleton, FS_Union, Zenon
  <2>2. IsFiniteSet(({"worker"} \cup {"out"}) \cup {"in"})
    BY <2>1, FS_Singleton, FS_Union, Zenon
  <2>3. /\ {"reader", "reaper"} = {"reader"} \cup {"reaper"}
        /\ {"worker", "out", "in"} = ({"worker"} \cup {"out"}) \cup {"in"}
    OBVIOUS
  <2> QED
    BY <2>1, <2>2, <2>3
<1>2. /\ IsFiniteSet({"worker", "out", "in"} \X Task)
      /\ IsFiniteSet({"reader", "reaper"} \X Key)
  BY <1>1, KeyFinite, FS_Product, HubAssumption
<1> QED
  BY <1>2, FS_Union, ZenonT(60) DEF Actor

-----------------------------------------------------------------------------
(* Requests, pumps and frames leave the connections alone. *)
LEMMA SessionsStay == Sessions => UNCHANGED <<conns, chan, cancelled>>
<1> USE DEF tokens
<1>1. ASSUME NEW t \in Task, Arrive(t) \/ Worker(t) PROVE UNCHANGED <<conns, chan, cancelled>>
  <2>1. CASE Arrive(t) \/ CheckContains(t) \/ CheckCount(t) \/ Acquire(t)
    BY <2>1 DEF Arrive, CheckContains, CheckCount, Acquire
  <2>2. CASE Register(t)
    BY <2>2 DEF Register
  <2>3. CASE InsertUdpRoute(t) \/ DialOk(t) \/ DialErr(t) \/ Reply(t) \/ Abort(t)
    BY <2>3 DEF InsertUdpRoute, DialOk, DialErr, Reply, Abort
  <2> QED
    BY <1>1, <2>1, <2>2, <2>3 DEF Worker
<1>2. ASSUME NEW t \in Task, OutEnds(t) \/ WatcherWakes(t) \/ InHalfCloses(t) \/ InAborts(t)
      PROVE  UNCHANGED <<conns, chan, cancelled>>
  BY <1>2 DEF OutEnds, WatcherWakes, InHalfCloses, InAborts
<1>3. ASSUME NEW a \in Actor, DropStep(a) PROVE UNCHANGED <<conns, chan, cancelled>>
  BY <1>3 DEF DropStep, DropTcpRoute, DropUdpRoute, DropSession, Release
<1>4. ASSUME NEW k \in Key, ReadClose(k) \/ ReadDataFails(k)
      PROVE  UNCHANGED <<conns, chan, cancelled>>
  BY <1>4 DEF ReadClose, ReadDataFails
<1> QED
  BY <1>1, <1>2, <1>3, <1>4, ZenonT(60) DEF Sessions

(* Between its sweeps the reaper only cancels. *)
LEMMA ReaperCancels ==
    Reaper => /\ UNCHANGED chan /\ cancelled \subseteq cancelled'
              /\ conns' = conns \/ (conns' = conns \ cancelled /\ UNCHANGED cancelled)
<1> USE DEF tokens
<1>1. ASSUME NEW c \in Conn, ReapVisit(c) \/ ReapLeave(c)
      PROVE  UNCHANGED <<conns, chan>> /\ cancelled \subseteq cancelled'
  BY <1>1, ZenonT(60) DEF ReapVisit, ReapLeave
<1>2. ASSUME NEW k \in Key, ReapSession(k)
      PROVE  UNCHANGED <<conns, chan>> /\ cancelled \subseteq cancelled'
  BY <1>2 DEF ReapSession
<1>3. ASSUME ReapTick PROVE UNCHANGED <<conns, chan>> /\ cancelled \subseteq cancelled'
  BY <1>3 DEF ReapTick
<1>4. ASSUME ReapSweep PROVE UNCHANGED <<chan, cancelled>> /\ conns' = conns \ cancelled
  BY <1>4 DEF ReapSweep
<1> QED
  BY <1>1, <1>2, <1>3, <1>4 DEF Reaper

-----------------------------------------------------------------------------
(* Type correctness. *)

LEMMA TypeInit == Init => TypeOK
BY HubAssumption DEF Init, TypeOK, Key, Request

LEMMA TargetType ==
    ASSUME TypeOK, NEW a \in Actor
    PROVE  Target(a) \in Key
BY DEF TypeOK, Target, Actor, Request

LEMMA TypeNext == TypeOK /\ [Next]_vars => TypeOK'
<1> SUFFICES ASSUME TypeOK, [Next]_vars PROVE TypeOK'
  OBVIOUS
<1> USE DEF TypeOK, maps, tokens
<1>1. ASSUME NEW t \in Task, Arrive(t) PROVE TypeOK'
  BY <1>1 DEF Arrive
<1>2. ASSUME NEW t \in Task, CheckContains(t) PROVE TypeOK'
  BY <1>2 DEF CheckContains
<1>3. ASSUME NEW t \in Task, CheckCount(t) PROVE TypeOK'
  BY <1>3 DEF CheckCount
<1>4. ASSUME NEW t \in Task, Acquire(t) PROVE TypeOK'
  BY <1>4, HubAssumption DEF Acquire
<1>5. ASSUME NEW t \in Task, Register(t) PROVE TypeOK'
  <2>1. <<"worker", t>> \in Actor /\ req[t].key \in Key
    BY DEF Actor, Request
  <2>2. CASE sessions[req[t].key] # NoTask
    BY <1>5, <2>1, <2>2 DEF Register
  <2>3. CASE sessions[req[t].key] = NoTask
    BY <1>5, <2>1, <2>3 DEF Register
  <2> QED
    BY <2>2, <2>3
<1>6. ASSUME NEW t \in Task, InsertUdpRoute(t) PROVE TypeOK'
  BY <1>6 DEF InsertUdpRoute, Request
<1>7. ASSUME NEW t \in Task, DialOk(t) PROVE TypeOK'
  BY <1>7 DEF DialOk, Request
<1>8. ASSUME NEW t \in Task, DialErr(t) \/ OutEnds(t) \/ WatcherWakes(t) \/ InHalfCloses(t) \/ InAborts(t)
      PROVE TypeOK'
  BY <1>8 DEF DialErr, OutEnds, WatcherWakes, InHalfCloses, InAborts, StartDrop, Actor
<1>9. ASSUME NEW t \in Task, Reply(t) \/ Abort(t) PROVE TypeOK'
  BY <1>9 DEF Reply, Abort
<1>10. ASSUME NEW a \in Actor, DropTcpRoute(a) PROVE TypeOK'
  BY <1>10, ZenonT(60) DEF DropTcpRoute
<1>11. ASSUME NEW a \in Actor, DropUdpRoute(a) PROVE TypeOK'
  BY <1>11, TargetType DEF DropUdpRoute
<1>12. ASSUME NEW a \in Actor, DropSession(a) PROVE TypeOK'
  BY <1>12, TargetType DEF DropSession
<1>13. ASSUME NEW a \in Actor, Release(a) PROVE TypeOK'
  BY <1>13, HubAssumption DEF Release
<1>14. ASSUME NEW k \in Key, ReadClose(k) \/ ReadDataFails(k) PROVE TypeOK'
  BY <1>14 DEF ReadClose, ReadDataFails, StartDrop, Actor
<1>15. ASSUME ReapTick PROVE TypeOK'
  BY <1>15, ZenonT(60) DEF ReapTick
<1>15a. ASSUME ReapSweep PROVE TypeOK'
  BY <1>15a DEF ReapSweep
<1>16. ASSUME NEW c \in Conn, ReapVisit(c) PROVE TypeOK'
  <2>1. PICK E \in SUBSET SessionsOf(c) :
           reap' = [reap EXCEPT !.todo = @ \ {c},
                                !.at = {c} \cap conns,
                                !.expired = ({c} \cap conns) \X E]
    BY <1>16, ZenonT(60) DEF ReapVisit
  <2>2. ({c} \cap conns) \X E \subseteq Key
    BY <2>1 DEF SessionsOf, Key
  <2> QED
    BY <1>16, <2>1, <2>2, ZenonT(60) DEF ReapVisit
<1>17. ASSUME NEW c \in Conn, ReapLeave(c) PROVE TypeOK'
  BY <1>17 DEF ReapLeave
<1>18. ASSUME NEW k \in Key, ReapSession(k) PROVE TypeOK'
  BY <1>18 DEF ReapSession, StartDrop, Actor
<1>19. ASSUME NEW c \in Conn, AcceptMux(c) \/ AcceptWt(c) \/ CancelConn(c) \/ MuxBreaks(c) PROVE TypeOK'
  BY <1>19 DEF AcceptMux, AcceptWt, CancelConn, MuxBreaks
<1>20. ASSUME NEW c \in Conn, MuxJoins(c) \/ WtControlEnds(c) \/ WtDies(c) PROVE TypeOK'
  BY <1>20 DEF MuxJoins, WtControlEnds, WtDies
<1>21. CASE UNCHANGED vars
  BY <1>21 DEF vars
<1> HIDE DEF TypeOK, maps, tokens
<1> QED
  BY <1>1, <1>2, <1>3, <1>4, <1>5, <1>6, <1>7, <1>8, <1>9, <1>10, <1>11, <1>12, <1>13,
     <1>14, <1>15, <1>15a, <1>16, <1>17, <1>18, <1>19, <1>20, <1>21, ZenonT(60)
  DEF Next, Sessions, Accept, Ending, Worker, DropStep, Reaper

(* Every variable keeps its type; in particular the quota counter stays a  *)
(* value of its machine word.                                              *)
THEOREM TypeCorrect == Spec => []TypeOK
BY TypeInit, TypeNext, PTL DEF Spec

-----------------------------------------------------------------------------
(* Who may be inside drop_session. A task that begins a drop is not in the *)
(* middle of another one: no release still owed can be overwritten.        *)

StageInv ==
    \A t \in Task :
        /\ stage[<<"worker", t>>] # "none" => pc[t] = "reply"
        /\ stage[<<"out", t>>] # "none" => out[t] = "done"
        /\ stage[<<"in", t>>] # "none" => inp[t] = "done"
        /\ out[t] # "none" => pc[t] \in {"route", "reply", "done", "aborted"}
        /\ inp[t] # "none" => pc[t] \in {"reply", "done", "aborted"}

LEMMA ActorParts ==
    /\ \A t \in Task : /\ <<"worker", t>> \in Actor
                       /\ <<"out", t>> \in Actor
                       /\ <<"in", t>> \in Actor
    /\ \A k \in Key : <<"reader", k>> \in Actor /\ <<"reaper", k>> \in Actor
BY DEF Actor

LEMMA StageInit == Init => StageInv
BY ActorParts, ZenonT(60) DEF Init, StageInv

LEMMA StageNext == TypeOK /\ StageInv /\ [Next]_vars => StageInv'
<1> SUFFICES ASSUME TypeOK, StageInv, [Next]_vars PROVE StageInv'
  OBVIOUS
<1>0. /\ DOMAIN pc = Task /\ DOMAIN out = Task /\ DOMAIN inp = Task /\ DOMAIN stage = Actor
      /\ pc = [t \in Task |-> pc[t]] /\ out = [t \in Task |-> out[t]]
      /\ inp = [t \in Task |-> inp[t]] /\ stage = [a \in Actor |-> stage[a]]
  BY DEF TypeOK
<1> USE <1>0, ActorParts DEF StageInv, maps, tokens
<1>1. ASSUME NEW t \in Task, Arrive(t) \/ CheckContains(t) \/ CheckCount(t) PROVE StageInv'
  <2>1. /\ pc[t] \in {"new", "contains", "count"} /\ UNCHANGED <<out, inp, stage>>
        /\ \E p : pc' = [pc EXCEPT ![t] = p]
    BY <1>1 DEF Arrive, CheckContains, CheckCount
  <2>2. out[t] = "none" /\ inp[t] = "none" /\ stage[<<"worker", t>>] = "none"
    BY <2>1, ZenonT(60)
  <2> QED
    BY <2>1, <2>2, ZenonT(60)
<1>2. ASSUME NEW t \in Task, Acquire(t) PROVE StageInv'
  BY <1>2, ZenonT(60) DEF Acquire
<1>3. ASSUME NEW t \in Task, Register(t) PROVE StageInv'
  <2>1. CASE /\ pc' = [pc EXCEPT ![t] = "reply"]
             /\ stage' = [stage EXCEPT ![<<"worker", t>>] = "release"]
             /\ UNCHANGED <<out, inp>> /\ pc[t] = "register"
    BY <2>1, ZenonT(60)
  <2>2. CASE /\ pc' = [pc EXCEPT ![t] = "route"]
             /\ out' = [out EXCEPT ![t] = "run"]
             /\ UNCHANGED <<stage, inp>> /\ pc[t] = "register"
    BY <2>2, ZenonT(60)
  <2>3. CASE /\ pc' = [pc EXCEPT ![t] = "dial"]
             /\ UNCHANGED <<stage, out, inp>> /\ pc[t] = "register"
    BY <2>3, ZenonT(60)
  <2> QED
    BY <1>3, <2>1, <2>2, <2>3, ZenonT(60) DEF Register
<1>4. ASSUME NEW t \in Task, InsertUdpRoute(t) PROVE StageInv'
  BY <1>4, ZenonT(60) DEF InsertUdpRoute
<1>4a. ASSUME NEW t \in Task, DialOk(t) PROVE StageInv'
  BY <1>4a, ZenonT(60) DEF DialOk
<1>5. ASSUME NEW t \in Task, DialErr(t) PROVE StageInv'
  BY <1>5, ZenonT(60) DEF DialErr, StartDrop
<1>6. ASSUME NEW t \in Task, Reply(t) \/ Abort(t) PROVE StageInv'
  <2>1. /\ stage[<<"worker", t>>] = "none"
        /\ \/ pc[t] = "reply" /\ pc' = [pc EXCEPT ![t] = "done"]
           \/ /\ pc[t] \in {"contains", "dial", "reply"}
              /\ pc' = [pc EXCEPT ![t] = "aborted"]
        /\ UNCHANGED <<out, inp, stage>>
    BY <1>6 DEF Reply, Abort
  <2> QED
    BY <2>1, ZenonT(60)
<1>7. ASSUME NEW t \in Task, OutEnds(t) \/ WatcherWakes(t) PROVE StageInv'
  <2>1. /\ out[t] = "run" /\ out' = [out EXCEPT ![t] = "done"]
        /\ stage' = [stage EXCEPT ![<<"out", t>>] = "tcp"]
        /\ UNCHANGED <<pc, inp>>
    BY <1>7 DEF OutEnds, WatcherWakes, StartDrop
  <2> QED
    BY <2>1, ZenonT(60)
<1>8. ASSUME NEW t \in Task, InHalfCloses(t) \/ InAborts(t) PROVE StageInv'
  BY <1>8, ZenonT(60) DEF InHalfCloses, InAborts, StartDrop
<1>9. ASSUME NEW a \in Actor, DropStep(a) PROVE StageInv'
  <2>1. /\ UNCHANGED <<pc, out, inp>> /\ stage[a] # "none"
        /\ \E p : stage' = [stage EXCEPT ![a] = p]
    BY <1>9 DEF DropStep, DropTcpRoute, DropUdpRoute, DropSession, Release
  <2> QED
    BY <2>1, ZenonT(60)
<1>10. ASSUME NEW k \in Key, ReadClose(k) \/ ReadDataFails(k) \/ ReapSession(k)
       PROVE StageInv'
  <2>1. /\ UNCHANGED <<pc, out, inp>>
        /\ \E a \in {<<"reader", k>>, <<"reaper", k>>} : stage' = [stage EXCEPT ![a] = "tcp"]
    BY <1>10 DEF ReadClose, ReadDataFails, ReapSession, StartDrop
  <2>2. PICK a \in {<<"reader", k>>, <<"reaper", k>>} : stage' = [stage EXCEPT ![a] = "tcp"]
    BY <2>1, ZenonT(60)
  <2>3. \A t \in Task : a # <<"worker", t>> /\ a # <<"out", t>> /\ a # <<"in", t>>
    <3> HIDE <1>0, ActorParts DEF StageInv, maps, tokens
    <3> QED
      OBVIOUS
  <2> QED
    BY <2>1, <2>2, <2>3, ZenonT(60)
<1>11. ASSUME UNCHANGED <<pc, out, inp, stage>> PROVE StageInv'
  BY <1>11, ZenonT(60)
<1>12. ASSUME ReapTick \/ ReapSweep PROVE StageInv'
  BY <1>12, <1>11, ZenonT(60) DEF ReapTick, ReapSweep
<1>13. ASSUME NEW c \in Conn, ReapVisit(c) \/ ReapLeave(c) PROVE StageInv'
  BY <1>13, <1>11, ZenonT(60) DEF ReapVisit, ReapLeave
<1>14. ASSUME NEW c \in Conn, \/ AcceptMux(c) \/ AcceptWt(c) \/ CancelConn(c) \/ MuxBreaks(c)
                              \/ MuxJoins(c) \/ WtControlEnds(c) \/ WtDies(c)
       PROVE StageInv'
  BY <1>14, <1>11, ZenonT(60) DEF AcceptMux, AcceptWt, CancelConn, MuxBreaks, MuxJoins, WtControlEnds, WtDies
<1>15. CASE UNCHANGED vars
  BY <1>15, <1>11, ZenonT(60) DEF vars
<1> QED
  BY <1>1, <1>2, <1>3, <1>4, <1>4a, <1>5, <1>6, <1>7, <1>8, <1>9, <1>10, <1>12, <1>13, <1>14, <1>15, ZenonT(60)
  DEF Next, Sessions, Accept, Ending, Worker, Reaper

-----------------------------------------------------------------------------
(* How far the two tasks of a request are. No step takes either of them    *)
(* back, and nobody else's step moves them.                                *)

(* The steps of the engine by the state of the requests they touch. *)
LEMMA EngineKinds ==
    ASSUME [Next]_vars
    PROVE  \/ UNCHANGED <<req, sessions, pc, out, stage>>
           \/ \E u \in Task : Arrive(u) \/ CheckContains(u) \/ CheckCount(u) \/ Acquire(u) \/ InsertUdpRoute(u)
                              \/ DialOk(u) \/ Reply(u) \/ Abort(u)
           \/ \E u \in Task : Register(u) \/ DialErr(u)
           \/ \E a \in Actor : DropStep(a)
           \/ \E u \in Task : OutEnds(u) \/ WatcherWakes(u) \/ InHalfCloses(u) \/ InAborts(u)
           \/ \E k \in Key : ReadClose(k) \/ ReadDataFails(k) \/ ReapSession(k)
<1> USE DEF maps
<1>1. ASSUME NEW c \in Conn, ReapVisit(c) \/ ReapLeave(c) PROVE UNCHANGED <<req, sessions, pc, out, stage>>
  BY <1>1, ZenonT(60) DEF ReapVisit, ReapLeave
<1>2. ASSUME ReapTick \/ ReapSweep PROVE UNCHANGED <<req, sessions, pc, out, stage>>
  BY <1>2, ZenonT(60) DEF ReapTick, ReapSweep
<1>3. ASSUME NEW c \in Conn, \/ AcceptMux(c) \/ AcceptWt(c) \/ CancelConn(c) \/ MuxBreaks(c)
                              \/ MuxJoins(c) \/ WtControlEnds(c) \/ WtDies(c)
      PROVE UNCHANGED <<req, sessions, pc, out, stage>>
  BY <1>3, ZenonT(60) DEF AcceptMux, AcceptWt, CancelConn, MuxBreaks, MuxJoins, WtControlEnds, WtDies
<1>4. UNCHANGED vars => UNCHANGED <<req, sessions, pc, out, stage>>
  BY ZenonT(60) DEF vars
<1> QED
  BY <1>1, <1>2, <1>3, <1>4, ZenonT(60) DEF Next, Sessions, Reaper, Accept, Ending, Worker

LEMMA WorkerMoves ==
    ASSUME TypeOK, StageInv, [Next]_vars, NEW t \in Task,
           NEW w, w = stage[<<"worker", t>>], NEW v, v = stage'[<<"worker", t>>]
    PROVE  \/ pc'[t] = pc[t] /\ v = w
           \/ pc[t] = "new" /\ pc'[t] = "contains" /\ v = "none"
           \/ pc[t] = "contains" /\ pc'[t] \in {"count", "reply", "aborted"} /\ v = "none"
           \/ pc[t] = "count" /\ pc'[t] \in {"acquire", "reply"} /\ v = "none"
           \/ pc[t] = "acquire" /\ pc'[t] \in {"register", "reply"} /\ v = "none"
           \/ pc[t] = "register" /\ pc'[t] \in {"route", "dial"} /\ v = "none"
           \/ pc[t] = "register" /\ pc'[t] = "reply" /\ v = "release"
           \/ pc[t] = "route" /\ pc'[t] = "reply" /\ v = "none"
           \/ pc[t] = "dial" /\ pc'[t] \in {"reply", "aborted"} /\ v = "none"
           \/ pc[t] = "dial" /\ pc'[t] = "reply" /\ v = "tcp"
           \/ pc[t] = "reply" /\ pc'[t] = "reply" /\ w = "tcp" /\ v = "udp"
           \/ pc[t] = "reply" /\ pc'[t] = "reply" /\ w = "udp" /\ v = "session"
           \/ pc[t] = "reply" /\ pc'[t] = "reply" /\ w = "session" /\ v \in {"release", "none"}
           \/ pc[t] = "reply" /\ pc'[t] = "reply" /\ w = "release" /\ v = "none"
           \/ pc[t] = "reply" /\ w = "none" /\ pc'[t] \in {"done", "aborted"} /\ v = "none"
<1>0. /\ DOMAIN pc = Task /\ DOMAIN stage = Actor /\ <<"worker", t>> \in Actor
      /\ pc = [u \in Task |-> pc[u]] /\ stage = [a \in Actor |-> stage[a]]
      /\ w # "none" => pc[t] = "reply"
  BY ActorParts, ZenonT(60) DEF TypeOK, StageInv
<1>1. CASE UNCHANGED <<pc, stage>>
  BY <1>1
<1>2. ASSUME NEW u \in Task, Arrive(u) \/ CheckContains(u) \/ CheckCount(u) \/ Acquire(u) \/ InsertUdpRoute(u)
                             \/ DialOk(u) \/ Reply(u) \/ Abort(u)
      PROVE  /\ UNCHANGED stage
             /\ u # t => pc'[t] = pc[t]
             /\ \/ pc[u] = "new" /\ pc'[u] = "contains"
                \/ pc[u] = "contains" /\ pc'[u] \in {"count", "reply", "aborted"}
                \/ pc[u] = "count" /\ pc'[u] \in {"acquire", "reply"}
                \/ pc[u] = "acquire" /\ pc'[u] \in {"register", "reply"}
                \/ pc[u] = "route" /\ pc'[u] = "reply"
                \/ pc[u] = "dial" /\ pc'[u] \in {"reply", "aborted"}
                \/ pc[u] = "reply" /\ stage[<<"worker", u>>] = "none" /\ pc'[u] \in {"done", "aborted"}
  <2>1. UNCHANGED stage /\ \E p : pc' = [pc EXCEPT ![u] = p]
    BY <1>2, ZenonT(60) DEF Arrive, CheckContains, CheckCount, Acquire, InsertUdpRoute, DialOk, Reply, Abort
  <2>2. u # t => pc'[t] = pc[t]
    BY <2>1, <1>0
  <2>3. CASE Arrive(u) \/ CheckContains(u) \/ CheckCount(u) \/ Acquire(u)
    BY <2>1, <2>2, <2>3, <1>0 DEF Arrive, CheckContains, CheckCount, Acquire
  <2>4. CASE InsertUdpRoute(u) \/ DialOk(u) \/ Reply(u) \/ Abort(u)
    BY <2>1, <2>2, <2>4, <1>0 DEF InsertUdpRoute, DialOk, Reply, Abort
  <2> QED
    BY <1>2, <2>3, <2>4
<1>3. ASSUME NEW u \in Task, Register(u) \/ DialErr(u)
      PROVE  \/ u # t /\ pc'[t] = pc[t] /\ v = w
             \/ u = t /\ pc[t] = "register" /\ pc'[t] \in {"route", "dial"} /\ v = w
             \/ u = t /\ pc[t] = "register" /\ pc'[t] = "reply" /\ v = "release"
             \/ u = t /\ pc[t] = "dial" /\ pc'[t] = "reply" /\ v = "tcp"
  <2>1. \/ /\ pc[u] = "register" /\ UNCHANGED stage
           /\ \E p \in {"route", "dial"} : pc' = [pc EXCEPT ![u] = p]
        \/ /\ pc[u] = "register" /\ pc' = [pc EXCEPT ![u] = "reply"]
           /\ stage' = [stage EXCEPT ![<<"worker", u>>] = "release"]
        \/ /\ pc[u] = "dial" /\ pc' = [pc EXCEPT ![u] = "reply"]
           /\ stage' = [stage EXCEPT ![<<"worker", u>>] = "tcp"]
    BY <1>3, ZenonT(60) DEF Register, DialErr, StartDrop
  <2>2. u # t => <<"worker", u>> # <<"worker", t>>
    OBVIOUS
  <2>3. <<"worker", u>> \in Actor
    BY ActorParts, ZenonT(60)
  <2>4. CASE u # t
    BY <2>1, <2>2, <2>3, <2>4, <1>0
  <2>5. CASE u = t
    BY <2>1, <2>5, <1>0
  <2> QED
    BY <2>4, <2>5
<1>4. ASSUME NEW a \in Actor, DropStep(a)
      PROVE  /\ UNCHANGED pc /\ (a # <<"worker", t>> => v = w)
             /\ \/ stage[a] = "tcp" /\ stage'[a] = "udp"
                \/ stage[a] = "udp" /\ stage'[a] = "session"
                \/ stage[a] = "session" /\ stage'[a] \in {"release", "none"}
                \/ stage[a] = "release" /\ stage'[a] = "none"
  <2>1. UNCHANGED pc /\ \E p : stage' = [stage EXCEPT ![a] = p]
    BY <1>4 DEF DropStep, DropTcpRoute, DropUdpRoute, DropSession, Release
  <2>2. a # <<"worker", t>> => v = w
    BY <2>1, <1>0
  <2> QED
    BY <1>0, <1>4, <2>1, <2>2 DEF DropStep, DropTcpRoute, DropUdpRoute, DropSession, Release
<1>6. ASSUME NEW u \in Task, OutEnds(u) \/ WatcherWakes(u) \/ InHalfCloses(u) \/ InAborts(u)
      PROVE  pc'[t] = pc[t] /\ v = w
  <2>1. UNCHANGED pc /\ (UNCHANGED stage \/ \E a \in {<<"out", u>>, <<"in", u>>} : StartDrop(a))
    BY <1>6, ZenonT(60) DEF OutEnds, WatcherWakes, InHalfCloses, InAborts
  <2>2. /\ <<"out", u>> \in Actor /\ <<"in", u>> \in Actor
        /\ <<"out", u>> # <<"worker", t>> /\ <<"in", u>> # <<"worker", t>>
    <3>1. <<"out", u>> # <<"worker", t>> /\ <<"in", u>> # <<"worker", t>>
      OBVIOUS
    <3> QED
      BY <3>1, ActorParts, ZenonT(60)
  <2> QED
    BY <1>0, <2>1, <2>2 DEF StartDrop
<1>7. ASSUME NEW k \in Key, ReadClose(k) \/ ReadDataFails(k) \/ ReapSession(k)
      PROVE  pc'[t] = pc[t] /\ v = w
  <2>1. UNCHANGED pc /\ \E a \in {<<"reader", k>>, <<"reaper", k>>} : StartDrop(a)
    BY <1>7, ZenonT(60) DEF ReadClose, ReadDataFails, ReapSession
  <2>2. /\ <<"reader", k>> \in Actor /\ <<"reaper", k>> \in Actor
        /\ <<"reader", k>> # <<"worker", t>> /\ <<"reaper", k>> # <<"worker", t>>
    BY ActorParts
  <2> QED
    BY <1>0, <2>1, <2>2 DEF StartDrop
<1>8. \/ UNCHANGED <<pc, stage>>
      \/ \E u \in Task : Arrive(u) \/ CheckContains(u) \/ CheckCount(u) \/ Acquire(u) \/ InsertUdpRoute(u)
                         \/ DialOk(u) \/ Reply(u) \/ Abort(u)
      \/ \E u \in Task : Register(u) \/ DialErr(u)
      \/ \E a \in Actor : DropStep(a)
      \/ \E u \in Task : OutEnds(u) \/ WatcherWakes(u) \/ InHalfCloses(u) \/ InAborts(u)
      \/ \E k \in Key : ReadClose(k) \/ ReadDataFails(k) \/ ReapSession(k)
  BY EngineKinds
<1> QED
  BY <1>0, <1>1, <1>2, <1>3, <1>4, <1>6, <1>7, <1>8, ZenonT(60)

LEMMA OutMoves ==
    ASSUME TypeOK, StageInv, [Next]_vars, NEW t \in Task,
           NEW w, w = stage[<<"out", t>>], NEW v, v = stage'[<<"out", t>>]
    PROVE  \/ out'[t] = out[t] /\ v = w
           \/ out[t] = "none" /\ out'[t] = "run" /\ v = "none" /\ pc[t] \in {"register", "dial"}
           \/ out[t] = "run" /\ out'[t] = "done" /\ v = "tcp"
           \/ out[t] = "done" /\ out'[t] = "done" /\ w = "tcp" /\ v = "udp"
           \/ out[t] = "done" /\ out'[t] = "done" /\ w = "udp" /\ v = "session"
           \/ out[t] = "done" /\ out'[t] = "done" /\ w = "session" /\ v \in {"release", "none"}
           \/ out[t] = "done" /\ out'[t] = "done" /\ w = "release" /\ v = "none"
<1>0. /\ DOMAIN out = Task /\ DOMAIN stage = Actor /\ <<"out", t>> \in Actor
      /\ out = [u \in Task |-> out[u]] /\ stage = [a \in Actor |-> stage[a]]
      /\ w # "none" => out[t] = "done"
      /\ out[t] # "none" => pc[t] \in {"route", "reply", "done", "aborted"}
      /\ out[t] \in {"none", "run", "done"}
  BY ActorParts, ZenonT(60) DEF TypeOK, StageInv
<1>1. CASE UNCHANGED <<out, stage>>
  BY <1>1
<1>2. ASSUME NEW u \in Task, Arrive(u) \/ CheckContains(u) \/ CheckCount(u) \/ Acquire(u) \/ InsertUdpRoute(u)
                             \/ DialOk(u) \/ Reply(u) \/ Abort(u) \/ Register(u) \/ DialErr(u)
      PROVE  v = w /\ (out'[t] = out[t] \/ (out'[t] = "run" /\ pc[t] \in {"register", "dial"}))
  <2>1. /\ UNCHANGED stage \/ \E p : stage' = [stage EXCEPT ![<<"worker", u>>] = p]
        /\ UNCHANGED out \/ (out' = [out EXCEPT ![u] = "run"] /\ pc[u] \in {"register", "dial"})
    <3>1. CASE Arrive(u) \/ CheckContains(u) \/ CheckCount(u) \/ Acquire(u) \/ InsertUdpRoute(u)
               \/ Reply(u) \/ Abort(u) \/ DialErr(u)
      BY <3>1, ZenonT(60)
      DEF Arrive, CheckContains, CheckCount, Acquire, InsertUdpRoute, Reply, Abort, DialErr, StartDrop
    <3>2. CASE DialOk(u) \/ Register(u)
      BY <3>2 DEF DialOk, Register
    <3> QED
      BY <1>2, <3>1, <3>2
  <2>2. <<"worker", u>> \in Actor /\ <<"worker", u>> # <<"out", t>>
    <3>1. <<"worker", u>> # <<"out", t>>
      OBVIOUS
    <3> QED
      BY <3>1, ActorParts, ZenonT(60)
  <2>3. v = w
    BY <1>0, <2>1, <2>2
  <2> QED
    BY <1>0, <2>1, <2>3
<1>4. ASSUME NEW a \in Actor, DropStep(a)
      PROVE  /\ UNCHANGED out /\ (a # <<"out", t>> => v = w)
             /\ \/ stage[a] = "tcp" /\ stage'[a] = "udp"
                \/ stage[a] = "udp" /\ stage'[a] = "session"
                \/ stage[a] = "session" /\ stage'[a] \in {"release", "none"}
                \/ stage[a] = "release" /\ stage'[a] = "none"
  <2>1. UNCHANGED out /\ \E p : stage' = [stage EXCEPT ![a] = p]
    BY <1>4 DEF DropStep, DropTcpRoute, DropUdpRoute, DropSession, Release
  <2>2. a # <<"out", t>> => v = w
    BY <2>1, <1>0
  <2> QED
    BY <1>0, <1>4, <2>1, <2>2 DEF DropStep, DropTcpRoute, DropUdpRoute, DropSession, Release
<1>6. ASSUME NEW u \in Task, OutEnds(u) \/ WatcherWakes(u) \/ InHalfCloses(u) \/ InAborts(u)
      PROVE  \/ out'[t] = out[t] /\ v = w
             \/ out[t] = "run" /\ out'[t] = "done" /\ v = "tcp"
  <2>1. \/ UNCHANGED out /\ (UNCHANGED stage \/ StartDrop(<<"in", u>>))
        \/ out[u] = "run" /\ out' = [out EXCEPT ![u] = "done"] /\ StartDrop(<<"out", u>>)
    BY <1>6, ZenonT(60) DEF OutEnds, WatcherWakes, InHalfCloses, InAborts
  <2>2. /\ <<"out", u>> \in Actor /\ <<"in", u>> \in Actor
        /\ <<"in", u>> # <<"out", t>> /\ (u # t => <<"out", u>> # <<"out", t>>)
    <3>1. <<"in", u>> # <<"out", t>> /\ (u # t => <<"out", u>> # <<"out", t>>)
      OBVIOUS
    <3> QED
      BY <3>1, ActorParts, ZenonT(60)
  <2>3. CASE u = t
    BY <1>0, <2>1, <2>2, <2>3 DEF StartDrop
  <2>4. CASE u # t
    BY <1>0, <2>1, <2>2, <2>4 DEF StartDrop
  <2> QED
    BY <2>3, <2>4
<1>7. ASSUME NEW k \in Key, ReadClose(k) \/ ReadDataFails(k) \/ ReapSession(k)
      PROVE  out'[t] = out[t] /\ v = w
  <2>1. UNCHANGED out /\ \E a \in {<<"reader", k>>, <<"reaper", k>>} : StartDrop(a)
    BY <1>7, ZenonT(60) DEF ReadClose, ReadDataFails, ReapSession
  <2>2. /\ <<"reader", k>> \in Actor /\ <<"reaper", k>> \in Actor
        /\ <<"reader", k>> # <<"out", t>> /\ <<"reaper", k>> # <<"out", t>>
    BY ActorParts
  <2> QED
    BY <1>0, <2>1, <2>2 DEF StartDrop
<1> QED
  BY <1>0, <1>1, <1>2, <1>4, <1>6, <1>7, EngineKinds, ZenonT(60)

(* The steps the scheduler owes a request do move it. *)
LEMMA OwnMoves ==
    ASSUME TypeOK, NEW t \in Task
    PROVE  /\ WorkerRuns(t) =>
                /\ pc'[t] # "aborted" \/ pc[t] = "aborted"
                /\ pc'[t] # pc[t] \/ stage'[<<"worker", t>>] # stage[<<"worker", t>>]
           /\ OutRuns(t) =>
                out'[t] # out[t] \/ stage'[<<"out", t>>] # stage[<<"out", t>>]
<1>0. /\ DOMAIN pc = Task /\ DOMAIN out = Task /\ DOMAIN stage = Actor
      /\ pc = [u \in Task |-> pc[u]] /\ out = [u \in Task |-> out[u]] /\ stage = [a \in Actor |-> stage[a]]
      /\ <<"worker", t>> \in Actor /\ <<"out", t>> \in Actor
  BY ActorParts, ZenonT(60) DEF TypeOK
<1>1. ASSUME NEW a \in Actor, DropStep(a) PROVE stage'[a] # stage[a] /\ UNCHANGED pc
  BY <1>0, <1>1 DEF DropStep, DropTcpRoute, DropUdpRoute, DropSession, Release
<1>2. ASSUME CheckContains(t) \/ CheckCount(t) \/ Acquire(t) \/ Register(t) PROVE pc'[t] # pc[t]
  BY <1>0, <1>2 DEF CheckContains, CheckCount, Acquire, Register
<1>3. ASSUME InsertUdpRoute(t) \/ DialOk(t) \/ DialErr(t) \/ Reply(t) \/ Abort(t) PROVE pc'[t] # pc[t]
  BY <1>0, <1>3 DEF InsertUdpRoute, DialOk, DialErr, Reply, Abort
<1>4. ASSUME OutEnds(t) \/ WatcherWakes(t) PROVE out'[t] # out[t]
  BY <1>0, <1>4 DEF OutEnds, WatcherWakes
<1> QED
  BY <1>0, <1>1, <1>2, <1>3, <1>4, ZenonT(60) DEF WorkerRuns, OutRuns, Worker

(* Where the worker of a request is, and where the task that owns its      *)
(* teardown is once the worker has returned.                               *)
WorkerAt(t, p, s) == pc[t] = p /\ stage[<<"worker", t>>] = s
WorkerEnded(t) == pc[t] \in {"done", "aborted"}
OutAt(t, o, s) == pc[t] = "done" /\ out[t] = o /\ stage[<<"out", t>>] = s
OutOver(t) == pc[t] = "done" /\ out[t] # "run" /\ stage[<<"out", t>>] = "none"

LEMMA RunningIsAt ==
    ASSUME TypeOK, StageInv, NEW t \in Task
    PROVE  Running(t) <=>
               \/ WorkerAt(t, "contains", "none") \/ WorkerAt(t, "count", "none") \/ WorkerAt(t, "acquire", "none")
               \/ WorkerAt(t, "register", "none") \/ WorkerAt(t, "route", "none") \/ WorkerAt(t, "dial", "none")
               \/ WorkerAt(t, "reply", "tcp") \/ WorkerAt(t, "reply", "udp") \/ WorkerAt(t, "reply", "session")
               \/ WorkerAt(t, "reply", "release") \/ WorkerAt(t, "reply", "none")
<1> DEFINE w == stage[<<"worker", t>>]
<1>1. w \in {"none", "tcp", "udp", "session", "release"} /\ (w # "none" => pc[t] = "reply")
  BY ActorParts, ZenonT(60) DEF TypeOK, StageInv
<1>2. pc[t] \in {"new", "contains", "count", "acquire", "register", "route", "dial", "reply", "done", "aborted"}
  BY DEF TypeOK
<1> HIDE DEF w
<1> QED
  BY <1>1, <1>2 DEF Running, WorkerAt, w

LEMMA WorkerSteps ==
    ASSUME TypeOK, StageInv, NEW t \in Task, [Next]_vars \/ UNCHANGED <<sessions, pc, out, stage>>
    PROVE  /\ WorkerAt(t, "contains", "none") =>
                \/ WorkerAt(t, "contains", "none")' /\ ~WorkerRuns(t)
                \/ WorkerAt(t, "count", "none")' \/ WorkerAt(t, "reply", "none")' \/ WorkerEnded(t)'
           /\ WorkerAt(t, "count", "none") =>
                \/ WorkerAt(t, "count", "none")' /\ ~WorkerRuns(t)
                \/ WorkerAt(t, "acquire", "none")' \/ WorkerAt(t, "reply", "none")'
           /\ WorkerAt(t, "acquire", "none") =>
                \/ WorkerAt(t, "acquire", "none")' /\ ~WorkerRuns(t)
                \/ WorkerAt(t, "register", "none")' \/ WorkerAt(t, "reply", "none")'
           /\ WorkerAt(t, "register", "none") =>
                \/ WorkerAt(t, "register", "none")' /\ ~WorkerRuns(t)
                \/ WorkerAt(t, "route", "none")' \/ WorkerAt(t, "dial", "none")' \/ WorkerAt(t, "reply", "release")'
           /\ WorkerAt(t, "route", "none") =>
                \/ WorkerAt(t, "route", "none")' /\ ~WorkerRuns(t)
                \/ WorkerAt(t, "reply", "none")'
           /\ WorkerAt(t, "dial", "none") =>
                \/ WorkerAt(t, "dial", "none")' /\ ~WorkerRuns(t)
                \/ WorkerAt(t, "reply", "none")' \/ WorkerAt(t, "reply", "tcp")' \/ WorkerEnded(t)'
           /\ WorkerAt(t, "reply", "tcp") =>
                \/ WorkerAt(t, "reply", "tcp")' /\ ~WorkerRuns(t)
                \/ WorkerAt(t, "reply", "udp")'
           /\ WorkerAt(t, "reply", "udp") =>
                \/ WorkerAt(t, "reply", "udp")' /\ ~WorkerRuns(t)
                \/ WorkerAt(t, "reply", "session")'
           /\ WorkerAt(t, "reply", "session") =>
                \/ WorkerAt(t, "reply", "session")' /\ ~WorkerRuns(t)
                \/ WorkerAt(t, "reply", "release")' \/ WorkerAt(t, "reply", "none")'
           /\ WorkerAt(t, "reply", "release") =>
                \/ WorkerAt(t, "reply", "release")' /\ ~WorkerRuns(t)
                \/ WorkerAt(t, "reply", "none")'
           /\ WorkerAt(t, "reply", "none") =>
                \/ WorkerAt(t, "reply", "none")' /\ ~WorkerRuns(t)
                \/ WorkerEnded(t)'
           /\ pc[t] = "done" => pc'[t] = "done"
<1> DEFINE w == stage[<<"worker", t>>]
           v == stage'[<<"worker", t>>]
<1>1. WorkerRuns(t) => ~(pc'[t] = pc[t] /\ v = w)
  BY OwnMoves, ZenonT(60)
<1>2. CASE UNCHANGED <<sessions, pc, out, stage>>
  <2>1. pc'[t] = pc[t] /\ v = w
    BY <1>2
  <2> HIDE DEF w, v
  <2> QED
    BY <1>1, <2>1 DEF WorkerAt, WorkerEnded, w, v
<1>3. CASE [Next]_vars
  BY <1>1, <1>3, WorkerMoves DEF WorkerAt, WorkerEnded
<1> QED
  BY <1>2, <1>3

LEMMA DoneIsOutAt ==
    ASSUME TypeOK, StageInv, NEW t \in Task
    PROVE  pc[t] = "done" =>
               \/ OutAt(t, "run", "none") \/ OutAt(t, "done", "tcp") \/ OutAt(t, "done", "udp")
               \/ OutAt(t, "done", "session") \/ OutAt(t, "done", "release") \/ OutOver(t)
<1> DEFINE w == stage[<<"out", t>>]
<1>1. w \in {"none", "tcp", "udp", "session", "release"} /\ (w # "none" => out[t] = "done")
  BY ActorParts, ZenonT(60) DEF TypeOK, StageInv
<1> HIDE DEF w
<1> QED
  BY <1>1 DEF OutAt, OutOver, w

LEMMA OutSteps ==
    ASSUME TypeOK, StageInv, NEW t \in Task, [Next]_vars \/ UNCHANGED <<sessions, pc, out, stage>>
    PROVE  /\ OutAt(t, "run", "none") =>
                \/ OutAt(t, "run", "none")' /\ ~OutRuns(t)
                \/ OutAt(t, "done", "tcp")'
           /\ OutAt(t, "done", "tcp") =>
                \/ OutAt(t, "done", "tcp")' /\ ~OutRuns(t)
                \/ OutAt(t, "done", "udp")'
           /\ OutAt(t, "done", "udp") =>
                \/ OutAt(t, "done", "udp")' /\ ~OutRuns(t)
                \/ OutAt(t, "done", "session")'
           /\ OutAt(t, "done", "session") =>
                \/ OutAt(t, "done", "session")' /\ ~OutRuns(t)
                \/ OutAt(t, "done", "release")' \/ OutOver(t)'
           /\ OutAt(t, "done", "release") =>
                \/ OutAt(t, "done", "release")' /\ ~OutRuns(t)
                \/ OutOver(t)'
           /\ OutOver(t) => OutOver(t)'
<1> DEFINE w == stage[<<"out", t>>]
           v == stage'[<<"out", t>>]
<1>1. OutRuns(t) => ~(out'[t] = out[t] /\ v = w)
  BY OwnMoves, ZenonT(60)
<1>2. pc[t] = "done" => pc'[t] = "done"
  BY WorkerSteps, ZenonT(60)
<1>3. CASE UNCHANGED <<sessions, pc, out, stage>>
  <2>1. pc'[t] = pc[t] /\ out'[t] = out[t] /\ v = w
    BY <1>3
  <2> QED
    BY <1>1, <2>1 DEF OutAt, OutOver
<1>4. CASE [Next]_vars
  <2>1. pc[t] = "done" => ~(pc[t] \in {"register", "dial"})
    OBVIOUS
  <2> QED
    BY <1>1, <1>2, <1>4, <2>1, OutMoves DEF OutAt, OutOver
<1> QED
  BY <1>3, <1>4

-----------------------------------------------------------------------------
(* The quota. *)

Quota == QuotaExact /\ QuotaWithinLimit

LEMMA AddOne ==
    ASSUME NEW S, IsFiniteSet(S), NEW x, x \notin S
    PROVE  Cardinality(S \cup {x}) = Cardinality(S) + 1
BY FS_AddElement

LEMMA RemoveOne ==
    ASSUME NEW S, IsFiniteSet(S), NEW x \in S
    PROVE  Cardinality(S \ {x}) = Cardinality(S) - 1
BY FS_RemoveElement

LEMMA QuotaFinite ==
    /\ IsFiniteSet(Registered) /\ IsFiniteSet(Releasing) /\ IsFiniteSet(Acquired)
    /\ Cardinality(Registered) \in Nat
    /\ Cardinality(Releasing) \in Nat
    /\ Cardinality(Acquired) \in Nat
<1>1. Registered \subseteq Key /\ Releasing \subseteq Actor /\ Acquired \subseteq Task
  BY DEF Registered, Releasing, Acquired
<1>2. IsFiniteSet(Registered) /\ IsFiniteSet(Releasing) /\ IsFiniteSet(Acquired)
  BY <1>1, KeyFinite, ActorFinite, HubAssumption, FS_Subset
<1> QED
  BY <1>2, FS_CardinalityType

LEMMA QuotaInit == Init => Quota
<1> SUFFICES ASSUME Init PROVE Quota
  OBVIOUS
<1>1. Registered = {} /\ Releasing = {} /\ Acquired = {}
  BY DEF Init, Registered, Releasing, Acquired
<1> QED
  BY <1>1, FS_EmptySet, HubAssumption DEF Quota, QuotaExact, QuotaWithinLimit, Init

(* Steps that acquire, register, drop and release; each moves one unit     *)
(* between the three places that account for it.                           *)
LEMMA QuotaAcquire ==
    ASSUME TypeOK, Quota, NEW t \in Task, Acquire(t)
    PROVE  Quota'
<1>1. Registered' = Registered /\ Releasing' = Releasing
  BY DEF Acquire, Registered, Releasing, maps
<1>2. CASE active >= MaxSessions
  <2>1. active' = active /\ Acquired' = Acquired
    BY <1>2 DEF Acquire, Acquired, TypeOK
  <2> QED
    BY <1>1, <2>1 DEF Quota, QuotaExact, QuotaWithinLimit
<1>3. CASE ~(active >= MaxSessions)
  <2>1. active' = active + 1 /\ active + 1 <= MaxSessions
    BY <1>3, HubAssumption DEF Acquire, TypeOK
  <2>2. t \notin Acquired /\ Acquired' = Acquired \cup {t}
    BY <1>3 DEF Acquire, Acquired, TypeOK
  <2>3. Cardinality(Acquired') = Cardinality(Acquired) + 1
    BY <2>2, QuotaFinite, AddOne
  <2> QED
    BY <1>1, <2>1, <2>3, QuotaFinite DEF Quota, QuotaExact, QuotaWithinLimit
<1> QED
  BY <1>2, <1>3

LEMMA QuotaRegister ==
    ASSUME TypeOK, StageInv, Quota, NEW t \in Task, Register(t)
    PROVE  Quota'
<1> DEFINE k == req[t].key
<1>1. k \in Key /\ <<"worker", t>> \in Actor
  BY ActorParts, ZenonT(60) DEF TypeOK, Request
<1>2. active' = active /\ t \in Acquired /\ Acquired' = Acquired \ {t}
  BY DEF Register, Acquired, TypeOK
<1>3. Cardinality(Acquired') = Cardinality(Acquired) - 1
  BY <1>2, QuotaFinite, RemoveOne
<1>4. CASE sessions[k] # NoTask
  <2>1. Registered' = Registered
    BY <1>4 DEF Register, Registered
  <2>2. stage[<<"worker", t>>] = "none"
    BY ZenonT(60) DEF StageInv, Register
  <2>3. <<"worker", t>> \notin Releasing /\ Releasing' = Releasing \cup {<<"worker", t>>}
    BY <1>1, <1>4, <2>2 DEF Register, Releasing, TypeOK
  <2>4. Cardinality(Releasing') = Cardinality(Releasing) + 1
    BY <2>3, QuotaFinite, AddOne
  <2> QED
    BY <1>2, <1>3, <2>1, <2>4, QuotaFinite DEF Quota, QuotaExact, QuotaWithinLimit
<1>5. CASE sessions[k] = NoTask
  <2>1. Releasing' = Releasing
    BY <1>5 DEF Register, Releasing
  <2>2. k \notin Registered /\ Registered' = Registered \cup {k}
    BY <1>1, <1>5, HubAssumption DEF Register, Registered, TypeOK
  <2>3. Cardinality(Registered') = Cardinality(Registered) + 1
    BY <2>2, QuotaFinite, AddOne
  <2> QED
    BY <1>2, <1>3, <2>1, <2>3, QuotaFinite DEF Quota, QuotaExact, QuotaWithinLimit
<1> QED
  BY <1>4, <1>5

LEMMA QuotaDropSession ==
    ASSUME TypeOK, Quota, NEW a \in Actor, DropSession(a)
    PROVE  Quota'
<1> DEFINE k == Target(a)
<1>1. k \in Key /\ active' = active /\ Acquired' = Acquired
  BY TargetType DEF DropSession, Acquired
<1>2. CASE sessions[k] = NoTask
  <2>1. Registered' = Registered /\ Releasing' = Releasing
    BY <1>1, <1>2 DEF DropSession, Registered, Releasing, TypeOK
  <2> QED
    BY <1>1, <2>1 DEF Quota, QuotaExact, QuotaWithinLimit
<1>3. CASE sessions[k] # NoTask
  <2>1. k \in Registered /\ Registered' = Registered \ {k}
    BY <1>1, <1>3 DEF DropSession, Registered, TypeOK
  <2>2. a \notin Releasing /\ Releasing' = Releasing \cup {a}
    BY <1>1, <1>3 DEF DropSession, Releasing, TypeOK
  <2>3. /\ Cardinality(Registered') = Cardinality(Registered) - 1
        /\ Cardinality(Releasing') = Cardinality(Releasing) + 1
    BY <2>1, <2>2, QuotaFinite, AddOne, RemoveOne
  <2> QED
    BY <1>1, <2>3, QuotaFinite DEF Quota, QuotaExact, QuotaWithinLimit
<1> QED
  BY <1>2, <1>3

LEMMA QuotaRelease ==
    ASSUME TypeOK, Quota, NEW a \in Actor, Release(a)
    PROVE  Quota'
<1>1. Registered' = Registered /\ Acquired' = Acquired
  BY DEF Release, Registered, Acquired, maps
<1>2. a \in Releasing /\ Releasing' = Releasing \ {a}
  BY DEF Release, Releasing, TypeOK
<1>3. Cardinality(Releasing') = Cardinality(Releasing) - 1 /\ Cardinality(Releasing') \in Nat
  <2>1. Cardinality(Releasing') = Cardinality(Releasing) - 1
    BY <1>2, QuotaFinite, RemoveOne
  <2>2. IsFiniteSet(Releasing')
    BY <1>2, QuotaFinite, FS_Subset
  <2> QED
    BY <2>1, <2>2, FS_CardinalityType
<1>4. active' = active - 1
  BY <1>3, QuotaFinite DEF Release, Quota, QuotaExact
<1> QED
  BY <1>1, <1>3, <1>4, QuotaFinite, HubAssumption DEF Quota, QuotaExact, QuotaWithinLimit, TypeOK

(* Every other step leaves the three sets alone: it moves a task between   *)
(* control points other than "register", or begins or continues a drop.    *)
LEMMA QuotaNext == TypeOK /\ StageInv /\ Quota /\ [Next]_vars => Quota'
<1> SUFFICES ASSUME TypeOK, StageInv, Quota, [Next]_vars PROVE Quota'
  OBVIOUS
<1>1. ASSUME active' = active, Registered' = Registered,
             Releasing' = Releasing, Acquired' = Acquired
      PROVE  Quota'
  BY <1>1 DEF Quota, QuotaExact, QuotaWithinLimit
<1>2. ASSUME NEW t \in Task, NEW p,
             pc[t] # "register", p # "register", pc' = [pc EXCEPT ![t] = p]
      PROVE  Acquired' = Acquired
  BY <1>2 DEF Acquired, TypeOK
<1>3. ASSUME NEW a \in Actor, NEW p,
             stage[a] # "release", p # "release", stage' = [stage EXCEPT ![a] = p]
      PROVE  Releasing' = Releasing
  BY <1>3 DEF Releasing, TypeOK
<1>4. /\ UNCHANGED sessions => Registered' = Registered
      /\ UNCHANGED stage => Releasing' = Releasing
      /\ UNCHANGED pc => Acquired' = Acquired
  BY DEF Registered, Releasing, Acquired
<1>5. \A t \in Task : /\ pc[t] # "reply" => stage[<<"worker", t>>] = "none"
                      /\ out[t] # "done" => stage[<<"out", t>>] = "none"
                      /\ inp[t] # "done" => stage[<<"in", t>>] = "none"
  BY ZenonT(60) DEF StageInv
<1> USE ActorParts DEF maps, tokens
<1>6. ASSUME NEW t \in Task, Arrive(t) \/ CheckContains(t) \/ CheckCount(t) PROVE Quota'
  <2>1. CASE Arrive(t)
    <3>1. /\ pc[t] = "new" /\ pc' = [pc EXCEPT ![t] = "contains"]
          /\ active' = active /\ UNCHANGED <<sessions, stage>>
      BY <2>1, ZenonT(60) DEF Arrive
    <3>2. Acquired' = Acquired
      BY <3>1 DEF Acquired, TypeOK
    <3> QED
      BY <3>1, <3>2, <1>1, <1>4
  <2>2. CASE CheckContains(t) \/ CheckCount(t)
    BY <2>2, <1>1, <1>2, <1>4 DEF CheckContains, CheckCount
  <2> QED
    BY <1>6, <2>1, <2>2, ZenonT(60)
<1>7. ASSUME NEW t \in Task, InsertUdpRoute(t) \/ DialOk(t) \/ Reply(t) \/ Abort(t)
      PROVE Quota'
  <2>1. CASE InsertUdpRoute(t) \/ DialOk(t)
    BY <2>1, <1>1, <1>2, <1>4 DEF InsertUdpRoute, DialOk
  <2>2. CASE Reply(t) \/ Abort(t)
    BY <2>2, <1>1, <1>2, <1>4 DEF Reply, Abort
  <2> QED
    BY <1>7, <2>1, <2>2, ZenonT(60)
<1>8. ASSUME NEW t \in Task, DialErr(t) PROVE Quota'
  <2>1. Acquired' = Acquired
    BY <1>8, <1>2, ZenonT(60) DEF DialErr
  <2>2. Releasing' = Releasing
    BY <1>8, <1>3, <1>5, ZenonT(60) DEF DialErr, StartDrop
  <2> QED
    BY <1>8, <2>1, <2>2, <1>1, <1>4 DEF DialErr
<1>9. ASSUME NEW t \in Task, OutEnds(t) \/ WatcherWakes(t) \/ InHalfCloses(t) \/ InAborts(t) PROVE Quota'
  <2>1. Releasing' = Releasing
    BY <1>9, <1>3, <1>4, <1>5, ZenonT(60) DEF OutEnds, WatcherWakes, InHalfCloses, InAborts, StartDrop
  <2> QED
    BY <1>9, <2>1, <1>1, <1>4 DEF OutEnds, WatcherWakes, InHalfCloses, InAborts
<1>10. ASSUME NEW a \in Actor, DropTcpRoute(a) \/ DropUdpRoute(a) PROVE Quota'
  <2>1. Releasing' = Releasing
    BY <1>10, <1>3 DEF DropTcpRoute, DropUdpRoute
  <2> QED
    BY <1>10, <2>1, <1>1, <1>4 DEF DropTcpRoute, DropUdpRoute
<1>11. ASSUME NEW k \in Key, ReadClose(k) \/ ReadDataFails(k) \/ ReapSession(k) PROVE Quota'
  <2>1. PICK a \in Actor : stage[a] = "none" /\ stage' = [stage EXCEPT ![a] = "tcp"]
    BY <1>11 DEF ReadClose, ReadDataFails, ReapSession, StartDrop, ReaderFree, ReaperIdle, Key
  <2>2. Releasing' = Releasing
    BY <2>1, <1>3, ZenonT(60)
  <2> QED
    BY <1>11, <2>2, <1>1, <1>4 DEF ReadClose, ReadDataFails, ReapSession
<1>12. ASSUME ReapTick \/ ReapSweep PROVE Quota'
  BY <1>12, <1>1, <1>4 DEF ReapTick, ReapSweep
<1>13. ASSUME NEW c \in Conn, ReapVisit(c) \/ ReapLeave(c) PROVE Quota'
  BY <1>13, <1>1, <1>4, ZenonT(60) DEF ReapVisit, ReapLeave
<1>14. ASSUME NEW c \in Conn, \/ AcceptMux(c) \/ AcceptWt(c) \/ CancelConn(c) \/ MuxBreaks(c)
                              \/ MuxJoins(c) \/ WtControlEnds(c) \/ WtDies(c)
       PROVE Quota'
  BY <1>14, <1>1, <1>4 DEF AcceptMux, AcceptWt, CancelConn, MuxBreaks, MuxJoins, WtControlEnds, WtDies
<1>15. CASE UNCHANGED vars
  BY <1>15, <1>1, <1>4 DEF vars
<1> QED
  BY <1>6, <1>7, <1>8, <1>9, <1>10, <1>11, <1>12, <1>13, <1>14, <1>15,
     QuotaAcquire, QuotaRegister, QuotaDropSession, QuotaRelease
  DEF Next, Sessions, Accept, Ending, Worker, DropStep, Reaper

(* The quota counter is exact at every instant, whatever the requests, the *)
(* ids they reuse and the order in which pumps, Close frames, the reaper   *)
(* and dying connections tear sessions down.                               *)
THEOREM QuotaIsExact == Spec => []QuotaExact
<1>1. Init => TypeOK /\ StageInv /\ Quota
  BY TypeInit, StageInit, QuotaInit
<1>2. TypeOK /\ StageInv /\ Quota /\ [Next]_vars => (TypeOK /\ StageInv /\ Quota)'
  BY TypeNext, StageNext, QuotaNext
<1>3. Quota => QuotaExact
  BY DEF Quota
<1> QED
  BY <1>1, <1>2, <1>3, PTL DEF Spec

(* The counter never exceeds --max-sessions, and never wraps below zero. *)
THEOREM QuotaIsBounded == Spec => []QuotaWithinLimit
<1>1. Init => TypeOK /\ StageInv /\ Quota
  BY TypeInit, StageInit, QuotaInit
<1>2. TypeOK /\ StageInv /\ Quota /\ [Next]_vars => (TypeOK /\ StageInv /\ Quota)'
  BY TypeNext, StageNext, QuotaNext
<1>3. Quota => QuotaWithinLimit
  BY DEF Quota
<1> QED
  BY <1>1, <1>2, <1>3, PTL DEF Spec

-----------------------------------------------------------------------------
(* Routes and sessions have owners. *)

LEMMA TargetParts ==
    /\ \A t \in Task : /\ Target(<<"worker", t>>) = req[t].key
                       /\ Target(<<"out", t>>) = req[t].key
                       /\ Target(<<"in", t>>) = req[t].key
    /\ \A k \in Key : Target(<<"reader", k>>) = k /\ Target(<<"reaper", k>>) = k
BY DEF Target

RouteInv ==
    \A k \in Key : tcp_routes[k] # NoTask =>
        /\ req[tcp_routes[k]].key = k
        /\ \/ out[tcp_routes[k]] = "run"
           \/ stage[<<"out", tcp_routes[k]>>] = "tcp"

LEMMA RouteInit == Init => RouteInv
BY DEF Init, RouteInv

LEMMA RouteNext == TypeOK /\ StageInv /\ RouteInv /\ [Next]_vars => RouteInv'
<1> SUFFICES ASSUME TypeOK, StageInv, RouteInv, [Next]_vars PROVE RouteInv'
  OBVIOUS
<1>0. /\ DOMAIN out = Task /\ out = [t \in Task |-> out[t]]
      /\ DOMAIN stage = Actor /\ stage = [a \in Actor |-> stage[a]]
      /\ DOMAIN tcp_routes = Key /\ tcp_routes = [k \in Key |-> tcp_routes[k]]
      /\ \A k \in Key : tcp_routes[k] # NoTask => tcp_routes[k] \in Task
      /\ \A t \in Task : req[t].key \in Key
  BY DEF TypeOK, Request
<1> USE <1>0, ActorParts DEF RouteInv, maps, tokens
<1>1. ASSUME UNCHANGED <<req, tcp_routes, out>>,
             \A t \in Task : stage[<<"out", t>>] = "tcp" => stage'[<<"out", t>>] = "tcp"
      PROVE  RouteInv'
  BY <1>1, ZenonT(60)
<1>2. ASSUME NEW t \in Task, Arrive(t) \/ CheckContains(t) \/ CheckCount(t) \/ Acquire(t)
      PROVE  RouteInv'
  BY <1>2, <1>1 DEF Arrive, CheckContains, CheckCount, Acquire
<1>3. ASSUME NEW t \in Task, Register(t) PROVE RouteInv'
  <2>1. CASE /\ UNCHANGED <<req, tcp_routes, out>>
             /\ \/ UNCHANGED stage
                \/ stage' = [stage EXCEPT ![<<"worker", t>>] = "release"]
    <3>1. \A u \in Task : <<"out", u>> # <<"worker", t>>
      OBVIOUS
    <3> QED
      BY <2>1, <3>1, <1>1, ZenonT(60)
  <2>2. CASE UNCHANGED <<req, tcp_routes, stage>> /\ out' = [out EXCEPT ![t] = "run"]
    BY <2>2, ZenonT(60)
  <2> QED
    BY <1>3, <2>1, <2>2 DEF Register
<1>4. ASSUME NEW t \in Task, InsertUdpRoute(t) \/ Reply(t) \/ Abort(t) PROVE RouteInv'
  BY <1>4, <1>1 DEF InsertUdpRoute, Reply, Abort
<1>5. ASSUME NEW t \in Task, DialOk(t) PROVE RouteInv'
  <2>1. CASE /\ UNCHANGED <<req, stage>> /\ out' = [out EXCEPT ![t] = "run"]
             /\ tcp_routes' = [tcp_routes EXCEPT ![req[t].key] = t]
    BY <2>1, ZenonT(60)
  <2>2. CASE UNCHANGED <<req, tcp_routes, stage>> /\ out' = [out EXCEPT ![t] = "run"]
    BY <2>2, ZenonT(60)
  <2> QED
    BY <1>5, <2>1, <2>2, ZenonT(60) DEF DialOk
<1>6. ASSUME NEW t \in Task, DialErr(t) \/ InHalfCloses(t) \/ InAborts(t) PROVE RouteInv'
  BY <1>6, <1>1, ZenonT(60) DEF DialErr, InHalfCloses, InAborts, StartDrop
<1>7. ASSUME NEW t \in Task, OutEnds(t) \/ WatcherWakes(t) PROVE RouteInv'
  <2>1. /\ UNCHANGED <<req, tcp_routes>> /\ out' = [out EXCEPT ![t] = "done"]
        /\ stage' = [stage EXCEPT ![<<"out", t>>] = "tcp"]
    BY <1>7 DEF OutEnds, WatcherWakes, StartDrop
  <2> QED
    BY <2>1, ZenonT(60)
<1>8. ASSUME NEW a \in Actor, DropTcpRoute(a) PROVE RouteInv'
  <2>1. /\ UNCHANGED <<req, out>> /\ stage' = [stage EXCEPT ![a] = "udp"]
        /\ tcp_routes' = [tcp_routes EXCEPT ![Target(a)] = NoTask]
    BY <1>8 DEF DropTcpRoute
  <2>2. SUFFICES ASSUME NEW k \in Key, tcp_routes'[k] # NoTask
                 PROVE  /\ req[tcp_routes'[k]].key = k
                        /\ \/ out[tcp_routes'[k]] = "run"
                           \/ stage'[<<"out", tcp_routes'[k]>>] = "tcp"
    BY <2>1, ZenonT(60)
  <2>3. k # Target(a) /\ tcp_routes'[k] = tcp_routes[k]
    BY <2>1, <2>2
  <2>4. a # <<"out", tcp_routes[k]>>
    <3>1. tcp_routes[k] \in Task /\ req[tcp_routes[k]].key = k
      BY <2>2, <2>3, ZenonT(60)
    <3>2. Target(<<"out", tcp_routes[k]>>) = k
      BY <3>1, TargetParts, Zenon
    <3> QED
      BY <3>2, <2>3, Zenon
  <2> QED
    BY <2>1, <2>2, <2>3, <2>4, ZenonT(60)
<1>9. ASSUME NEW a \in Actor, DropUdpRoute(a) \/ DropSession(a) \/ Release(a) PROVE RouteInv'
  <2>1. /\ UNCHANGED <<req, tcp_routes, out>> /\ stage[a] # "tcp"
        /\ \E p : stage' = [stage EXCEPT ![a] = p]
    BY <1>9 DEF DropUdpRoute, DropSession, Release
  <2>2. \A t \in Task : stage[<<"out", t>>] = "tcp" => stage'[<<"out", t>>] = "tcp"
    BY <2>1
  <2> QED
    BY <1>1, <2>1, <2>2, ZenonT(60)
<1>10. ASSUME NEW k \in Key, ReadClose(k) \/ ReadDataFails(k) \/ ReapSession(k) PROVE RouteInv'
  BY <1>10, <1>1, ZenonT(60) DEF ReadClose, ReadDataFails, ReapSession, StartDrop
<1>11. ASSUME ReapTick \/ ReapSweep PROVE RouteInv'
  BY <1>11, <1>1 DEF ReapTick, ReapSweep
<1>12. ASSUME NEW c \in Conn, ReapVisit(c) \/ ReapLeave(c) PROVE RouteInv'
  BY <1>12, <1>1, ZenonT(60) DEF ReapVisit, ReapLeave
<1>13. ASSUME NEW c \in Conn, \/ AcceptMux(c) \/ AcceptWt(c) \/ CancelConn(c) \/ MuxBreaks(c)
                              \/ MuxJoins(c) \/ WtControlEnds(c) \/ WtDies(c)
       PROVE RouteInv'
  BY <1>13, <1>1 DEF AcceptMux, AcceptWt, CancelConn, MuxBreaks, MuxJoins, WtControlEnds, WtDies
<1>14. CASE UNCHANGED vars
  BY <1>14, <1>1, ZenonT(60) DEF vars
<1> HIDE <1>0, ActorParts DEF RouteInv, maps, tokens
<1> QED
  BY <1>2, <1>3, <1>4, <1>5, <1>6, <1>7, <1>8, <1>9, <1>10, <1>11, <1>12, <1>13, <1>14, ZenonT(60)
  DEF Next, Sessions, Accept, Ending, Worker, DropStep, Reaper

(* No tcp_routes entry outlives the teardown of its session. *)
THEOREM RoutesAreOwned == Spec => []TcpRouteOwned
<1>1. Init => TypeOK /\ StageInv /\ RouteInv
  BY TypeInit, StageInit, RouteInit
<1>2. TypeOK /\ StageInv /\ RouteInv /\ [Next]_vars => (TypeOK /\ StageInv /\ RouteInv)'
  BY TypeNext, StageNext, RouteNext
<1>3. RouteInv => TcpRouteOwned
  BY DEF RouteInv, TcpRouteOwned
<1> QED
  BY <1>1, <1>2, <1>3, PTL DEF Spec

InDrop == {"tcp", "udp", "session"}

(* What a request itself does, or still has to do, with its handle: dial,   *)
(* pump, or tear down; or its worker was aborted and does nothing.         *)
Kept(t) ==
    \/ pc[t] \in {"dial", "aborted"} \/ out[t] = "run"
    \/ stage[<<"worker", t>>] \in InDrop \/ stage[<<"out", t>>] \in InDrop

OwnInv ==
    /\ \A c \in Conn : chan[c] = "aborting" => c \in Mux
    /\ \A t \in Task : pc[t] = "aborted" => ConnOf(t) \in Mux
    /\ \A k \in Key : sessions[k] # NoTask => req[sessions[k]].key = k /\ Kept(sessions[k])

LEMMA OwnInit == Init => OwnInv
BY DEF Init, OwnInv

LEMMA OwnNext == TypeOK /\ StageInv /\ OwnInv /\ [Next]_vars => OwnInv'
<1> SUFFICES ASSUME TypeOK, StageInv, OwnInv, [Next]_vars PROVE OwnInv'
  OBVIOUS
<1> DEFINE AbortInv == \A c \in Conn : chan[c] = "aborting" => c \in Mux
           TaskInv == \A t \in Task : pc[t] = "aborted" => ConnOf(t) \in Mux
           SessInv == \A k \in Key : sessions[k] # NoTask => req[sessions[k]].key = k /\ Kept(sessions[k])
           Own == TaskInv /\ SessInv
<1>a. AbortInv'
  <2>0. AbortInv
    BY ZenonT(60) DEF OwnInv
  <2>1. ASSUME UNCHANGED chan PROVE AbortInv'
    BY <2>0, <2>1, ZenonT(60)
  <2>2. ASSUME NEW c \in Conn, \/ AcceptMux(c) \/ AcceptWt(c) \/ CancelConn(c) \/ MuxBreaks(c)
                               \/ MuxJoins(c) \/ WtControlEnds(c) \/ WtDies(c)
        PROVE AbortInv'
    <3>1. \/ chan' = chan
          \/ \E p \in {"open", "closed", "deaf"} : chan' = [chan EXCEPT ![c] = p]
          \/ c \in Mux /\ chan' = [chan EXCEPT ![c] = "aborting"]
      BY <2>2, ZenonT(60) DEF AcceptMux, AcceptWt, CancelConn, MuxBreaks, MuxJoins, WtControlEnds, WtDies
    <3> QED
      BY <2>0, <3>1 DEF TypeOK
  <2>3. ASSUME NEW t \in Task, Arrive(t) PROVE UNCHANGED chan
    BY <2>3, ZenonT(60) DEF Arrive
  <2>3e. ASSUME NEW t \in Task, OutEnds(t) \/ WatcherWakes(t) \/ InHalfCloses(t) \/ InAborts(t)
         PROVE UNCHANGED chan
    BY <2>3e, ZenonT(60) DEF OutEnds, WatcherWakes, InHalfCloses, InAborts
  <2>3a. ASSUME NEW t \in Task, CheckContains(t) \/ CheckCount(t) \/ Acquire(t) PROVE UNCHANGED chan
    BY <2>3a, ZenonT(60) DEF CheckContains, CheckCount, Acquire
  <2>3b. ASSUME NEW t \in Task, Register(t) PROVE UNCHANGED chan
    BY <2>3b, ZenonT(60) DEF Register
  <2>3c. ASSUME NEW t \in Task, InsertUdpRoute(t) \/ DialOk(t) PROVE UNCHANGED chan
    BY <2>3c, ZenonT(60) DEF InsertUdpRoute, DialOk
  <2>3d. ASSUME NEW t \in Task, DialErr(t) \/ Reply(t) \/ Abort(t) PROVE UNCHANGED chan
    BY <2>3d, ZenonT(60) DEF DialErr, Reply, Abort
  <2>4. ASSUME NEW a \in Actor, DropStep(a) PROVE UNCHANGED chan
    BY <2>4, ZenonT(60) DEF DropStep, DropTcpRoute, DropUdpRoute, DropSession, Release
  <2>5. ASSUME NEW k \in Key, ReadClose(k) \/ ReadDataFails(k) PROVE UNCHANGED chan
    BY <2>5, ZenonT(60) DEF ReadClose, ReadDataFails
  <2>6. ASSUME Reaper PROVE UNCHANGED chan
    BY <2>6, ZenonT(60) DEF Reaper, ReapTick, ReapSweep, ReapVisit, ReapLeave, ReapSession
  <2> QED
    BY <2>1, <2>2, <2>3, <2>3a, <2>3b, <2>3c, <2>3d, <2>3e, <2>4, <2>5, <2>6, ZenonT(60) DEF Next, Sessions, Accept, Ending, Worker, vars
<1>0. /\ DOMAIN out = Task /\ out = [t \in Task |-> out[t]]
      /\ DOMAIN pc = Task /\ pc = [t \in Task |-> pc[t]]
      /\ DOMAIN stage = Actor /\ stage = [a \in Actor |-> stage[a]]
      /\ DOMAIN sessions = Key /\ sessions = [k \in Key |-> sessions[k]]
      /\ \A k \in Key : sessions[k] # NoTask => sessions[k] \in Task
      /\ \A t \in Task : req[t].key \in Key /\ ConnOf(t) \in Conn
  BY DEF TypeOK, Request, Key, ConnOf
<1>i. TaskInv /\ SessInv
  BY DEF OwnInv
\* Nobody who keeps a handle stops doing so while the handle is there.
<1>b. ASSUME UNCHANGED <<req, sessions>>,
             \A t \in Task : Kept(t) => Kept(t)',
             \A t \in Task : pc'[t] = "aborted" => pc[t] = "aborted" \/ ConnOf(t) \in Mux
      PROVE  Own'
  BY <1>0, <1>b, <1>i DEF ConnOf
<1>c. ASSUME UNCHANGED <<req, sessions, pc>>,
             \A t \in Task : out[t] = "run" => out'[t] = "run",
             \A a \in Actor : stage[a] \in InDrop => stage'[a] \in InDrop
      PROVE  Own'
  <2>1. \A t \in Task : Kept(t) => Kept(t)'
    BY <1>c, ActorParts, ZenonT(60) DEF Kept
  <2> QED
    BY <1>c, <2>1, <1>b
<1> HIDE DEF AbortInv, TaskInv, SessInv, Own
<1> USE ActorParts DEF maps, tokens
<1>1. ASSUME NEW t \in Task, \/ Arrive(t) \/ CheckContains(t) \/ CheckCount(t) \/ Acquire(t)
                              \/ InsertUdpRoute(t) \/ Reply(t)
      PROVE  Own'
  <2>1. /\ UNCHANGED <<req, sessions, out, stage>> /\ pc[t] \notin {"dial", "aborted"}
        /\ \E p : pc' = [pc EXCEPT ![t] = p] /\ p # "aborted"
    BY <1>1 DEF Arrive, CheckContains, CheckCount, Acquire, InsertUdpRoute, Reply
  <2>2. /\ \A u \in Task : pc[u] \in {"dial", "aborted"} => pc'[u] = pc[u]
        /\ \A u \in Task : pc'[u] = "aborted" => pc[u] = "aborted"
    BY <2>1, <1>0
  <2>3. \A u \in Task : Kept(u) => Kept(u)'
    BY <2>1, <2>2 DEF Kept
  <2> QED
    BY <2>1, <2>2, <2>3, <1>b, ZenonT(60)
<1>2. ASSUME NEW t \in Task, Register(t) PROVE Own'
  <2>1. pc[t] = "register" /\ stage[<<"worker", t>>] = "none"
    BY <1>2, ZenonT(60) DEF Register, StageInv
  <2>2. CASE sessions[req[t].key] # NoTask
    <3>1. /\ UNCHANGED <<req, sessions, out>> /\ pc' = [pc EXCEPT ![t] = "reply"]
          /\ stage' = [stage EXCEPT ![<<"worker", t>>] = "release"]
      BY <1>2, <2>2 DEF Register
    <3>2. /\ \A u \in Task : pc[u] \in {"dial", "aborted"} => pc'[u] = pc[u]
          /\ \A u \in Task : pc'[u] = "aborted" => pc[u] = "aborted"
          /\ \A a \in Actor : stage[a] \in InDrop => stage'[a] \in InDrop
      BY <3>1, <2>1, <1>0 DEF InDrop
    <3>3. \A u \in Task : Kept(u) => Kept(u)'
      BY <3>1, <3>2, ZenonT(60) DEF Kept
    <3> QED
      BY <3>1, <3>2, <3>3, <1>b
  <2>3. CASE sessions[req[t].key] = NoTask
    <3>1. /\ UNCHANGED <<req, stage>> /\ sessions' = [sessions EXCEPT ![req[t].key] = t]
          /\ \/ pc' = [pc EXCEPT ![t] = "route"] /\ out' = [out EXCEPT ![t] = "run"]
             \/ pc' = [pc EXCEPT ![t] = "dial"] /\ UNCHANGED out
      BY <1>2, <2>3 DEF Register
    <3>2. /\ \A u \in Task : pc[u] \in {"dial", "aborted"} => pc'[u] = pc[u]
          /\ \A u \in Task : pc'[u] = "aborted" => pc[u] = "aborted"
          /\ \A u \in Task : out[u] = "run" => out'[u] = "run"
          /\ pc'[t] = "dial" \/ out'[t] = "run"
      BY <3>1, <2>1, <1>0
    <3>3. Kept(t)' /\ \A u \in Task : Kept(u) => Kept(u)'
      BY <3>1, <3>2 DEF Kept
    <3>4. \A k \in Key : sessions'[k] = IF k = req[t].key THEN t ELSE sessions[k]
      BY <1>0, <3>1
    <3>5. SessInv'
      BY <1>0, <1>i, <3>1, <3>3, <3>4 DEF SessInv
    <3>6. TaskInv'
      BY <1>i, <3>1, <3>2 DEF TaskInv, ConnOf
    <3> QED
      BY <3>5, <3>6 DEF Own
  <2> QED
    BY <2>2, <2>3
<1>3. ASSUME NEW t \in Task, DialOk(t) \/ DialErr(t) \/ OutEnds(t) \/ WatcherWakes(t) PROVE Own'
  <2>1. /\ UNCHANGED <<req, sessions>>
        /\ UNCHANGED pc \/ (pc[t] = "dial" /\ pc' = [pc EXCEPT ![t] = "reply"])
        /\ \/ out' = [out EXCEPT ![t] = "run"] /\ UNCHANGED stage
           \/ UNCHANGED out /\ stage' = [stage EXCEPT ![<<"worker", t>>] = "tcp"]
           \/ out' = [out EXCEPT ![t] = "done"] /\ stage' = [stage EXCEPT ![<<"out", t>>] = "tcp"]
    BY <1>3, ZenonT(60) DEF DialOk, DialErr, OutEnds, WatcherWakes, StartDrop
  <2>2. /\ \A u \in Task \ {t} : pc'[u] = pc[u] /\ out'[u] = out[u]
        /\ \A u \in Task : pc'[u] = "aborted" => pc[u] = "aborted"
    BY <2>1, <1>0
  <2>2a. <<"worker", t>> \in Actor /\ <<"out", t>> \in Actor
    BY ActorParts, ZenonT(60)
  <2>2b. /\ \A a \in Actor : stage[a] \in InDrop => stage'[a] \in InDrop
         /\ out'[t] = "run" \/ stage'[<<"worker", t>>] \in InDrop \/ stage'[<<"out", t>>] \in InDrop
    BY <2>1, <2>2a, <1>0 DEF InDrop
  <2>3. \A u \in Task : Kept(u) => Kept(u)'
    BY <2>2, <2>2b, ActorParts, ZenonT(60) DEF Kept
  <2> QED
    BY <2>1, <2>2, <2>3, <1>b
<1>4. ASSUME NEW t \in Task, Abort(t) PROVE Own'
  <2>1. /\ UNCHANGED <<req, sessions, out, stage>> /\ pc' = [pc EXCEPT ![t] = "aborted"]
        /\ ConnOf(t) \in Mux
    BY <1>4, <1>0 DEF Abort, OwnInv
  <2>2. \A u \in Task : pc'[u] = IF u = t THEN "aborted" ELSE pc[u]
    BY <2>1, <1>0
  <2>3. \A u \in Task : Kept(u) => Kept(u)'
    BY <2>1, <2>2 DEF Kept
  <2> QED
    BY <2>1, <2>2, <2>3, <1>b
<1>5. ASSUME NEW t \in Task, InHalfCloses(t) \/ InAborts(t) PROVE Own'
  <2>1. \A a \in Actor : stage[a] \in InDrop => stage'[a] \in InDrop
    BY <1>5, <1>0 DEF InHalfCloses, InAborts, StartDrop, InDrop
  <2> QED
    BY <1>5, <2>1, <1>c, ZenonT(60) DEF InHalfCloses, InAborts
<1>6. ASSUME NEW a \in Actor, DropTcpRoute(a) \/ DropUdpRoute(a) \/ Release(a) PROVE Own'
  <2>1. \A b \in Actor : stage[b] \in InDrop => stage'[b] \in InDrop
    BY <1>6, <1>0 DEF DropTcpRoute, DropUdpRoute, Release, InDrop
  <2> QED
    BY <1>6, <2>1, <1>c DEF DropTcpRoute, DropUdpRoute, Release
<1>7. ASSUME NEW a \in Actor, DropSession(a) PROVE Own'
  <2>1. /\ UNCHANGED <<req, pc, out>> /\ sessions' = [sessions EXCEPT ![Target(a)] = NoTask]
        /\ \E p : stage' = [stage EXCEPT ![a] = p]
    BY <1>7, ZenonT(60) DEF DropSession
  <2>2. \A b \in Actor : b # a => stage'[b] = stage[b]
    BY <1>0, <2>1
  <2>3. ASSUME NEW k \in Key, NEW t \in Task, sessions[k] = t, k # Target(a)
        PROVE  req'[t].key = k /\ Kept(t)'
    <3>1. req[t].key = k /\ Kept(t)
      BY <1>0, <1>i, <2>3, HubAssumption DEF SessInv
    <3>2. a # <<"worker", t>> /\ a # <<"out", t>>
      BY <2>3, <3>1, TargetParts, ZenonT(60)
    <3>3. /\ stage'[<<"worker", t>>] = stage[<<"worker", t>>]
          /\ stage'[<<"out", t>>] = stage[<<"out", t>>]
      BY <2>2, <3>2, ActorParts, ZenonT(60)
    <3> QED
      BY <2>1, <3>1, <3>3, ZenonT(60) DEF Kept
  <2>3a. \A k \in Key : sessions'[k] # NoTask =>
            sessions'[k] \in Task /\ sessions'[k] = sessions[k] /\ k # Target(a)
    BY <1>0, <2>1
  <2>4. SessInv'
    BY <2>3, <2>3a DEF SessInv
  <2>5. TaskInv'
    BY <1>i, <2>1 DEF TaskInv, ConnOf
  <2> QED
    BY <2>4, <2>5 DEF Own
<1>8. ASSUME NEW k \in Key, ReadClose(k) \/ ReadDataFails(k) \/ ReapSession(k) PROVE Own'
  <2>1. \A b \in Actor : stage[b] \in InDrop => stage'[b] \in InDrop
    BY <1>8, <1>0 DEF ReadClose, ReadDataFails, ReapSession, StartDrop, InDrop
  <2> QED
    BY <1>8, <2>1, <1>c DEF ReadClose, ReadDataFails, ReapSession
<1>9. ASSUME ReapTick \/ ReapSweep PROVE Own'
  BY <1>9, <1>c DEF ReapTick, ReapSweep
<1>10. ASSUME NEW c \in Conn, ReapVisit(c) \/ ReapLeave(c) PROVE Own'
  BY <1>10, <1>c, ZenonT(60) DEF ReapVisit, ReapLeave
<1>11. ASSUME NEW c \in Conn, \/ AcceptMux(c) \/ AcceptWt(c) \/ CancelConn(c) \/ MuxBreaks(c)
                              \/ MuxJoins(c) \/ WtControlEnds(c) \/ WtDies(c)
       PROVE Own'
  BY <1>11, <1>c, ZenonT(60) DEF AcceptMux, AcceptWt, CancelConn, MuxBreaks, MuxJoins, WtControlEnds, WtDies
<1>12. ASSUME UNCHANGED vars PROVE Own'
  BY <1>12, <1>c, ZenonT(60) DEF vars
<1>13. Own'
  BY <1>1, <1>2, <1>3, <1>4, <1>5, <1>6, <1>7, <1>8, <1>9, <1>10, <1>11, <1>12
  DEF Next, Sessions, Accept, Ending, Worker, DropStep, Reaper
<1> USE DEF AbortInv, TaskInv, SessInv, Own
<1> QED
  BY <1>a, <1>13 DEF OwnInv

(* On every path a registered session has somebody to tear it down, unless *)
(* the worker of its request was aborted: the abort of mode-A workers      *)
(* while they dial is the only way the server strands a session.           *)
OrphansWereAborted ==
    \A k \in Key : sessions[k] # NoTask => Owned(k) \/ pc[sessions[k]] = "aborted"

LEMMA OwnersAreKnown ==
    ASSUME TypeOK, OwnInv
    PROVE  OrphansWereAborted /\ WtSessionOwned
<1>1. ASSUME NEW k \in Key, sessions[k] # NoTask
      PROVE  Owned(k) \/ (pc[sessions[k]] = "aborted" /\ k[1] \in Mux)
  <2>1. sessions[k] \in Task /\ req[sessions[k]].key = k /\ Kept(sessions[k])
    BY <1>1 DEF TypeOK, OwnInv
  <2>2. /\ Target(<<"worker", sessions[k]>>) = k /\ Target(<<"out", sessions[k]>>) = k
        /\ <<"worker", sessions[k]>> \in Actor /\ <<"out", sessions[k]>> \in Actor
    BY <2>1, TargetParts, ActorParts, ZenonT(60)
  <2>3. pc[sessions[k]] = "aborted" => k[1] \in Mux
    BY <2>1 DEF OwnInv, ConnOf
  <2> QED
    BY <2>1, <2>2, <2>3 DEF Kept, Owned, InDrop
<1> QED
  BY <1>1 DEF OrphansWereAborted, WtSessionOwned

(* No session of any connection is stranded but by an abort. *)
THEOREM OnlyAbortsStrand == Spec => []OrphansWereAborted
<1>1. Init => TypeOK /\ StageInv /\ OwnInv
  BY TypeInit, StageInit, OwnInit
<1>2. TypeOK /\ StageInv /\ OwnInv /\ [Next]_vars => (TypeOK /\ StageInv /\ OwnInv)'
  BY TypeNext, StageNext, OwnNext
<1> QED
  BY <1>1, <1>2, OwnersAreKnown, PTL DEF Spec

(* No session of a WebTransport connection is ever stranded. *)
THEOREM WtSessionsAreOwned == Spec => []WtSessionOwned
<1>1. Init => TypeOK /\ StageInv /\ OwnInv
  BY TypeInit, StageInit, OwnInit
<1>2. TypeOK /\ StageInv /\ OwnInv /\ [Next]_vars => (TypeOK /\ StageInv /\ OwnInv)'
  BY TypeNext, StageNext, OwnNext
<1> QED
  BY <1>1, <1>2, OwnersAreKnown, PTL DEF Spec

-----------------------------------------------------------------------------
(* The per-connection limit on the mode-A path. *)

RunningOn(c) == {t \in Task : ConnOf(t) = c /\ Running(t)}
PastCheck(c) == {t \in Task : ConnOf(t) = c /\ pc[t] \in {"acquire", "register"}}

CountInv ==
    \A c \in Mux :
        /\ Cardinality(RunningOn(c)) <= Permits
        /\ session_count(c) + Cardinality(PastCheck(c)) <= MaxPerConn - 1 + Permits

LEMMA CountFinite ==
    ASSUME NEW c
    PROVE  /\ IsFiniteSet(RunningOn(c)) /\ Cardinality(RunningOn(c)) \in Nat
           /\ IsFiniteSet(PastCheck(c)) /\ Cardinality(PastCheck(c)) \in Nat
           /\ IsFiniteSet(SessionsOf(c)) /\ Cardinality(SessionsOf(c)) \in Nat
<1>1. RunningOn(c) \subseteq Task /\ PastCheck(c) \subseteq Task /\ SessionsOf(c) \subseteq Sid
  BY DEF RunningOn, PastCheck, SessionsOf
<1>2. IsFiniteSet(RunningOn(c)) /\ IsFiniteSet(PastCheck(c)) /\ IsFiniteSet(SessionsOf(c))
  BY <1>1, HubAssumption, FS_Subset
<1> QED
  BY <1>2, FS_CardinalityType

LEMMA Smaller ==
    ASSUME NEW S, IsFiniteSet(S), NEW T, T \subseteq S
    PROVE  /\ IsFiniteSet(T) /\ Cardinality(T) \in Nat /\ Cardinality(S) \in Nat
           /\ Cardinality(T) <= Cardinality(S)
BY FS_Subset, FS_CardinalityType

LEMMA CountInit == Init => CountInv
<1> SUFFICES ASSUME Init, NEW c \in Mux
             PROVE  /\ Cardinality(RunningOn(c)) <= Permits
                    /\ session_count(c) + Cardinality(PastCheck(c)) <= MaxPerConn - 1 + Permits
  BY DEF CountInv
<1>1. RunningOn(c) = {} /\ PastCheck(c) = {} /\ SessionsOf(c) = {}
  BY HubAssumption DEF Init, RunningOn, PastCheck, SessionsOf, Running, Key
<1> QED
  BY <1>1, FS_EmptySet, HubAssumption DEF session_count

LEMMA CountNext == TypeOK /\ CountInv /\ [Next]_vars => CountInv'
<1> SUFFICES ASSUME TypeOK, CountInv, [Next]_vars PROVE CountInv'
  OBVIOUS
<1>0. /\ DOMAIN pc = Task /\ pc = [t \in Task |-> pc[t]]
      /\ DOMAIN sessions = Key /\ sessions = [k \in Key |-> sessions[k]]
      /\ \A t \in Task : req[t].key \in Key
  BY DEF TypeOK, Request
\* A step that starts no task, passes no check and registers nothing.
<1>1. ASSUME UNCHANGED req,
             \A t \in Task : Running(t)' => Running(t),
             \A t \in Task : pc'[t] \in {"acquire", "register"} => pc[t] \in {"acquire", "register"},
             \A k \in Key : sessions'[k] # NoTask => sessions[k] # NoTask
      PROVE  CountInv'
  <2>1. SUFFICES ASSUME NEW c \in Mux
                 PROVE  /\ Cardinality(RunningOn(c)') <= Permits
                        /\ Cardinality(SessionsOf(c)') + Cardinality(PastCheck(c)')
                             <= MaxPerConn - 1 + Permits
    BY DEF CountInv, session_count
  <2>2. /\ RunningOn(c)' \subseteq RunningOn(c)
        /\ PastCheck(c)' \subseteq PastCheck(c)
        /\ SessionsOf(c)' \subseteq SessionsOf(c)
    BY <1>1, <2>1, HubAssumption DEF RunningOn, PastCheck, SessionsOf, ConnOf, Key
  <2>3. /\ Cardinality(RunningOn(c)') \in Nat
        /\ Cardinality(RunningOn(c)') <= Cardinality(RunningOn(c))
        /\ Cardinality(PastCheck(c)') \in Nat
        /\ Cardinality(PastCheck(c)') <= Cardinality(PastCheck(c))
        /\ Cardinality(SessionsOf(c)') \in Nat
        /\ Cardinality(SessionsOf(c)') <= Cardinality(SessionsOf(c))
    BY <2>2, CountFinite, Smaller
  <2> QED
    BY <2>3, CountFinite, HubAssumption DEF CountInv, session_count
<1>2. ASSUME UNCHANGED <<req, pc>>,
             \A k \in Key : sessions'[k] # NoTask => sessions[k] # NoTask
      PROVE  CountInv'
  BY <1>2, <1>1 DEF Running
<1> USE DEF maps, tokens
<1>3. ASSUME NEW t \in Task, Arrive(t) PROVE CountInv'
  <2>1. /\ UNCHANGED <<req, sessions>> /\ pc[t] = "new" /\ pc' = [pc EXCEPT ![t] = "contains"]
        /\ ConnOf(t) \in Mux => Cardinality(RunningOn(ConnOf(t))) < Permits
    BY <1>3 DEF Arrive, RunningOn
  <2>2. SUFFICES ASSUME NEW c \in Mux
                 PROVE  /\ Cardinality(RunningOn(c)') <= Permits
                        /\ Cardinality(SessionsOf(c)') + Cardinality(PastCheck(c)')
                             <= MaxPerConn - 1 + Permits
    BY DEF CountInv, session_count
  <2>3. PastCheck(c)' = PastCheck(c) /\ SessionsOf(c)' = SessionsOf(c)
    BY <1>0, <2>1 DEF PastCheck, SessionsOf, ConnOf
  <2>4. CASE c = ConnOf(t)
    <3>1. t \notin RunningOn(c) /\ RunningOn(c)' = RunningOn(c) \cup {t}
      BY <1>0, <2>1, <2>4 DEF RunningOn, ConnOf, Running
    <3>2. Cardinality(RunningOn(c)') = Cardinality(RunningOn(c)) + 1
      BY <3>1, CountFinite, AddOne
    <3> QED
      BY <2>1, <2>2, <2>3, <2>4, <3>2, CountFinite, HubAssumption DEF CountInv, session_count
  <2>5. CASE c # ConnOf(t)
    <3>1. RunningOn(c)' = RunningOn(c)
      BY <1>0, <2>1, <2>5 DEF RunningOn, ConnOf, Running
    <3> QED
      BY <2>2, <2>3, <3>1 DEF CountInv, session_count
  <2> QED
    BY <2>4, <2>5
<1>4. ASSUME NEW t \in Task, CheckCount(t) PROVE CountInv'
  <2>1. UNCHANGED <<req, sessions>> /\ pc[t] = "count"
    BY <1>4 DEF CheckCount
  <2>2. CASE session_count(ConnOf(t)) >= MaxPerConn
    <3>1. pc' = [pc EXCEPT ![t] = "reply"]
      BY <1>4, <2>2 DEF CheckCount
    <3>2. /\ \A u \in Task : Running(u)' => Running(u)
          /\ \A u \in Task : pc'[u] \in {"acquire", "register"} => pc[u] \in {"acquire", "register"}
      BY <1>0, <2>1, <3>1 DEF Running
    <3> QED
      BY <1>1, <2>1, <3>2
  <2>3. CASE ~(session_count(ConnOf(t)) >= MaxPerConn)
    <3>1. pc' = [pc EXCEPT ![t] = "acquire"]
      BY <1>4, <2>3 DEF CheckCount
    <3>2. SUFFICES ASSUME NEW c \in Mux
                   PROVE  /\ Cardinality(RunningOn(c)') <= Permits
                          /\ Cardinality(SessionsOf(c)') + Cardinality(PastCheck(c)')
                               <= MaxPerConn - 1 + Permits
      BY DEF CountInv, session_count
    <3>3. RunningOn(c)' = RunningOn(c) /\ SessionsOf(c)' = SessionsOf(c)
      BY <1>0, <2>1, <3>1 DEF RunningOn, Running, ConnOf, SessionsOf
    <3>4. CASE c = ConnOf(t)
      <4>1. PastCheck(c)' \subseteq RunningOn(c)'
        BY DEF PastCheck, RunningOn, Running
      <4>2. /\ Cardinality(PastCheck(c)') \in Nat
            /\ Cardinality(PastCheck(c)') <= Cardinality(RunningOn(c))
        BY <4>1, <3>3, CountFinite, Smaller
      <4> QED
        BY <2>3, <3>2, <3>3, <3>4, <4>2, CountFinite, HubAssumption DEF CountInv, session_count
    <3>5. CASE c # ConnOf(t)
      <4>1. PastCheck(c)' = PastCheck(c)
        BY <1>0, <2>1, <3>1, <3>5 DEF PastCheck, ConnOf
      <4> QED
        BY <3>2, <3>3, <4>1 DEF CountInv, session_count
    <3> QED
      BY <3>4, <3>5
  <2> QED
    BY <2>2, <2>3
<1>5. ASSUME NEW t \in Task, Register(t) PROVE CountInv'
  <2> DEFINE k == req[t].key
  <2>0. k \in Key
    BY <1>0
  <2>1. /\ UNCHANGED req /\ pc[t] = "register"
        /\ \E p \in {"reply", "route", "dial"} : pc' = [pc EXCEPT ![t] = p]
    BY <1>5 DEF Register
  <2>2. CASE sessions[k] # NoTask
    <3>1. /\ UNCHANGED sessions
          /\ \A u \in Task : Running(u)' => Running(u)
          /\ \A u \in Task : pc'[u] \in {"acquire", "register"} => pc[u] \in {"acquire", "register"}
      BY <1>0, <1>5, <2>1, <2>2 DEF Running, Register
    <3> QED
      BY <1>1, <2>1, <3>1
  <2>3. CASE sessions[k] = NoTask
    <3>1. sessions' = [sessions EXCEPT ![k] = t]
      BY <1>5, <2>3 DEF Register
    <3>2. SUFFICES ASSUME NEW c \in Mux
                   PROVE  /\ Cardinality(RunningOn(c)') <= Permits
                          /\ Cardinality(SessionsOf(c)') + Cardinality(PastCheck(c)')
                               <= MaxPerConn - 1 + Permits
      BY DEF CountInv, session_count
    <3>3. RunningOn(c)' = RunningOn(c)
      BY <1>0, <2>1 DEF RunningOn, Running, ConnOf
    <3>4. CASE c = ConnOf(t)
      <4>1. t \in PastCheck(c) /\ PastCheck(c)' = PastCheck(c) \ {t}
        BY <1>0, <2>1, <3>4 DEF PastCheck, ConnOf
      <4>2. PICK x \in Sid : k = <<c, x>>
        BY <2>0, <3>4 DEF ConnOf, Key
      <4>3. x \notin SessionsOf(c) /\ SessionsOf(c)' = SessionsOf(c) \cup {x}
        BY <1>0, <2>0, <2>3, <3>1, <3>2, <4>2, HubAssumption DEF SessionsOf, Key
      <4>4. /\ Cardinality(PastCheck(c)') = Cardinality(PastCheck(c)) - 1
            /\ Cardinality(SessionsOf(c)') = Cardinality(SessionsOf(c)) + 1
        BY <4>1, <4>3, CountFinite, AddOne, RemoveOne
      <4> QED
        BY <3>2, <3>3, <4>4, CountFinite, HubAssumption DEF CountInv, session_count
    <3>5. CASE c # ConnOf(t)
      <4>1. PastCheck(c)' = PastCheck(c)
        BY <1>0, <2>1, <3>5 DEF PastCheck, ConnOf
      <4>2. SessionsOf(c)' = SessionsOf(c)
        BY <1>0, <2>0, <3>1, <3>5, HubAssumption DEF SessionsOf, ConnOf, Key
      <4> QED
        BY <3>2, <3>3, <4>1, <4>2 DEF CountInv, session_count
    <3> QED
      BY <3>4, <3>5
  <2> QED
    BY <2>2, <2>3
<1>6. ASSUME NEW t \in Task, CheckContains(t) \/ Acquire(t) PROVE CountInv'
  <2>1. /\ UNCHANGED <<req, sessions>>
        /\ \/ pc[t] = "contains" /\ \E p \in {"reply", "count"} : pc' = [pc EXCEPT ![t] = p]
           \/ pc[t] = "acquire" /\ \E p \in {"reply", "register"} : pc' = [pc EXCEPT ![t] = p]
    BY <1>6 DEF CheckContains, Acquire
  <2>2. /\ \A u \in Task : Running(u)' => Running(u)
        /\ \A u \in Task : pc'[u] \in {"acquire", "register"} => pc[u] \in {"acquire", "register"}
    BY <1>0, <2>1 DEF Running
  <2> QED
    BY <1>1, <2>1, <2>2
<1>7. ASSUME NEW t \in Task,
             InsertUdpRoute(t) \/ DialOk(t) \/ DialErr(t) \/ Reply(t) \/ Abort(t)
      PROVE  CountInv'
  <2>1. /\ UNCHANGED <<req, sessions>> /\ Running(t)
        /\ \E p \in {"reply", "done", "aborted"} : pc' = [pc EXCEPT ![t] = p]
    BY <1>7 DEF InsertUdpRoute, DialOk, DialErr, Reply, Abort, Running
  <2>2. /\ \A u \in Task : Running(u)' => Running(u)
        /\ \A u \in Task : pc'[u] \in {"acquire", "register"} => pc[u] \in {"acquire", "register"}
    BY <1>0, <2>1 DEF Running
  <2> QED
    BY <1>1, <2>1, <2>2
<1>8. ASSUME NEW t \in Task, OutEnds(t) \/ WatcherWakes(t) \/ InHalfCloses(t) \/ InAborts(t) PROVE CountInv'
  BY <1>8, <1>2, ZenonT(60) DEF OutEnds, WatcherWakes, InHalfCloses, InAborts
<1>9. ASSUME NEW a \in Actor, DropStep(a) PROVE CountInv'
  <2>1. UNCHANGED <<req, pc>>
    BY <1>9 DEF DropStep, DropTcpRoute, DropUdpRoute, DropSession, Release
  <2>2. UNCHANGED sessions \/ sessions' = [sessions EXCEPT ![Target(a)] = NoTask]
    BY <1>9 DEF DropStep, DropTcpRoute, DropUdpRoute, DropSession, Release
  <2> QED
    BY <1>0, <2>1, <2>2, <1>2
<1>10. ASSUME NEW k \in Key, ReadClose(k) \/ ReadDataFails(k) PROVE CountInv'
  BY <1>10, <1>2 DEF ReadClose, ReadDataFails
<1>11. ASSUME Reaper PROVE CountInv'
  <2>1. UNCHANGED <<req, pc, sessions>>
    BY <1>11, ZenonT(60) DEF Reaper, ReapTick, ReapSweep, ReapVisit, ReapLeave, ReapSession
  <2> QED
    BY <2>1, <1>2
<1>12. ASSUME NEW c \in Conn, \/ AcceptMux(c) \/ AcceptWt(c) \/ CancelConn(c) \/ MuxBreaks(c)
                              \/ MuxJoins(c) \/ WtControlEnds(c) \/ WtDies(c)
       PROVE CountInv'
  BY <1>12, <1>2 DEF AcceptMux, AcceptWt, CancelConn, MuxBreaks, MuxJoins, WtControlEnds, WtDies
<1>13. CASE UNCHANGED vars
  BY <1>13, <1>2 DEF vars
<1> QED
  BY <1>3, <1>4, <1>5, <1>6, <1>7, <1>8, <1>9, <1>10, <1>11, <1>12, <1>13, ZenonT(60)
     DEF Next, Sessions, Accept, Ending, Worker

(* A mode-A connection exceeds max_per_conn by at most the number of       *)
(* workers that can be past the check at once, less one.                   *)
THEOREM OvershootIsBounded == Spec => []PerConnBound
<1>1. Init => TypeOK /\ CountInv
  BY TypeInit, CountInit
<1>2. TypeOK /\ CountInv /\ [Next]_vars => (TypeOK /\ CountInv)'
  BY TypeNext, CountNext
<1>3. CountInv => PerConnBound
  BY CountFinite, HubAssumption DEF CountInv, PerConnBound, session_count
<1> QED
  BY <1>1, <1>2, <1>3, PTL DEF Spec

-----------------------------------------------------------------------------
(* Shutting down. Its steps touch the engine in the table of connections   *)
(* and in their tokens only.                                               *)

HubInv == TypeOK /\ StageInv /\ Quota /\ RouteInv /\ OwnInv /\ CountInv

(* A connection is in the table or cancelled from its acceptance on, and   *)
(* one whose driver has ended, or is ending, is cancelled.                 *)
ChanInv ==
    \A c \in Conn :
        /\ c \in conns => chan[c] # "absent"
        /\ chan[c] = "open" => c \in conns \cup cancelled
        /\ chan[c] \in {"deaf", "aborting", "closed"} => c \in cancelled

ShutdownInv ==
    /\ HubInv /\ ChanInv
    /\ visit \subseteq Conn /\ collected \subseteq Conn

LEMMA HubInitially == Init => HubInv
BY TypeInit, StageInit, QuotaInit, RouteInit, OwnInit, CountInit DEF HubInv

LEMMA HubInductive == HubInv /\ [Next]_vars => HubInv'
BY TypeNext, StageNext, QuotaNext, RouteNext, OwnNext, CountNext DEF HubInv

(* What is left of the engine when the table and the tokens change. *)
LEMMA TableApart ==
    ASSUME HubInv, conns' \subseteq Conn, cancelled' \subseteq Conn,
           UNCHANGED <<active, chan, maps, cut, relayCut, req, pc, out, inp, stage, reap>>
    PROVE  HubInv'
<1>0. UNCHANGED <<active, chan, sessions, tcp_routes, udp_routes, cut, relayCut,
                  req, pc, out, inp, stage, reap>>
  BY DEF maps
<1>1. TypeOK'
  BY <1>0 DEF HubInv, TypeOK
<1>2. StageInv'
  BY <1>0, ZenonT(60) DEF HubInv, StageInv
<1>3. Quota'
  BY <1>0 DEF HubInv, Quota, QuotaExact, QuotaWithinLimit, Registered, Releasing, Acquired
<1>4. RouteInv'
  BY <1>0 DEF HubInv, RouteInv
<1>5. OwnInv'
  BY <1>0 DEF HubInv, OwnInv, Kept, ConnOf
<1>6. CountInv'
  <2>1. ASSUME NEW c \in Mux
        PROVE  /\ RunningOn(c)' = RunningOn(c) /\ PastCheck(c)' = PastCheck(c)
               /\ SessionsOf(c)' = SessionsOf(c)
    BY <1>0 DEF RunningOn, PastCheck, Running, ConnOf, SessionsOf
  <2> QED
    BY <2>1 DEF HubInv, CountInv, session_count
<1> QED
  BY <1>1, <1>2, <1>3, <1>4, <1>5, <1>6 DEF HubInv

LEMMA ChanNext == TypeOK /\ ChanInv /\ [Next]_vars => ChanInv'
<1> SUFFICES ASSUME TypeOK, ChanInv, [Next]_vars PROVE ChanInv'
  OBVIOUS
<1>0. chan \in [Conn -> {"absent", "open", "deaf", "aborting", "closed"}]
  BY DEF TypeOK
<1>1. ASSUME UNCHANGED <<conns, chan>>, cancelled \subseteq cancelled' PROVE ChanInv'
  BY <1>1 DEF ChanInv
<1>2. CASE Sessions
  BY <1>1, <1>2, SessionsStay
<1>3. CASE Reaper
  BY <1>3, ReaperCancels DEF ChanInv
<1>4. ASSUME NEW c \in Conn, AcceptMux(c) \/ AcceptWt(c) PROVE ChanInv'
  BY <1>0, <1>4 DEF AcceptMux, AcceptWt, tokens, ChanInv
<1>5. ASSUME NEW c \in Conn, CancelConn(c) PROVE ChanInv'
  BY <1>1, <1>5 DEF CancelConn
<1>6. ASSUME NEW c \in Conn, MuxBreaks(c) \/ WtControlEnds(c) \/ WtDies(c) PROVE ChanInv'
  BY <1>0, <1>6 DEF MuxBreaks, WtControlEnds, WtDies, ChanInv
<1>7. ASSUME NEW c \in Conn, MuxJoins(c) PROVE ChanInv'
  BY <1>0, <1>7 DEF MuxJoins, tokens, ChanInv
<1>8. CASE UNCHANGED vars
  BY <1>1, <1>8 DEF vars, tokens
<1> QED
  BY <1>2, <1>3, <1>4, <1>5, <1>6, <1>7, <1>8 DEF Next, Accept, Ending

(* A step of the composed server is a step of the engine, or one of the    *)
(* shutdown that leaves the sessions alone.                                *)
LEMMA ServerIsHub == ServerStep => Next
BY ZenonT(60) DEF ServerStep, Next

LEMMA ShutdownInitially == ShutdownInit => ShutdownInv
BY HubInitially DEF ShutdownInit, ShutdownInv, ChanInv, Init

LEMMA ShutdownInductive == ShutdownInv /\ [ShutdownNext]_allVars => ShutdownInv'
<1> SUFFICES ASSUME ShutdownInv, [ShutdownNext]_allVars PROVE ShutdownInv'
  OBVIOUS
<1>1. ASSUME [Next]_vars PROVE HubInv' /\ ChanInv'
  BY <1>1, HubInductive, ChanNext DEF ShutdownInv, HubInv
<1>2. CASE ServerStep /\ UNCHANGED shutdown
  BY <1>1, <1>2, ServerIsHub DEF ShutdownInv, shutdown
<1>3. CASE Signal \/ Collected \/ StartDrain \/ DrainCompletes \/ DrainExpires \/ StopListeners
  BY <1>1, <1>3 DEF ShutdownInv, Signal, Collected, StartDrain, DrainCompletes, DrainExpires, StopListeners
<1>4. ASSUME NEW c \in Conn, Collect(c) PROVE ShutdownInv'
  BY <1>1, <1>4 DEF ShutdownInv, Collect
<1>5. ASSUME NEW c \in Conn, CancelToken(c) PROVE ShutdownInv'
  <2>1. conns \subseteq Conn /\ cancelled \subseteq Conn
    BY DEF ShutdownInv, HubInv, TypeOK
  <2>2. /\ cancelled' = cancelled \cup {c} /\ UNCHANGED <<conns, visit>>
        /\ collected' = collected \ {c}
        /\ UNCHANGED <<active, chan, maps, cut, relayCut, req, pc, out, inp, stage, reap>>
    BY <1>5 DEF CancelToken
  <2>3. HubInv'
    BY <2>1, <2>2, TableApart DEF ShutdownInv
  <2>4. ChanInv'
    BY <2>2 DEF ShutdownInv, ChanInv
  <2> QED
    BY <2>2, <2>3, <2>4 DEF ShutdownInv
<1>6. CASE Sweep
  <2>1. conns \subseteq Conn /\ cancelled \subseteq Conn
    BY DEF ShutdownInv, HubInv, TypeOK
  <2>2. /\ conns' = conns \ cancelled /\ UNCHANGED <<cancelled, visit, collected>>
        /\ UNCHANGED <<active, chan, maps, cut, relayCut, req, pc, out, inp, stage, reap>>
    BY <1>6 DEF Sweep, tokens
  <2>3. HubInv'
    BY <2>1, <2>2, TableApart DEF ShutdownInv
  <2>4. ChanInv'
    BY <2>2 DEF ShutdownInv, ChanInv
  <2> QED
    BY <2>2, <2>3, <2>4 DEF ShutdownInv
<1>7. CASE UNCHANGED allVars
  BY <1>1, <1>7 DEF ShutdownInv, allVars, shutdown
<1> QED
  BY <1>2, <1>3, <1>4, <1>5, <1>6, <1>7 DEF ShutdownNext, ShutdownStep

(* A shutdown, whenever it comes and wherever the sessions are, disturbs   *)
(* neither the quota nor the ownership of routes and sessions:             *)
(* graceful_shutdown cancels and sweeps, and leaves every teardown to its  *)
(* owner.                                                                  *)
THEOREM ShutdownKeepsSessions ==
    ShutdownSpec => [](/\ QuotaExact /\ QuotaWithinLimit /\ PerConnBound
                       /\ TcpRouteOwned /\ WtSessionOwned)
<1>1. ShutdownInv => /\ QuotaExact /\ QuotaWithinLimit /\ PerConnBound
                     /\ TcpRouteOwned /\ WtSessionOwned
  <2> SUFFICES ASSUME HubInv
               PROVE  /\ QuotaExact /\ QuotaWithinLimit /\ PerConnBound
                      /\ TcpRouteOwned /\ WtSessionOwned
    BY DEF ShutdownInv
  <2>1. QuotaExact /\ QuotaWithinLimit
    BY DEF HubInv, Quota
  <2>2. PerConnBound
    BY CountFinite, HubAssumption DEF HubInv, CountInv, PerConnBound, session_count
  <2>3. TcpRouteOwned
    BY DEF HubInv, RouteInv, TcpRouteOwned
  <2>4. WtSessionOwned
    BY OwnersAreKnown, ZenonT(60) DEF HubInv
  <2> QED
    BY <2>1, <2>2, <2>3, <2>4
<1> QED
  BY <1>1, ShutdownInitially, ShutdownInductive, PTL DEF ShutdownSpec

(* In the table when the shutdown began. *)
AtSignal(c) == phase = "collect" /\ visit = Conn /\ c \in conns
CancelledOnceDraining(c) == phase \in {"drain", "sweep", "abort", "down"} => c \in cancelled

(* Where the token of such a connection is. *)
Reached(c) ==
    /\ chan[c] # "absent"
    /\ phase \in {"collect", "cancel", "drain", "sweep", "abort", "down"}
    /\ phase = "collect" => c \in visit \cup collected \cup cancelled
    /\ phase = "cancel" => c \in collected \cup cancelled
    /\ CancelledOnceDraining(c)

LEMMA ReachedNext ==
    ASSUME NEW c \in Conn
    PROVE  ShutdownInv /\ Reached(c) /\ [ShutdownNext]_allVars => Reached(c)'
<1> SUFFICES ASSUME ShutdownInv, Reached(c), [ShutdownNext]_allVars PROVE Reached(c)'
  OBVIOUS
<1> USE DEF Reached, CancelledOnceDraining
<1>0. chan \in [Conn -> {"absent", "open", "deaf", "aborting", "closed"}]
  BY DEF ShutdownInv, HubInv, TypeOK
<1>1. ASSUME Next, UNCHANGED shutdown PROVE Reached(c)'
  <2>1. cancelled \subseteq cancelled' /\ chan'[c] # "absent"
    <3>1. ASSUME NEW d \in Conn, Accept(d) \/ CancelConn(d) \/ Ending(d)
          PROVE  cancelled \subseteq cancelled' /\ chan'[c] # "absent"
      BY <1>0, <3>1 DEF Accept, AcceptMux, AcceptWt, CancelConn, Ending, MuxBreaks, MuxJoins,
           WtControlEnds, WtDies, tokens
    <3> QED
      BY <1>1, <3>1, SessionsStay, ReaperCancels DEF Next
  <2> QED
    BY <1>1, <2>1 DEF shutdown
<1>2. CASE ServerStep /\ UNCHANGED shutdown
  BY <1>1, <1>2, ServerIsHub
<1>3. CASE Signal \/ Collected \/ StartDrain \/ DrainCompletes \/ DrainExpires \/ StopListeners
  BY <1>3 DEF Signal, Collected, StartDrain, DrainCompletes, DrainExpires, StopListeners, vars, tokens
<1>4. ASSUME NEW d \in Conn, Collect(d) PROVE Reached(c)'
  <2>1. c \in conns \cup cancelled
    BY <1>0 DEF ShutdownInv, ChanInv
  <2> QED
    BY <1>4, <2>1 DEF Collect, vars, tokens
<1>5. ASSUME NEW d \in Conn, CancelToken(d) PROVE Reached(c)'
  BY <1>5 DEF CancelToken
<1>6. CASE Sweep
  BY <1>6 DEF Sweep, tokens
<1>7. CASE UNCHANGED allVars
  BY <1>7 DEF allVars, shutdown, vars, tokens
<1> QED
  BY <1>2, <1>3, <1>4, <1>5, <1>6, <1>7 DEF ShutdownNext, ShutdownStep

(* Every connection that is in the table when the shutdown begins is       *)
(* cancelled before the wait for its sessions starts, although the table   *)
(* is visited piece by piece while connections end, are reaped and arrive. *)
THEOREM ShutdownReachesAll ==
    ASSUME NEW c \in Conn
    PROVE  ShutdownSpec => [](AtSignal(c) => []CancelledOnceDraining(c))
<1>1. ShutdownInv /\ AtSignal(c) => Reached(c)
  BY DEF ShutdownInv, ChanInv, AtSignal, Reached, CancelledOnceDraining
<1>2. Reached(c) => CancelledOnceDraining(c)
  BY DEF Reached
<1> QED
  BY <1>1, <1>2, ReachedNext, ShutdownInitially, ShutdownInductive, PTL DEF ShutdownSpec

-----------------------------------------------------------------------------
(* Cancelled connections drain. A fair worker brings its request to an     *)
(* end, and once the connection is cancelled so does the task that owns    *)
(* the teardown; after that the request never has a session again.         *)

(* The connection of the request is cancelled; the worker has returned;    *)
(* the pump has to stop, or the teardown it started has to go on.          *)
Cut(t) == ConnOf(t) \in cancelled
WorkerDone(t) == pc[t] = "done"
OutDue(t) == (out[t] = "run" /\ Cut(t)) \/ stage[<<"out", t>>] # "none"

(* The tasks that have something to do can do it: every action of the      *)
(* worker, the pump and the watcher is a guard and assignments.            *)
TasksEnabled ==
    \A t \in Task :
        /\ [](Running(t) => ENABLED <<WorkerRuns(t)>>_vars)
        /\ [](OutDue(t) => ENABLED <<OutRuns(t)>>_vars)

(* The request has no session, and nothing to drop or to give back. *)
Settled(t) ==
    /\ sessions[req[t].key] # t
    /\ stage[<<"worker", t>>] = "none" /\ stage[<<"out", t>>] = "none"

LEMMA RequestsApart ==
    ASSUME TypeOK, [ShutdownNext]_allVars
    PROVE  /\ req' = req /\ cancelled \subseteq cancelled'
           /\ [Next]_vars \/ UNCHANGED <<sessions, pc, out, stage>>
<1>1. ASSUME [Next]_vars PROVE req' = req
  <2>1. ASSUME NEW u \in Task, Arrive(u) \/ CheckContains(u) \/ CheckCount(u) \/ Acquire(u) \/ InsertUdpRoute(u)
                               \/ DialOk(u) \/ Reply(u) \/ Abort(u) \/ Register(u) \/ DialErr(u)
        PROVE  req' = req
    BY <2>1, ZenonT(60) DEF Arrive, CheckContains, CheckCount, Acquire, InsertUdpRoute, DialOk, Reply, Abort,
         Register, DialErr
  <2>2. ASSUME NEW u \in Task, OutEnds(u) \/ WatcherWakes(u) \/ InHalfCloses(u) \/ InAborts(u) PROVE req' = req
    BY <2>2, ZenonT(60) DEF OutEnds, WatcherWakes, InHalfCloses, InAborts
  <2>3. ASSUME NEW k \in Key, ReadClose(k) \/ ReadDataFails(k) \/ ReapSession(k) PROVE req' = req
    BY <2>3, ZenonT(60) DEF ReadClose, ReadDataFails, ReapSession
  <2>4. ASSUME NEW a \in Actor, DropStep(a) PROVE req' = req
    BY <2>4, ZenonT(60) DEF DropStep, DropTcpRoute, DropUdpRoute, DropSession, Release
  <2> QED
    BY <1>1, <2>1, <2>2, <2>3, <2>4, EngineKinds, ZenonT(60)
<1>2. ASSUME [Next]_vars PROVE cancelled \subseteq cancelled'
  <2>1. ASSUME NEW d \in Conn, Accept(d) \/ CancelConn(d) \/ Ending(d)
        PROVE  cancelled \subseteq cancelled'
    BY <2>1 DEF Accept, AcceptMux, AcceptWt, CancelConn, Ending, MuxBreaks, MuxJoins, WtControlEnds, WtDies, tokens
  <2>2. ASSUME UNCHANGED vars PROVE cancelled \subseteq cancelled'
    BY <2>2 DEF vars, tokens
  <2> QED
    BY <1>2, <2>1, <2>2, SessionsStay, ReaperCancels, ZenonT(60) DEF Next
<1>3. CASE ServerStep
  BY <1>1, <1>2, <1>3, ServerIsHub
<1>4. CASE UNCHANGED vars
  BY <1>1, <1>2, <1>4
<1>5. ASSUME NEW c \in Conn, CancelToken(c) \/ Sweep
      PROVE  UNCHANGED <<req, sessions, pc, out, stage>> /\ cancelled \subseteq cancelled'
  BY <1>5 DEF CancelToken, Sweep, maps, tokens
<1>6. ASSUME Sweep
      PROVE  UNCHANGED <<req, sessions, pc, out, stage>> /\ cancelled \subseteq cancelled'
  BY <1>6 DEF Sweep, maps, tokens
<1>7. \/ ServerStep \/ UNCHANGED vars \/ Sweep \/ \E c \in Conn : CancelToken(c)
  BY ZenonT(60) DEF ShutdownNext, ShutdownStep, Signal, Collect, Collected, StartDrain, DrainCompletes, DrainExpires,
       StopListeners, allVars
<1> QED
  BY <1>3, <1>4, <1>5, <1>6, <1>7, ZenonT(60)

(* A fair worker comes to its end, whatever the state of the connection. *)
LEMMA WorkersEnd ==
    ASSUME NEW t \in Task
    PROVE  ShutdownSpec /\ TasksEnabled => (Running(t) ~> WorkerEnded(t))
<1> DEFINE Inv == ShutdownInv
           Step == [ShutdownNext]_allVars
           Own == <<WorkerRuns(t)>>_vars
           At(p) == WorkerAt(t, p, "none")
           Drops(s) == WorkerAt(t, "reply", s)
           Busy == \/ At("contains") \/ At("count") \/ At("acquire") \/ At("register") \/ At("route") \/ At("dial")
                   \/ Drops("tcp") \/ Drops("udp") \/ Drops("session") \/ Drops("release") \/ Drops("none")
<1>i. Inv => TypeOK /\ StageInv
  BY DEF ShutdownInv, HubInv
<1>0. Inv => (Running(t) <=> Busy)
  BY <1>i, RunningIsAt
<1>1. ASSUME Inv, Step PROVE [Next]_vars \/ UNCHANGED <<sessions, pc, out, stage>>
  BY <1>i, <1>1, RequestsApart
<1>2. /\ Inv /\ At("contains") /\ Step => At("contains")' \/ At("count")' \/ Drops("none")' \/ WorkerEnded(t)'
      /\ Inv /\ At("contains") /\ Step /\ Own => At("count")' \/ Drops("none")' \/ WorkerEnded(t)'
      /\ Inv /\ At("count") /\ Step => At("count")' \/ At("acquire")' \/ Drops("none")'
      /\ Inv /\ At("count") /\ Step /\ Own => At("acquire")' \/ Drops("none")'
      /\ Inv /\ At("acquire") /\ Step => At("acquire")' \/ At("register")' \/ Drops("none")'
      /\ Inv /\ At("acquire") /\ Step /\ Own => At("register")' \/ Drops("none")'
      /\ Inv /\ At("register") /\ Step => At("register")' \/ At("route")' \/ At("dial")' \/ Drops("release")'
      /\ Inv /\ At("register") /\ Step /\ Own => At("route")' \/ At("dial")' \/ Drops("release")'
      /\ Inv /\ At("route") /\ Step => At("route")' \/ Drops("none")'
      /\ Inv /\ At("route") /\ Step /\ Own => Drops("none")'
      /\ Inv /\ At("dial") /\ Step => At("dial")' \/ Drops("none")' \/ Drops("tcp")' \/ WorkerEnded(t)'
      /\ Inv /\ At("dial") /\ Step /\ Own => Drops("none")' \/ Drops("tcp")' \/ WorkerEnded(t)'
  BY <1>i, <1>1, WorkerSteps, ZenonT(60)
<1>3. /\ Inv /\ Drops("tcp") /\ Step => Drops("tcp")' \/ Drops("udp")'
      /\ Inv /\ Drops("tcp") /\ Step /\ Own => Drops("udp")'
      /\ Inv /\ Drops("udp") /\ Step => Drops("udp")' \/ Drops("session")'
      /\ Inv /\ Drops("udp") /\ Step /\ Own => Drops("session")'
      /\ Inv /\ Drops("session") /\ Step => Drops("session")' \/ Drops("release")' \/ Drops("none")'
      /\ Inv /\ Drops("session") /\ Step /\ Own => Drops("release")' \/ Drops("none")'
      /\ Inv /\ Drops("release") /\ Step => Drops("release")' \/ Drops("none")'
      /\ Inv /\ Drops("release") /\ Step /\ Own => Drops("none")'
      /\ Inv /\ Drops("none") /\ Step => Drops("none")' \/ WorkerEnded(t)'
      /\ Inv /\ Drops("none") /\ Step /\ Own => WorkerEnded(t)'
  BY <1>i, <1>1, WorkerSteps, ZenonT(60)
<1>4. ShutdownSpec => TaskFairness(t)
  BY ZenonT(60) DEF ShutdownSpec, Fairness
<1>5. TasksEnabled => [](Running(t) => ENABLED <<WorkerRuns(t)>>_vars)
  BY DEF TasksEnabled
<1>6. ShutdownSpec => []ShutdownInv
  BY ShutdownInitially, ShutdownInductive, PTL DEF ShutdownSpec
<1> QED
  BY <1>0, <1>2, <1>3, <1>4, <1>5, <1>6, PTL DEF ShutdownSpec, TaskFairness

LEMMA OverIsSettled ==
    ASSUME TypeOK, StageInv, OwnInv, NEW t \in Task, pc[t] = "new" \/ OutOver(t)
    PROVE  Settled(t)
<1>1. /\ stage[<<"worker", t>>] = "none" /\ stage[<<"out", t>>] = "none"
      /\ pc[t] = "new" => out[t] = "none"
  BY ActorParts, ZenonT(60) DEF TypeOK, StageInv, OutOver
<1>2. ~ Kept(t) /\ req[t].key \in Key
  BY <1>1 DEF Kept, InDrop, OutOver, TypeOK, Request
<1> QED
  BY <1>1, <1>2, HubAssumption, ZenonT(60) DEF Settled, OwnInv

(* Once the connection is cancelled and the worker has ended, so does the  *)
(* task that owns the teardown, and that is for good.                      *)
LEMMA TeardownsEnd ==
    ASSUME NEW t \in Task
    PROVE  ShutdownSpec /\ TasksEnabled => ((WorkerDone(t) /\ Cut(t)) ~> []Settled(t))
<1> DEFINE Inv == ShutdownInv
           Step == [ShutdownNext]_allVars
           Own == <<OutRuns(t)>>_vars
           At(o, s) == OutAt(t, o, s)
<1>i. Inv => TypeOK /\ StageInv /\ OwnInv
  BY DEF ShutdownInv, HubInv
<1>1. ASSUME Inv, Step
      PROVE  ([Next]_vars \/ UNCHANGED <<sessions, pc, out, stage>>) /\ (Cut(t) => Cut(t)')
  BY <1>i, <1>1, RequestsApart DEF Cut, ConnOf
<1>2. /\ Inv /\ Cut(t) /\ Step => Cut(t)'
      /\ Inv /\ At("run", "none") /\ Step => At("run", "none")' \/ At("done", "tcp")'
      /\ Inv /\ At("run", "none") /\ Step /\ Own => At("done", "tcp")'
      /\ Inv /\ At("done", "tcp") /\ Step => At("done", "tcp")' \/ At("done", "udp")'
      /\ Inv /\ At("done", "tcp") /\ Step /\ Own => At("done", "udp")'
      /\ Inv /\ At("done", "udp") /\ Step => At("done", "udp")' \/ At("done", "session")'
      /\ Inv /\ At("done", "udp") /\ Step /\ Own => At("done", "session")'
      /\ Inv /\ At("done", "session") /\ Step => At("done", "session")' \/ At("done", "release")' \/ OutOver(t)'
      /\ Inv /\ At("done", "session") /\ Step /\ Own => At("done", "release")' \/ OutOver(t)'
      /\ Inv /\ At("done", "release") /\ Step => At("done", "release")' \/ OutOver(t)'
      /\ Inv /\ At("done", "release") /\ Step /\ Own => OutOver(t)'
      /\ Inv /\ OutOver(t) /\ Step => OutOver(t)'
  BY <1>i, <1>1, OutSteps, ZenonT(60)
<1>3. /\ Inv /\ WorkerDone(t) => \/ At("run", "none") \/ At("done", "tcp") \/ At("done", "udp")
                                 \/ At("done", "session") \/ At("done", "release") \/ OutOver(t)
      /\ At("run", "none") /\ Cut(t) => OutDue(t)
      /\ At("done", "tcp") \/ At("done", "udp") \/ At("done", "session") \/ At("done", "release") => OutDue(t)
  <2>1. ASSUME Inv, WorkerDone(t)
        PROVE  \/ At("run", "none") \/ At("done", "tcp") \/ At("done", "udp")
               \/ At("done", "session") \/ At("done", "release") \/ OutOver(t)
    BY <1>i, <2>1, DoneIsOutAt, ZenonT(60) DEF WorkerDone
  <2>2. /\ At("run", "none") /\ Cut(t) => OutDue(t)
        /\ At("done", "tcp") \/ At("done", "udp") \/ At("done", "session") \/ At("done", "release") => OutDue(t)
    BY DEF OutAt, OutDue, Cut
  <2> QED
    BY <2>1, <2>2, ZenonT(60)
<1>4. Inv /\ OutOver(t) => Settled(t)
  BY <1>i, OverIsSettled, ZenonT(60)
<1>5. ShutdownSpec => TaskFairness(t)
  BY ZenonT(60) DEF ShutdownSpec, Fairness
<1>6. TasksEnabled => [](OutDue(t) => ENABLED <<OutRuns(t)>>_vars)
  BY DEF TasksEnabled
<1>7. ShutdownSpec => []ShutdownInv
  BY ShutdownInitially, ShutdownInductive, PTL DEF ShutdownSpec
<1> QED
  BY <1>2, <1>3, <1>4, <1>5, <1>6, <1>7, PTL DEF ShutdownSpec, TaskFairness

(* Every request of a cancelled connection is settled for good in every    *)
(* fair behaviour, also while the server shuts down: it has no session in  *)
(* the table and owes neither a teardown nor its quota. The exception is   *)
(* a mode-A request whose worker was aborted.                              *)
THEOREM CancelledRequestsSettle ==
    ASSUME NEW t \in Task
    PROVE  ShutdownSpec /\ TasksEnabled =>
               (Cut(t) ~> ([]Settled(t) \/ pc[t] = "aborted"))
<1> DEFINE New == pc[t] = "new"
           Lost == pc[t] = "aborted"
<1>i. ShutdownInv => TypeOK /\ StageInv /\ OwnInv
  BY DEF ShutdownInv, HubInv
<1>1. /\ ShutdownInv => New \/ Running(t) \/ WorkerDone(t) \/ Lost
      /\ WorkerEnded(t) => WorkerDone(t) \/ Lost
  BY DEF Running, WorkerDone, WorkerEnded
<1>2. ShutdownInv /\ Cut(t) /\ [ShutdownNext]_allVars => Cut(t)'
  BY <1>i, RequestsApart DEF Cut, ConnOf
<1>3. ShutdownInv /\ New => Settled(t)
  BY <1>i, OverIsSettled, ZenonT(60)
<1>4. ShutdownSpec /\ TasksEnabled => (Running(t) ~> WorkerEnded(t))
  BY WorkersEnd, ZenonT(60)
<1>5. ShutdownSpec /\ TasksEnabled => ((WorkerDone(t) /\ Cut(t)) ~> []Settled(t))
  BY TeardownsEnd, ZenonT(60)
<1> HIDE DEF New, Lost
<1>6. ShutdownSpec => []ShutdownInv
  BY ShutdownInitially, ShutdownInductive, PTL DEF ShutdownSpec
<1>7. ShutdownSpec /\ TasksEnabled => (Cut(t) ~> ([]Settled(t) \/ Lost))
  BY <1>1, <1>2, <1>3, <1>4, <1>5, <1>6, PTL DEF ShutdownSpec
<1> QED
  BY <1>7, ZenonT(60) DEF Lost

(* A WebTransport request has no such exception, for its task is never     *)
(* aborted: what CancelDrains says of a connection, request by request.    *)
THEOREM WtRequestsSettle ==
    ASSUME NEW c \in Conn \ Mux, NEW t \in Task
    PROVE  ShutdownSpec /\ TasksEnabled =>
               ((ConnOf(t) = c /\ c \in cancelled) ~> []Settled(t))
<1> DEFINE Mine == ConnOf(t) = c
           Begun == ConnOf(t) = c /\ c \in cancelled
           Lost == pc[t] = "aborted"
<1>1. /\ ShutdownInv /\ Mine /\ [ShutdownNext]_allVars => Mine'
      /\ Begun => Mine /\ Cut(t)
      /\ ShutdownInv => ~(Mine /\ Lost)
  <2>1. ShutdownInv => TypeOK /\ OwnInv
    BY DEF ShutdownInv, HubInv
  <2> QED
    BY <2>1, RequestsApart DEF OwnInv, ConnOf, Cut
<1>2. ShutdownSpec /\ TasksEnabled => (Cut(t) ~> ([]Settled(t) \/ Lost))
  BY CancelledRequestsSettle, ZenonT(60)
<1> HIDE DEF Mine, Lost, Begun
<1>3. ShutdownSpec => []ShutdownInv
  BY ShutdownInitially, ShutdownInductive, PTL DEF ShutdownSpec
<1>4. ShutdownSpec /\ TasksEnabled => (Begun ~> []Settled(t))
  BY <1>1, <1>2, <1>3, PTL DEF ShutdownSpec
<1> QED
  BY <1>4, ZenonT(60) DEF Begun

(* When every request of a connection is settled it has no session left,   *)
(* which is what CancelDrains and ShutdownDrains wait for.                 *)
THEOREM SettledIsDrained ==
    ASSUME NEW c \in Conn
    PROVE  ShutdownSpec =>
               []((\A t \in Task : ConnOf(t) = c => Settled(t)) => SessionsOf(c) = {})
<1>1. ASSUME ShutdownInv, \A t \in Task : ConnOf(t) = c => Settled(t) PROVE SessionsOf(c) = {}
  <2> SUFFICES ASSUME NEW s \in Sid, sessions[<<c, s>>] # NoTask PROVE FALSE
    BY DEF SessionsOf
  <2>1. <<c, s>> \in Key
    BY DEF Key
  <2>2. PICK t \in Task : sessions[<<c, s>>] = t
    BY <1>1, <2>1 DEF ShutdownInv, HubInv, TypeOK
  <2>3. req[t].key = <<c, s>>
    BY <1>1, <2>1, <2>2, ZenonT(60) DEF ShutdownInv, HubInv, OwnInv
  <2>4. Settled(t)
    BY <1>1, <2>3 DEF ConnOf
  <2> QED
    BY <2>2, <2>3, <2>4 DEF Settled
<1>2. ShutdownInv => ((\A t \in Task : ConnOf(t) = c => Settled(t)) => SessionsOf(c) = {})
  BY <1>1
<1> QED
  BY <1>2, ShutdownInitially, ShutdownInductive, PTL DEF ShutdownSpec

(* The requests of a WebTransport connection that was in the table when    *)
(* the shutdown began are settled for good, provided the shutdown leaves   *)
(* its loops over the table and the tokens.                                *)
THEOREM ShutdownSettles ==
    ASSUME NEW c \in Conn \ Mux, NEW t \in Task
    PROVE  ShutdownSpec /\ TasksEnabled =>
               ((AtSignal(c) /\ ConnOf(t) = c) ~>
                    ([]Settled(t) \/ [](phase \in {"collect", "cancel"})))
<1> DEFINE Mine == ConnOf(t) = c
           Loops == phase \in {"collect", "cancel"}
           Begun == ConnOf(t) = c /\ c \in cancelled
<1>1. ShutdownInv /\ Mine /\ [ShutdownNext]_allVars => Mine'
  BY RequestsApart DEF ShutdownInv, HubInv, ConnOf
<1>2. /\ ShutdownInv /\ AtSignal(c) => Reached(c)
      /\ Mine /\ Reached(c) /\ ~Loops => Begun
  BY DEF ShutdownInv, ChanInv, AtSignal, Reached, CancelledOnceDraining
<1>3. ShutdownSpec /\ TasksEnabled => (Begun ~> []Settled(t))
  BY WtRequestsSettle, ZenonT(60)
<1>4. ShutdownInv /\ Reached(c) /\ [ShutdownNext]_allVars => Reached(c)'
  BY ReachedNext, ZenonT(60)
<1> HIDE DEF Mine, Loops, Begun
<1>5. ShutdownSpec => []ShutdownInv
  BY ShutdownInitially, ShutdownInductive, PTL DEF ShutdownSpec
<1>6. ShutdownSpec /\ TasksEnabled => ((AtSignal(c) /\ Mine) ~> ([]Settled(t) \/ []Loops))
  BY <1>1, <1>2, <1>3, <1>4, <1>5, PTL DEF ShutdownSpec
<1> QED
  BY <1>6, ZenonT(60) DEF Mine, Loops

(* The main task has a step to take from the wait on. *)
MainEnabled == [](phase \in {"drain", "sweep", "abort"} => ENABLED <<ShutdownStep>>_allVars)

(* The wait for the sessions ends, also when a session never does: the     *)
(* deadline, the sweep and the abort of the listeners follow in turn.      *)
THEOREM DrainEnds == ShutdownSpec /\ MainEnabled => (phase = "drain" ~> phase = "down")
<1> DEFINE Waits == phase = "drain"
           Sweeps == phase = "sweep"
           Stops == phase = "abort"
           Down == phase = "down"
           Due == phase \in {"drain", "sweep", "abort"}
<1>1. ASSUME [ShutdownNext]_allVars, Due
      PROVE  /\ \/ UNCHANGED phase
                \/ Waits /\ Sweeps'
                \/ Sweeps /\ Stops'
                \/ Stops /\ Down'
             /\ ShutdownStep => phase' # phase
  <2>1. ~(Collected \/ StartDrain \/ \E c \in Conn : Collect(c) \/ CancelToken(c))
    BY <1>1 DEF Collected, StartDrain, Collect, CancelToken
  <2>2. /\ DrainCompletes \/ DrainExpires => Waits /\ Sweeps'
        /\ Sweep => Sweeps /\ Stops'
        /\ StopListeners => Stops /\ Down'
    BY DEF DrainCompletes, DrainExpires, Sweep, StopListeners
  <2>3. ~ShutdownStep => UNCHANGED phase
    BY <1>1 DEF ShutdownNext, Signal, allVars, shutdown
  <2>4. (Waits /\ Sweeps') \/ (Sweeps /\ Stops') \/ (Stops /\ Down') => phase' # phase
    OBVIOUS
  <2> HIDE DEF Waits, Sweeps, Stops, Down
  <2> QED
    BY <2>1, <2>2, <2>3, <2>4, ZenonT(60) DEF ShutdownStep
<1>2. /\ Waits /\ [ShutdownNext]_allVars => Waits' \/ Sweeps'
      /\ Waits /\ [ShutdownNext]_allVars /\ <<ShutdownStep>>_allVars => Sweeps'
      /\ Sweeps /\ [ShutdownNext]_allVars => Sweeps' \/ Stops'
      /\ Sweeps /\ [ShutdownNext]_allVars /\ <<ShutdownStep>>_allVars => Stops'
      /\ Stops /\ [ShutdownNext]_allVars => Stops' \/ Down'
      /\ Stops /\ [ShutdownNext]_allVars /\ <<ShutdownStep>>_allVars => Down'
  BY <1>1
<1>3. Waits \/ Sweeps \/ Stops => Due
  OBVIOUS
<1>4. MainEnabled => [](Due => ENABLED <<ShutdownStep>>_allVars)
  BY DEF MainEnabled
<1> HIDE DEF Waits, Sweeps, Stops, Down, Due
<1>5. ShutdownSpec /\ MainEnabled => (Waits ~> Down)
  BY <1>2, <1>3, <1>4, PTL DEF ShutdownSpec, MainRuns
<1> QED
  BY <1>5, ZenonT(60) DEF Waits, Down

=============================================================================
