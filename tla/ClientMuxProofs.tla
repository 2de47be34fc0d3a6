--------------------------- MODULE ClientMuxProofs ---------------------------
(***************************************************************************)
(* The client's fallback path keeps one channel, and its maps hold what    *)
(* they should and nothing else, for every number of requests and channel  *)
(* slots. The invariant is a conjunction of clauses about one caller, or   *)
(* one caller and one channel, each of which a step of another caller      *)
(* leaves alone.                                                           *)
(***************************************************************************)
EXTENDS ClientMux, TLAPS

USE SMTT(60)

-----------------------------------------------------------------------------
(* The lock is held by the one caller that connects, and no channel lives  *)
(* meanwhile; a living channel is the one in HttpOutbound.mux.             *)
LockInv ==
    /\ \A c \in Caller : step[c] = "connect" => lock = c /\ \A g \in Chan : life[g] # "open"
    /\ \A g \in Chan : life[g] = "open" => mux = g

(* Where a caller is on a channel, and where nothing was asked yet. *)
OnChannel == {"route", "wait_in", "send", "wait", "undo", "up", "half", "over"}
Unasked == {"idle", "ensure", "connect", "route", "wait_in", "send"}

CallerInv ==
    \A c \in Caller :
        /\ step[c] \in OnChannel => at[c] \in Chan
        /\ step[c] \in Unasked => srv[c] = "none"
        /\ reply[c] # "none" => step[c] \in {"wait", "undo"}

(* What is in the maps: entries of the right kind, of callers that are     *)
(* there. A resolved oneshot has no waiter, an abandoned open no route.    *)
MapInv ==
    \A c \in Caller, g \in Chan :
        /\ c \in sessions[g] \cup pending_open[g] => kind[c] = "tcp"
        /\ c \in udp[g] \cup pending_udp[g] => kind[c] = "udp"
        /\ c \in sessions[g] \cup udp[g] =>
              at[c] = g /\ step[c] \in {"wait_in", "send", "wait", "up", "half"}
        /\ c \in pending_open[g] \cup pending_udp[g] =>
              at[c] = g /\ step[c] \in {"send", "wait", "undo"} /\ reply[c] = "none"

(* A reader that waits for room does so on a living channel, for a session *)
(* the server spoke of; with the FIN in hand it was the last time.         *)
ReaderInv ==
    \A c \in Caller, g \in Chan, f \in BOOLEAN :
        reader[g] = <<c, f>> =>
            /\ at[c] = g /\ life[g] = "open" /\ srv[c] # "none"
            /\ f => srv[c] \in {"fin", "over"}

(* The route of an open under way, and of a session the server still sends *)
(* for, is there as long as the channel lives.                             *)
KeptInv ==
    \A c \in Caller :
        /\ c \in rx /\ life[at[c]] = "open"
        /\ \/ step[c] \in {"wait_in", "send"}
           \/ step[c] \in {"wait", "up", "half"} /\ srv[c] \in {"asked", "early", "run"}
        => c \in IF kind[c] = "tcp" THEN sessions[at[c]] ELSE udp[at[c]]

(* A route that was inserted after its map was cleared will not be used:   *)
(* no answer comes any more.                                               *)
DeadInv ==
    \A c \in Caller, g \in Chan :
        /\ c \in sessions[g] /\ life[g] \in {"udp", "pending_open", "pending_udp", "done"} =>
              step[c] \in {"wait_in", "send", "wait"} /\ reply[c] # "ok"
        /\ c \in udp[g] /\ life[g] \in {"pending_open", "pending_udp", "done"} =>
              step[c] \in {"wait_in", "send", "wait"} /\ reply[c] # "ok"

MuxInv == TypeOK /\ LockInv /\ CallerInv /\ MapInv /\ ReaderInv /\ KeptInv /\ DeadInv

-----------------------------------------------------------------------------
USE DEF channel, routes, waiters, request, Goto

(* A reader with a frame in hand is not an idle one. *)
LEMMA NoFrame == \A c, f : <<c, f>> # <<>>
OBVIOUS

(* Nothing is lost while nothing happens. *)
LEMMA MuxStutters ==
    ASSUME MuxInv, UNCHANGED vars
    PROVE  MuxInv'
<1>1. TypeOK' /\ LockInv' /\ CallerInv' /\ MapInv'
    BY DEF MuxInv, vars, TypeOK, LockInv, CallerInv, MapInv
<1>2. ReaderInv'
    BY DEF MuxInv, vars, ReaderInv
<1>3. KeptInv' /\ DeadInv'
    BY DEF MuxInv, vars, KeptInv, DeadInv
<1> QED BY <1>1, <1>2, <1>3 DEF MuxInv

(* The types are kept; the lock is released by who took it. *)
LEMMA MuxTypeNext ==
    ASSUME TypeOK, CallerInv, Next
    PROVE  TypeOK'
<1>1. ASSUME NEW c \in Caller, NEW k \in Kind, Begin(c, k) PROVE TypeOK'
    BY <1>1, MuxAssumption DEF TypeOK, Begin
<1>2. ASSUME NEW c \in Caller, EnsureKeeps(c) PROVE TypeOK'
    BY <1>2 DEF TypeOK, EnsureKeeps, is_closed
<1>3. ASSUME NEW c \in Caller, EnsureDials(c) PROVE TypeOK'
    BY <1>3 DEF TypeOK, EnsureDials, is_closed
<1>4. ASSUME NEW c \in Caller, NEW g \in Chan, ConnectOk(c, g) PROVE TypeOK'
    BY <1>4 DEF TypeOK, ConnectOk, Unused
<1>5. ASSUME NEW c \in Caller, ConnectErr(c) PROVE TypeOK'
    BY <1>5 DEF TypeOK, ConnectErr
<1>6. ASSUME NEW c \in Caller, InsertRoute(c) PROVE TypeOK'
    BY <1>6 DEF TypeOK, InsertRoute, Add
<1>7. ASSUME NEW c \in Caller, InsertWaiter(c) PROVE TypeOK'
    BY <1>7 DEF TypeOK, InsertWaiter, Add
<1>8. ASSUME NEW c \in Caller, SendOpen(c) PROVE TypeOK'
    BY <1>8 DEF TypeOK, SendOpen
<1>9. ASSUME NEW c \in Caller, SendFails(c) PROVE TypeOK'
    BY <1>9 DEF TypeOK, SendFails, RemoveRoute, Remove
<1>10. ASSUME NEW c \in Caller, NoReply(c) PROVE TypeOK'
    BY <1>10 DEF TypeOK, NoReply, RemoveRoute, Remove
<1>11. ASSUME NEW c \in Caller, GotOk(c) PROVE TypeOK'
    BY <1>11 DEF TypeOK, GotOk
<1>12. ASSUME NEW c \in Caller, GotErr(c) PROVE TypeOK'
    BY <1>12 DEF TypeOK, GotErr, RemoveRoute, Remove, Fail
<1>13. ASSUME NEW c \in Caller, UndoWaiter(c) PROVE TypeOK'
    BY <1>13 DEF TypeOK, UndoWaiter, RemoveWaiter, Remove, Fail
<1>14. ASSUME NEW c \in Caller, HalfClose(c) PROVE TypeOK'
    BY <1>14 DEF TypeOK, HalfClose
<1>15. ASSUME NEW c \in Caller, UdpPumpEnds(c) PROVE TypeOK'
    BY <1>15 DEF TypeOK, CallerInv, OnChannel, UdpPumpEnds, Remove
<1>16. ASSUME NEW c \in Caller,
             DownEnds(c) \/ WriteFails(c) \/ PipeDropped(c)
      PROVE  TypeOK'
    BY <1>16 DEF TypeOK, DownEnds, WriteFails, PipeDropped
<1>17. ASSUME NEW c \in Caller, ReadOk(c) PROVE TypeOK'
    BY <1>17 DEF TypeOK, ReadOk, Tell, Remove, Hears
<1>18. ASSUME NEW c \in Caller, ReadOpenErr(c) PROVE TypeOK'
    BY <1>18 DEF TypeOK, ReadOpenErr, Tell, Remove, Hears
<1>19. ASSUME NEW c \in Caller, NEW fin \in BOOLEAN, ReadData(c, fin) PROVE TypeOK'
    BY <1>19 DEF TypeOK, ReadData, Remove, Hears, Later
<1>20. ASSUME NEW c \in Caller, NEW fin \in BOOLEAN, ReadBlocks(c, fin) PROVE TypeOK'
    BY <1>20 DEF TypeOK, ReadBlocks, Hears, Later
<1>21. ASSUME NEW c \in Caller, NEW fin \in BOOLEAN, ReaderResumes(c, fin) PROVE TypeOK'
    BY <1>21 DEF TypeOK, ReaderResumes, Remove
<1>22. ASSUME NEW c \in Caller, ReadClose(c) PROVE TypeOK'
    BY <1>22 DEF TypeOK, ReadClose, Remove, Hears, Later
<1>23. ASSUME NEW c \in Caller, ServerReaps(c) PROVE TypeOK'
    BY <1>23 DEF TypeOK, ServerReaps
<1>24. ASSUME NEW g \in Chan, LinkEnds(g) PROVE TypeOK'
    BY <1>24 DEF TypeOK, LinkEnds
<1>25. ASSUME NEW g \in Chan, WriterBreaks(g) PROVE TypeOK'
    BY <1>25 DEF TypeOK, WriterBreaks
<1>26. ASSUME NEW g \in Chan, ReadEof(g) PROVE TypeOK'
    BY <1>26 DEF TypeOK, ReadEof
<1>27. ASSUME NEW g \in Chan, ClearSessions(g) PROVE TypeOK'
    BY <1>27 DEF TypeOK, ClearSessions
<1>28. ASSUME NEW g \in Chan, ClearUdp(g) PROVE TypeOK'
    BY <1>28 DEF TypeOK, ClearUdp
<1>29. ASSUME NEW g \in Chan, ClearPendingOpen(g) PROVE TypeOK'
    BY <1>29 DEF TypeOK, ClearPendingOpen
<1>30. ASSUME NEW g \in Chan, ClearPendingUdp(g) PROVE TypeOK'
    BY <1>30 DEF TypeOK, ClearPendingUdp
<1> QED BY <1>1, <1>2, <1>3, <1>4, <1>5, <1>6, <1>7, <1>8, <1>9, <1>10, <1>11, <1>12,
          <1>13, <1>14, <1>15, <1>16, <1>17, <1>18, <1>19, <1>20, <1>21, <1>22, <1>23,
          <1>24, <1>25, <1>26, <1>27, <1>28, <1>29, <1>30 DEF Next, Connect, OpenStep,
          Pump, Teardown

(* connect is entered with no living channel, and the lock keeps others out. *)
LEMMA LockNext ==
    ASSUME TypeOK, LockInv, Next
    PROVE  LockInv'
<1>1. ASSUME NEW c \in Caller,
             (\E k \in Kind : Begin(c, k)) \/ EnsureKeeps(c) \/ InsertRoute(c)
             \/ InsertWaiter(c) \/ SendOpen(c) \/ SendFails(c) \/ GotOk(c) \/ NoReply(c)
             \/ HalfClose(c) \/ UdpPumpEnds(c)
      PROVE  LockInv'
    BY <1>1 DEF TypeOK, LockInv, Begin, EnsureKeeps, InsertRoute, InsertWaiter, SendOpen,
            SendFails, GotOk, NoReply, HalfClose, UdpPumpEnds
<1>2. ASSUME NEW c \in Caller, EnsureDials(c) PROVE LockInv'
    BY <1>2, MuxAssumption DEF TypeOK, LockInv, EnsureDials, is_closed
<1>3. ASSUME NEW c \in Caller, NEW g \in Chan, ConnectOk(c, g) PROVE LockInv'
    BY <1>3 DEF TypeOK, LockInv, ConnectOk, Unused
<1>4. ASSUME NEW c \in Caller, ConnectErr(c) PROVE LockInv'
    BY <1>4 DEF TypeOK, LockInv, ConnectErr
<1>5. ASSUME NEW c \in Caller, GotErr(c) \/ UndoWaiter(c) PROVE LockInv'
    BY <1>5 DEF TypeOK, LockInv, GotErr, Fail, UndoWaiter
<1>6. ASSUME NEW c \in Caller,
             DownEnds(c) \/ WriteFails(c) \/ PipeDropped(c) \/ ServerReaps(c)
      PROVE  LockInv'
    BY <1>6 DEF TypeOK, LockInv, DownEnds, WriteFails, PipeDropped, ServerReaps
<1>7. ASSUME NEW c \in Caller, ReadOk(c) \/ ReadOpenErr(c) PROVE LockInv'
    BY <1>7 DEF TypeOK, LockInv, ReadOk, Tell, ReadOpenErr
<1>8. ASSUME NEW c \in Caller, ReadClose(c) PROVE LockInv'
    BY <1>8 DEF TypeOK, LockInv, ReadClose
<1>9. ASSUME NEW c \in Caller, NEW fin \in BOOLEAN,
             ReadData(c, fin) \/ ReadBlocks(c, fin) \/ ReaderResumes(c, fin)
      PROVE  LockInv'
    BY <1>9 DEF TypeOK, LockInv, ReadData, ReadBlocks, ReaderResumes
<1>10. ASSUME NEW g \in Chan,
             LinkEnds(g) \/ WriterBreaks(g) \/ ReadEof(g) \/ ClearSessions(g)
             \/ ClearUdp(g) \/ ClearPendingOpen(g) \/ ClearPendingUdp(g)
      PROVE  LockInv'
    BY <1>10 DEF TypeOK, LockInv, LinkEnds, WriterBreaks, ReadEof, ClearSessions, ClearUdp,
            ClearPendingOpen, ClearPendingUdp
<1> QED BY <1>1, <1>2, <1>3, <1>4, <1>5, <1>6, <1>7, <1>8, <1>9, <1>10 DEF Next,
          Connect, OpenStep, Pump, Teardown

(* A caller gets a channel when it leaves ensure_mux, and asks with its Open. *)
LEMMA CallerNext ==
    ASSUME TypeOK, CallerInv, MapInv, Next
    PROVE  CallerInv'
<1>1. ASSUME NEW c \in Caller,
             (\E k \in Kind : Begin(c, k)) \/ EnsureKeeps(c) \/ EnsureDials(c)
             \/ (\E g \in Chan : ConnectOk(c, g)) \/ ConnectErr(c) \/ InsertRoute(c)
             \/ InsertWaiter(c)
      PROVE  CallerInv'
    BY <1>1 DEF TypeOK, CallerInv, OnChannel, Unasked, Begin, EnsureKeeps, EnsureDials,
            ConnectOk, ConnectErr, InsertRoute, InsertWaiter
<1>2. ASSUME NEW c \in Caller, SendOpen(c) PROVE CallerInv'
    BY <1>2 DEF TypeOK, CallerInv, OnChannel, Unasked, SendOpen
<1>3. ASSUME NEW c \in Caller, SendFails(c) \/ NoReply(c) PROVE CallerInv'
    BY <1>3 DEF TypeOK, CallerInv, OnChannel, Unasked, SendFails, NoReply
<1>4. ASSUME NEW c \in Caller, GotOk(c) PROVE CallerInv'
    BY <1>4 DEF TypeOK, CallerInv, OnChannel, Unasked, GotOk
<1>5. ASSUME NEW c \in Caller, GotErr(c) \/ UndoWaiter(c) PROVE CallerInv'
    BY <1>5 DEF TypeOK, CallerInv, OnChannel, Unasked, GotErr, Fail, UndoWaiter
<1>6. ASSUME NEW c \in Caller,
             HalfClose(c) \/ UdpPumpEnds(c) \/ DownEnds(c) \/ WriteFails(c)
             \/ PipeDropped(c)
      PROVE  CallerInv'
    BY <1>6 DEF TypeOK, CallerInv, OnChannel, Unasked, HalfClose, UdpPumpEnds, DownEnds,
            WriteFails, PipeDropped
<1>7. ASSUME NEW c \in Caller, ReadOk(c) \/ ReadOpenErr(c) PROVE CallerInv'
    BY <1>7 DEF TypeOK, CallerInv, OnChannel, Unasked, MapInv, ReadOk, Tell, Hears,
            ReadOpenErr
<1>8. ASSUME NEW c \in Caller,
             (\E fin \in BOOLEAN : ReadData(c, fin))
             \/ (\E fin \in BOOLEAN : ReadBlocks(c, fin)) \/ ReadClose(c) \/ ServerReaps(c)
      PROVE  CallerInv'
    BY <1>8 DEF TypeOK, CallerInv, OnChannel, Unasked, ReadData, Later, ReadBlocks,
            ReadClose, ServerReaps
<1>9. ASSUME NEW g \in Chan, LinkEnds(g) PROVE CallerInv'
    BY <1>9 DEF TypeOK, CallerInv, OnChannel, Unasked, LinkEnds
<1>10. ASSUME NEW c \in Caller, NEW fin \in BOOLEAN,
             ReaderResumes(c, fin)
      PROVE  CallerInv'
    BY <1>10 DEF TypeOK, CallerInv, OnChannel, Unasked, ReaderResumes
<1>11. ASSUME NEW g \in Chan,
             WriterBreaks(g) \/ ReadEof(g) \/ ClearSessions(g) \/ ClearUdp(g)
             \/ ClearPendingOpen(g) \/ ClearPendingUdp(g)
      PROVE  CallerInv'
    BY <1>11 DEF TypeOK, CallerInv, OnChannel, Unasked, WriterBreaks, ReadEof,
            ClearSessions, ClearUdp, ClearPendingOpen, ClearPendingUdp
<1> QED BY <1>1, <1>2, <1>3, <1>4, <1>5, <1>6, <1>7, <1>8, <1>9, <1>10, <1>11 DEF Next,
          Connect, OpenStep, Pump, Teardown

(* Every way out of an open removes the entries it made. *)
LEMMA MapNext ==
    ASSUME TypeOK, CallerInv, MapInv, Next
    PROVE  MapInv'
<1>1. ASSUME NEW c \in Caller,
             (\E k \in Kind : Begin(c, k)) \/ EnsureKeeps(c) \/ EnsureDials(c)
             \/ ConnectErr(c)
      PROVE  MapInv'
    BY <1>1 DEF TypeOK, CallerInv, MapInv, Begin, EnsureKeeps, EnsureDials, ConnectErr
<1>2. ASSUME NEW c \in Caller, NEW g \in Chan, ConnectOk(c, g) PROVE MapInv'
    BY <1>2 DEF TypeOK, CallerInv, MapInv, ConnectOk, Unused
<1>3. ASSUME NEW c \in Caller, InsertRoute(c) PROVE MapInv'
    BY <1>3 DEF TypeOK, CallerInv, MapInv, InsertRoute, Add
<1>4. ASSUME NEW c \in Caller, InsertWaiter(c) PROVE MapInv'
    BY <1>4 DEF TypeOK, CallerInv, MapInv, InsertWaiter, Add
<1>5. ASSUME NEW c \in Caller, SendOpen(c) \/ GotOk(c) \/ HalfClose(c) PROVE MapInv'
    BY <1>5 DEF TypeOK, CallerInv, MapInv, SendOpen, GotOk, HalfClose
<1>6. ASSUME NEW c \in Caller, SendFails(c) PROVE MapInv'
    BY <1>6 DEF TypeOK, CallerInv, MapInv, SendFails, RemoveRoute, Remove
<1>7. ASSUME NEW c \in Caller, NoReply(c) PROVE MapInv'
    BY <1>7 DEF TypeOK, CallerInv, MapInv, NoReply, RemoveRoute, Remove
<1>8. ASSUME NEW c \in Caller, GotErr(c) PROVE MapInv'
    BY <1>8 DEF TypeOK, CallerInv, MapInv, GotErr, RemoveRoute, Remove, Fail
<1>9. ASSUME NEW c \in Caller, UndoWaiter(c) PROVE MapInv'
    BY <1>9 DEF TypeOK, CallerInv, MapInv, UndoWaiter, RemoveWaiter, Remove, Fail
<1>10. ASSUME NEW c \in Caller, UdpPumpEnds(c) PROVE MapInv'
    BY <1>10 DEF TypeOK, CallerInv, MapInv, UdpPumpEnds, Remove
<1>11. ASSUME NEW c \in Caller, ReadOk(c) PROVE MapInv'
    BY <1>11 DEF TypeOK, CallerInv, MapInv, ReadOk, Tell, Remove, Hears
<1>12. ASSUME NEW c \in Caller, ReadOpenErr(c) PROVE MapInv'
    BY <1>12 DEF TypeOK, CallerInv, MapInv, ReadOpenErr, Tell, Remove, Hears
<1>13. ASSUME NEW c \in Caller, NEW fin \in BOOLEAN, ReadData(c, fin) PROVE MapInv'
    BY <1>13 DEF TypeOK, CallerInv, MapInv, ReadData, Remove, Hears, Later
<1>14. ASSUME NEW c \in Caller, NEW fin \in BOOLEAN, ReaderResumes(c, fin) PROVE MapInv'
    BY <1>14 DEF TypeOK, CallerInv, MapInv, ReaderResumes, Remove
<1>15. ASSUME NEW c \in Caller, ReadClose(c) PROVE MapInv'
    BY <1>15 DEF TypeOK, CallerInv, MapInv, ReadClose, Remove, Hears, Later
<1>16. ASSUME NEW c \in Caller,
             DownEnds(c) \/ WriteFails(c) \/ PipeDropped(c)
             \/ (\E fin \in BOOLEAN : ReadBlocks(c, fin)) \/ ServerReaps(c)
      PROVE  MapInv'
    BY <1>16 DEF TypeOK, CallerInv, MapInv, DownEnds, WriteFails, PipeDropped, ReadBlocks,
            ServerReaps
<1>17. ASSUME NEW g \in Chan, LinkEnds(g) \/ WriterBreaks(g) \/ ReadEof(g) PROVE MapInv'
    BY <1>17 DEF TypeOK, CallerInv, MapInv, LinkEnds, WriterBreaks, ReadEof
<1>18. ASSUME NEW g \in Chan,
             ClearSessions(g) \/ ClearUdp(g) \/ ClearPendingOpen(g) \/ ClearPendingUdp(g)
      PROVE  MapInv'
    BY <1>18 DEF TypeOK, CallerInv, MapInv, ClearSessions, ClearUdp, ClearPendingOpen,
            ClearPendingUdp
<1> QED BY <1>1, <1>2, <1>3, <1>4, <1>5, <1>6, <1>7, <1>8, <1>9, <1>10, <1>11, <1>12,
          <1>13, <1>14, <1>15, <1>16, <1>17, <1>18 DEF Next, Connect, OpenStep, Pump,
          Teardown

(* A caller that has asked keeps its channel while that lives. *)
LEMMA ReaderNext ==
    ASSUME TypeOK, CallerInv, ReaderInv, Next
    PROVE  ReaderInv'
<1>1. ASSUME NEW c \in Caller,
             (\E k \in Kind : Begin(c, k)) \/ EnsureDials(c) \/ ConnectErr(c)
             \/ InsertRoute(c) \/ InsertWaiter(c) \/ SendFails(c) \/ NoReply(c) \/ GotOk(c)
             \/ HalfClose(c) \/ UdpPumpEnds(c) \/ DownEnds(c) \/ WriteFails(c)
             \/ PipeDropped(c)
      PROVE  ReaderInv'
    BY <1>1 DEF TypeOK, CallerInv, OnChannel, Unasked, ReaderInv, Begin, EnsureDials,
            ConnectErr, InsertRoute, InsertWaiter, SendFails, NoReply, GotOk, HalfClose,
            UdpPumpEnds, DownEnds, WriteFails, PipeDropped
<1>2. ASSUME NEW g \in Chan, WriterBreaks(g) PROVE ReaderInv'
    BY <1>2 DEF TypeOK, CallerInv, OnChannel, Unasked, ReaderInv, WriterBreaks
<1>3. ASSUME NEW c \in Caller, EnsureKeeps(c) PROVE ReaderInv'
    BY <1>3 DEF TypeOK, CallerInv, OnChannel, Unasked, ReaderInv, EnsureKeeps, is_closed
<1>4. ASSUME NEW c \in Caller, NEW g \in Chan, ConnectOk(c, g) PROVE ReaderInv'
    BY <1>4 DEF TypeOK, CallerInv, OnChannel, Unasked, ReaderInv, ConnectOk, Unused
<1>5. ASSUME NEW c \in Caller, SendOpen(c) PROVE ReaderInv'
    BY <1>5 DEF TypeOK, CallerInv, OnChannel, Unasked, ReaderInv, SendOpen
<1>6. ASSUME NEW c \in Caller, GotErr(c) \/ UndoWaiter(c) PROVE ReaderInv'
    BY <1>6 DEF TypeOK, CallerInv, OnChannel, Unasked, ReaderInv, GotErr, Fail, is_closed,
            UndoWaiter
<1>7. ASSUME NEW c \in Caller, ReadOk(c) PROVE ReaderInv'
    BY <1>7, NoFrame DEF TypeOK, CallerInv, OnChannel, Unasked, ReaderInv, ReadOk, Tell,
            Remove, Hears
<1>8. ASSUME NEW c \in Caller, ReadOpenErr(c) PROVE ReaderInv'
    BY <1>8, NoFrame DEF TypeOK, CallerInv, OnChannel, Unasked, ReaderInv, ReadOpenErr,
            Tell, Remove, Hears
<1>9. ASSUME NEW c \in Caller,
             (\E fin \in BOOLEAN : ReadData(c, fin)) \/ ReadClose(c)
      PROVE  ReaderInv'
    BY <1>9, NoFrame DEF TypeOK, CallerInv, OnChannel, Unasked, ReaderInv, ReadData, Remove,
            Hears, Later, ReadClose
<1>10. ASSUME NEW c \in Caller, NEW fin \in BOOLEAN, ReadBlocks(c, fin) PROVE ReaderInv'
    BY <1>10, NoFrame DEF TypeOK, CallerInv, OnChannel, Unasked, ReaderInv, ReadBlocks,
            Hears, Later
<1>11. ASSUME NEW c \in Caller, NEW fin \in BOOLEAN,
             ReaderResumes(c, fin)
      PROVE  ReaderInv'
    BY <1>11, NoFrame DEF TypeOK, CallerInv, OnChannel, Unasked, ReaderInv, ReaderResumes,
            Remove
<1>12. ASSUME NEW c \in Caller, ServerReaps(c) PROVE ReaderInv'
    BY <1>12 DEF TypeOK, CallerInv, OnChannel, Unasked, ReaderInv, ServerReaps
<1>13. ASSUME NEW g \in Chan, LinkEnds(g) PROVE ReaderInv'
    BY <1>13 DEF TypeOK, CallerInv, OnChannel, Unasked, ReaderInv, LinkEnds
<1>14. ASSUME NEW g \in Chan, ReadEof(g) PROVE ReaderInv'
  <2>1. ASSUME NEW c \in Caller, NEW h \in Chan, NEW f \in BOOLEAN, reader[h] = <<c, f>>
        PROVE  h # g
      BY <1>14, <2>1, NoFrame DEF ReadEof
  <2> QED BY <1>14, <2>1 DEF TypeOK, ReaderInv, ReadEof
<1>15. ASSUME NEW g \in Chan,
             ClearSessions(g) \/ ClearUdp(g) \/ ClearPendingOpen(g) \/ ClearPendingUdp(g)
      PROVE  ReaderInv'
    BY <1>15 DEF TypeOK, CallerInv, OnChannel, Unasked, ReaderInv, ClearSessions, ClearUdp,
            ClearPendingOpen, ClearPendingUdp
<1> QED BY <1>1, <1>2, <1>3, <1>4, <1>5, <1>6, <1>7, <1>8, <1>9, <1>10, <1>11, <1>12,
          <1>13, <1>14, <1>15 DEF Next, Connect, OpenStep, Pump, Teardown

(* The route goes only with the channel, the receiver, the FIN or the open. *)
LEMMA KeptNext ==
    ASSUME TypeOK, CallerInv, MapInv, ReaderInv, KeptInv, Next
    PROVE  KeptInv'
<1>1. ASSUME NEW c \in Caller,
             (\E k \in Kind : Begin(c, k)) \/ EnsureKeeps(c) \/ EnsureDials(c)
             \/ ConnectErr(c)
      PROVE  KeptInv'
    BY <1>1 DEF TypeOK, CallerInv, OnChannel, Unasked, MapInv, KeptInv, Begin, EnsureKeeps,
            EnsureDials, ConnectErr
<1>2. ASSUME NEW c \in Caller, NEW g \in Chan, ConnectOk(c, g) PROVE KeptInv'
    BY <1>2 DEF TypeOK, CallerInv, OnChannel, Unasked, MapInv, KeptInv, ConnectOk, Unused
<1>3. ASSUME NEW c \in Caller, InsertRoute(c) PROVE KeptInv'
    BY <1>3 DEF TypeOK, CallerInv, OnChannel, Unasked, MapInv, KeptInv, InsertRoute, Add
<1>4. ASSUME NEW c \in Caller,
             InsertWaiter(c) \/ SendOpen(c) \/ GotOk(c) \/ HalfClose(c)
      PROVE  KeptInv'
    BY <1>4 DEF TypeOK, CallerInv, OnChannel, Unasked, MapInv, KeptInv, InsertWaiter,
            SendOpen, GotOk, HalfClose
<1>5. ASSUME NEW c \in Caller, SendFails(c) PROVE KeptInv'
    BY <1>5 DEF TypeOK, CallerInv, OnChannel, Unasked, MapInv, KeptInv, SendFails,
            RemoveRoute, Remove
<1>6. ASSUME NEW c \in Caller, NoReply(c) PROVE KeptInv'
    BY <1>6 DEF TypeOK, CallerInv, OnChannel, Unasked, MapInv, KeptInv, NoReply,
            RemoveRoute, Remove
<1>7. ASSUME NEW c \in Caller, GotErr(c) PROVE KeptInv'
    BY <1>7 DEF TypeOK, CallerInv, OnChannel, Unasked, MapInv, KeptInv, GotErr, RemoveRoute,
            Remove, Fail
<1>8. ASSUME NEW c \in Caller, UndoWaiter(c) PROVE KeptInv'
    BY <1>8 DEF TypeOK, CallerInv, OnChannel, Unasked, MapInv, KeptInv, UndoWaiter, Fail,
            is_closed
<1>9. ASSUME NEW c \in Caller, UdpPumpEnds(c) PROVE KeptInv'
    BY <1>9 DEF TypeOK, CallerInv, OnChannel, Unasked, MapInv, KeptInv, UdpPumpEnds, Remove
<1>10. ASSUME NEW c \in Caller,
             DownEnds(c) \/ WriteFails(c) \/ PipeDropped(c)
      PROVE  KeptInv'
    BY <1>10 DEF TypeOK, CallerInv, OnChannel, Unasked, MapInv, KeptInv, DownEnds,
            WriteFails, PipeDropped
<1>11. ASSUME NEW g \in Chan, WriterBreaks(g) PROVE KeptInv'
    BY <1>11 DEF TypeOK, CallerInv, OnChannel, Unasked, MapInv, KeptInv, WriterBreaks
<1>12. ASSUME NEW c \in Caller,
             ReadOk(c) \/ ReadOpenErr(c) \/ (\E fin \in BOOLEAN : ReadBlocks(c, fin))
             \/ ServerReaps(c)
      PROVE  KeptInv'
    BY <1>12 DEF TypeOK, CallerInv, OnChannel, Unasked, MapInv, KeptInv, ReadOk, Later,
            ReadOpenErr, ReadBlocks, ServerReaps
<1>13. ASSUME NEW c \in Caller, NEW fin \in BOOLEAN, ReadData(c, fin) PROVE KeptInv'
    BY <1>13 DEF TypeOK, CallerInv, OnChannel, Unasked, MapInv, KeptInv, ReadData, Remove,
            Hears, Later
<1>14. ASSUME NEW c \in Caller, NEW fin \in BOOLEAN,
             ReaderResumes(c, fin)
      PROVE  KeptInv'
    BY <1>14 DEF TypeOK, CallerInv, OnChannel, Unasked, MapInv, KeptInv, ReaderInv,
            ReaderResumes, Remove
<1>15. ASSUME NEW c \in Caller, ReadClose(c) PROVE KeptInv'
    BY <1>15 DEF TypeOK, CallerInv, OnChannel, Unasked, MapInv, KeptInv, ReadClose, Remove,
            Hears, Later
<1>16. ASSUME NEW g \in Chan, LinkEnds(g) PROVE KeptInv'
    BY <1>16 DEF TypeOK, CallerInv, OnChannel, Unasked, MapInv, KeptInv, LinkEnds
<1>17. ASSUME NEW g \in Chan, ReadEof(g) PROVE KeptInv'
    BY <1>17 DEF TypeOK, CallerInv, OnChannel, Unasked, MapInv, KeptInv, ReadEof
<1>18. ASSUME NEW g \in Chan, ClearSessions(g) PROVE KeptInv'
    BY <1>18 DEF TypeOK, CallerInv, OnChannel, Unasked, MapInv, KeptInv, ClearSessions
<1>19. ASSUME NEW g \in Chan, ClearUdp(g) PROVE KeptInv'
    BY <1>19 DEF TypeOK, CallerInv, OnChannel, Unasked, MapInv, KeptInv, ClearUdp
<1>20. ASSUME NEW g \in Chan, ClearPendingOpen(g) \/ ClearPendingUdp(g) PROVE KeptInv'
    BY <1>20 DEF TypeOK, CallerInv, OnChannel, Unasked, MapInv, KeptInv, ClearPendingOpen,
            ClearPendingUdp
<1> QED BY <1>1, <1>2, <1>3, <1>4, <1>5, <1>6, <1>7, <1>8, <1>9, <1>10, <1>11, <1>12,
          <1>13, <1>14, <1>15, <1>16, <1>17, <1>18, <1>19, <1>20 DEF Next, Connect,
          OpenStep, Pump, Teardown

(* After the clear only opens under way insert, and nobody answers them. *)
LEMMA DeadNext ==
    ASSUME TypeOK, LockInv, CallerInv, MapInv, DeadInv, Next
    PROVE  DeadInv'
<1>1. ASSUME NEW c \in Caller,
             (\E k \in Kind : Begin(c, k)) \/ EnsureKeeps(c) \/ EnsureDials(c)
             \/ ConnectErr(c)
      PROVE  DeadInv'
    BY <1>1 DEF TypeOK, CallerInv, OnChannel, MapInv, DeadInv, Begin, EnsureKeeps,
            EnsureDials, ConnectErr
<1>2. ASSUME NEW c \in Caller, NEW g \in Chan, ConnectOk(c, g) PROVE DeadInv'
    BY <1>2 DEF TypeOK, CallerInv, OnChannel, MapInv, DeadInv, ConnectOk, Unused
<1>3. ASSUME NEW c \in Caller, InsertRoute(c) PROVE DeadInv'
    BY <1>3 DEF TypeOK, CallerInv, OnChannel, MapInv, DeadInv, InsertRoute, Add
<1>4. ASSUME NEW c \in Caller, InsertWaiter(c) \/ SendOpen(c) PROVE DeadInv'
    BY <1>4 DEF TypeOK, CallerInv, OnChannel, MapInv, DeadInv, InsertWaiter, SendOpen
<1>5. ASSUME NEW c \in Caller, SendFails(c) PROVE DeadInv'
    BY <1>5 DEF TypeOK, CallerInv, OnChannel, MapInv, DeadInv, SendFails, RemoveRoute,
            Remove
<1>6. ASSUME NEW c \in Caller, NoReply(c) PROVE DeadInv'
    BY <1>6 DEF TypeOK, CallerInv, OnChannel, MapInv, DeadInv, NoReply, RemoveRoute, Remove
<1>7. ASSUME NEW c \in Caller, GotOk(c) PROVE DeadInv'
    BY <1>7 DEF TypeOK, CallerInv, OnChannel, MapInv, DeadInv, GotOk
<1>8. ASSUME NEW c \in Caller, GotErr(c) PROVE DeadInv'
    BY <1>8 DEF TypeOK, CallerInv, OnChannel, MapInv, DeadInv, GotErr, RemoveRoute, Remove,
            Fail
<1>9. ASSUME NEW c \in Caller, UndoWaiter(c) PROVE DeadInv'
    BY <1>9 DEF TypeOK, CallerInv, OnChannel, MapInv, DeadInv, UndoWaiter, Fail
<1>10. ASSUME NEW c \in Caller, HalfClose(c) PROVE DeadInv'
    BY <1>10 DEF TypeOK, CallerInv, OnChannel, MapInv, DeadInv, HalfClose
<1>11. ASSUME NEW c \in Caller, UdpPumpEnds(c) PROVE DeadInv'
    BY <1>11 DEF TypeOK, CallerInv, OnChannel, MapInv, DeadInv, UdpPumpEnds, Remove
<1>12. ASSUME NEW c \in Caller,
             DownEnds(c) \/ WriteFails(c) \/ PipeDropped(c)
             \/ (\E fin \in BOOLEAN : ReadBlocks(c, fin)) \/ ServerReaps(c)
      PROVE  DeadInv'
    BY <1>12 DEF TypeOK, CallerInv, OnChannel, MapInv, DeadInv, DownEnds, WriteFails,
            PipeDropped, ReadBlocks, ServerReaps
<1>13. ASSUME NEW g \in Chan, LinkEnds(g) \/ WriterBreaks(g) PROVE DeadInv'
    BY <1>13 DEF TypeOK, CallerInv, OnChannel, MapInv, DeadInv, LinkEnds, WriterBreaks
<1>14. ASSUME NEW c \in Caller, ReadOk(c) PROVE DeadInv'
    BY <1>14 DEF TypeOK, CallerInv, OnChannel, MapInv, DeadInv, ReadOk, Tell, Remove, Hears
<1>15. ASSUME NEW c \in Caller, ReadOpenErr(c) PROVE DeadInv'
    BY <1>15 DEF TypeOK, CallerInv, OnChannel, MapInv, DeadInv, ReadOpenErr, Tell, Remove,
            Hears
<1>16. ASSUME NEW c \in Caller, NEW fin \in BOOLEAN, ReadData(c, fin) PROVE DeadInv'
    BY <1>16 DEF TypeOK, CallerInv, OnChannel, MapInv, DeadInv, ReadData, Remove, Hears,
            Later
<1>17. ASSUME NEW c \in Caller, NEW fin \in BOOLEAN,
             ReaderResumes(c, fin)
      PROVE  DeadInv'
    BY <1>17 DEF TypeOK, CallerInv, OnChannel, MapInv, DeadInv, ReaderResumes, Remove
<1>18. ASSUME NEW c \in Caller, ReadClose(c) PROVE DeadInv'
    BY <1>18 DEF TypeOK, CallerInv, OnChannel, MapInv, DeadInv, ReadClose, Remove, Hears,
            Later
<1>19. ASSUME NEW g \in Chan, ReadEof(g) PROVE DeadInv'
    BY <1>19 DEF TypeOK, CallerInv, OnChannel, MapInv, DeadInv, ReadEof
<1>20. ASSUME NEW g \in Chan, ClearSessions(g) PROVE DeadInv'
    BY <1>20 DEF TypeOK, CallerInv, OnChannel, MapInv, DeadInv, ClearSessions
<1>21. ASSUME NEW g \in Chan, ClearUdp(g) PROVE DeadInv'
    BY <1>21 DEF TypeOK, CallerInv, OnChannel, MapInv, DeadInv, ClearUdp
<1>22. ASSUME NEW g \in Chan, ClearPendingOpen(g) \/ ClearPendingUdp(g) PROVE DeadInv'
    BY <1>22 DEF TypeOK, CallerInv, OnChannel, MapInv, DeadInv, ClearPendingOpen,
            ClearPendingUdp
<1> QED BY <1>1, <1>2, <1>3, <1>4, <1>5, <1>6, <1>7, <1>8, <1>9, <1>10, <1>11, <1>12,
          <1>13, <1>14, <1>15, <1>16, <1>17, <1>18, <1>19, <1>20, <1>21, <1>22 DEF Next,
          Connect, OpenStep, Pump, Teardown

LEMMA MuxInitially == Init => MuxInv
<1> SUFFICES ASSUME Init PROVE MuxInv
    OBVIOUS
<1>1. TypeOK /\ LockInv
    BY DEF Init, TypeOK, LockInv
<1>2. CallerInv /\ MapInv /\ KeptInv /\ DeadInv
    BY DEF Init, CallerInv, OnChannel, MapInv, KeptInv, DeadInv
<1>3. ReaderInv
    BY NoFrame DEF Init, ReaderInv
<1> QED BY <1>1, <1>2, <1>3 DEF MuxInv

LEMMA MuxInductive == MuxInv /\ [Next]_vars => MuxInv'
<1> SUFFICES ASSUME MuxInv, [Next]_vars PROVE MuxInv'
    OBVIOUS
<1>i. TypeOK /\ LockInv /\ CallerInv /\ MapInv /\ ReaderInv /\ KeptInv /\ DeadInv
    BY DEF MuxInv
<1>1. CASE Next
  <2>1. TypeOK' /\ LockInv' /\ CallerInv' /\ MapInv'
      BY <1>1, <1>i, MuxTypeNext, LockNext, CallerNext, MapNext
  <2>2. ReaderInv' /\ KeptInv' /\ DeadInv'
      BY <1>1, <1>i, ReaderNext, KeptNext, DeadNext
  <2> QED BY <2>1, <2>2 DEF MuxInv
<1>2. CASE UNCHANGED vars
    BY <1>2, MuxStutters
<1> QED BY <1>1, <1>2

-----------------------------------------------------------------------------
(* The invariant of the fallback path: HttpOutbound's slot and lock, the   *)
(* channels, and the four maps of each, as ensure_mux, open_tcp,           *)
(* udp_associate, the reader and teardown_all leave them.                  *)
THEOREM MuxInvariant == Spec => []MuxInv
BY MuxInitially, MuxInductive, PTL DEF Spec

(* ensure_mux never has two living channels: whoever connects holds the    *)
(* lock and saw none, and a living channel is the one in the slot.         *)
THEOREM ThereIsOneChannel == Spec => []OneChannel
<1>1. MuxInv => OneChannel
    BY DEF MuxInv, LockInv, OneChannel
<1> QED BY <1>1, MuxInvariant, PTL

(* A failed open leaves no route and no waiter behind, whatever the reader *)
(* and teardown_all do to the same entries between its steps.              *)
THEOREM FailedOpensLeaveNothing == Spec => []NoLeftovers
<1>1. ASSUME MapInv, NEW g \in Chan, NEW c \in Caller
      PROVE  /\ c \in sessions[g] \cup udp[g] => at[c] = g /\ step[c] \in Attempting \cup {"up", "half"}
             /\ c \in pending_open[g] \cup pending_udp[g] => at[c] = g /\ step[c] \in Attempting
    BY <1>1 DEF MapInv, Attempting
<1>2. MuxInv => NoLeftovers
    BY <1>1 DEF MuxInv, NoLeftovers
<1> QED BY <1>2, MuxInvariant, PTL

(* While the server sends for a session that the user still reads, the     *)
(* reader finds its route, before the OpenOk and after the half-close.     *)
THEOREM ResponsesKeepTheirRoute == Spec => []ResponseKept
<1>1. MuxInv => ResponseKept
    BY DEF MuxInv, KeptInv, ResponseKept
<1> QED BY <1>1, MuxInvariant, PTL

(* teardown_all leaves only the entries of opens under way: an insert that *)
(* came after the clear is undone by its own open, as nobody answers it.   *)
THEOREM DeadChannelsAreEmpty == Spec => []DeadChannelEmpty
<1>1. ASSUME MuxInv, NEW g \in Chan, life[g] = "done", NEW c \in sessions[g] \cup udp[g]
      PROVE  step[c] \in Attempting
  <2>1. c \in Caller
      BY <1>1 DEF MuxInv, TypeOK
  <2> QED BY <1>1, <2>1 DEF MuxInv, DeadInv, Attempting
<1>2. MuxInv => DeadChannelEmpty
    BY <1>1 DEF DeadChannelEmpty
<1> QED BY <1>2, MuxInvariant, PTL
=============================================================================
