----------------------------- MODULE MCStartup ------------------------------
(***************************************************************************)
(* What happens before a connection carries sessions: options are merged,  *)
(* the clock reads a date, the two sides agree on a frame limit, and the   *)
(* first target is judged. None of them shares state with another, so a    *)
(* behaviour follows one of them.                                          *)
(***************************************************************************)
EXTENDS FrameChannel, ConfigArgs, Calendar, EgressPolicy

VARIABLE subject     \* the one this behaviour follows

startupVars == <<subject, frameVars, configVars, calendarVars, egressVars>>

Init ==
    /\ subject \in {"frames", "options", "dates", "targets"}
    /\ FrameInit /\ ConfigInit /\ CalendarInit /\ EgressInit
    /\ subject = "frames" \/ (transport = "wt" /\ max = [s \in Side |-> Floor])
    /\ subject = "options" \/ where = "default"

Frames == subject = "frames" /\ FrameNext /\ UNCHANGED <<configVars, calendarVars, egressVars>>
Options == subject = "options" /\ ConfigNext /\ UNCHANGED <<frameVars, calendarVars, egressVars>>
Dates == subject = "dates" /\ NextMonth /\ UNCHANGED <<frameVars, configVars, egressVars>>
Targets == subject = "targets" /\ EgressNext /\ UNCHANGED <<frameVars, configVars, calendarVars>>

Next == (Frames \/ Options \/ Dates \/ Targets) /\ UNCHANGED subject
Spec == Init /\ [][Next]_startupVars
=============================================================================
