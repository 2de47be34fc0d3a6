-------------------------------- MODULE Clock --------------------------------
(***************************************************************************)
(* The two clocks the server reads. Instant::now is monotonic. now_unix is *)
(* the system clock plus an offset that a background task replaces every   *)
(* hour by what the Date header of an HTTP response says, so it may jump,  *)
(* backwards too.                                                          *)
(*                                                                         *)
(* Source: clock.rs. The system clock is taken to advance with Instant;    *)
(* an operator who sets it is one more way for the offset to change.       *)
(***************************************************************************)
EXTENDS Integers

CONSTANTS
    Start,     \* now_unix when the process starts
    MaxTime,   \* bound: how far time runs
    MaxOffset, \* bound: how far the system clock is off
    MaxBack    \* how far below its highest value a sync may set now_unix back

ASSUME ClockAssumption ==
    /\ Start \in Nat /\ MaxTime \in Nat /\ MaxOffset \in Nat /\ MaxBack \in Nat

VARIABLES
    now,       \* Instant::now, counted from the start of the process
    offset,    \* CLOCK_OFFSET
    high       \* history: the highest value now_unix has had

clock == <<now, offset, high>>

Saturating(n) == IF n < 0 THEN 0 ELSE n

now_unix == Saturating(Start + now + offset)

(* The offset is zero until the first successful sync. *)
ClockInit == now = 0 /\ offset = 0 /\ high = now_unix

Higher == high' = IF now_unix' > high THEN now_unix' ELSE high

Tick ==
    /\ now < MaxTime
    /\ now' = now + 1 /\ UNCHANGED offset
    /\ Higher

(* One of the attempts of a round got a Date header and swaps the offset.  *)
(* A round whose attempts all fail keeps the old one: no step. The sources *)
(* are trusted to agree with each other within MaxBack.                    *)
Sync(o) ==
    /\ offset' = o /\ UNCHANGED now
    /\ now_unix' >= high - MaxBack
    /\ Higher

ClockNext == Tick \/ \E o \in -MaxOffset .. MaxOffset : Sync(o)

ClockTypeOK ==
    /\ now \in 0 .. MaxTime /\ offset \in Int
    /\ high \in Nat /\ now_unix <= high /\ now_unix >= high - MaxBack

=============================================================================
