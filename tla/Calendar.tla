------------------------------ MODULE Calendar ------------------------------
(***************************************************************************)
(* The arithmetic of parse_http_date (clock.rs), which turns the Date      *)
(* header of the time source into Unix time, against a calendar that is    *)
(* walked month by month through every year the parser accepts.            *)
(***************************************************************************)
EXTENDS Integers

CONSTANT LastYear    \* 9999, the last year the parser accepts

ASSUME CalendarAssumption == LastYear \in Nat \ {0}

VARIABLES
    year, mon,   \* the month the walk has reached
    first_day    \* days from 1 January 1970 to its first

calendarVars == <<year, mon, first_day>>

-----------------------------------------------------------------------------
(* The days of parse_http_date; the code then adds the time of day to      *)
(* days * 86400. The divisions are Rust's; for a year the parser accepts   *)
(* nothing it divides is negative.                                         *)
\* mutant: the last year of a century is taken for a leap year
days_NoCentury(y0, month, day) ==
    LET y   == IF month <= 2 THEN y0 - 1 ELSE y0
        yoe == y % 400
        doy == (153 * ((month + 9) % 12) + 2) \div 5 + day - 1
    IN (y \div 400) * 146097 + yoe * 365 + yoe \div 4 + doy - 719468

days(y0, month, day) ==
    LET y   == IF month <= 2 THEN y0 - 1 ELSE y0
        era == (IF y >= 0 THEN y ELSE y - 399) \div 400
        yoe == y - era * 400
        mp  == (month + 9) % 12
        doy == (153 * mp + 2) \div 5 + day - 1
        doe == yoe * 365 + yoe \div 4 - yoe \div 100 + doy
    IN era * 146097 + doe - 719468

(* What the parser lets through: the day is not checked against the month, *)
(* and :60 is a leap second.                                               *)
Accepted(y, day, h, mi, sec) ==
    /\ y \in 1 .. 9999 /\ day \in 1 .. 31
    /\ h \in 0 .. 23 /\ mi \in 0 .. 59 /\ sec \in 0 .. 60

-----------------------------------------------------------------------------
(* The Gregorian calendar. *)
Leap(y) == (y % 4 = 0 /\ y % 100 # 0) \/ y % 400 = 0
MonthLength(y, m) ==
    CASE m = 2 -> (IF Leap(y) THEN 29 ELSE 28)
      [] m \in {4, 6, 9, 11} -> 30
      [] OTHER -> 31

(* 1 January of the year 1 was 719162 days before 1 January 1970. *)
CalendarInit == year = 1 /\ mon = 1 /\ first_day = 0 - 719162
NextMonth ==
    /\ year < LastYear \/ mon < 12
    /\ year' = IF mon = 12 THEN year + 1 ELSE year
    /\ mon' = IF mon = 12 THEN 1 ELSE mon + 1
    /\ first_day' = first_day + MonthLength(year, mon)

CalendarSpec == CalendarInit /\ [][NextMonth]_calendarVars

(* Every date of the calendar is converted to the number of days that a    *)
(* walk through it counts from 1 January 1970, and none up to the year     *)
(* 9999 is refused.                                                        *)
DateExact ==
    /\ year = 1970 /\ mon = 1 => first_day = 0
    /\ \A d \in 1 .. MonthLength(year, mon) :
         /\ year <= 9999 => Accepted(year, d, 23, 59, 60)
         /\ days(year, mon, d) = first_day + d - 1
=============================================================================
