----------------------------- MODULE TimeFormat -----------------------------
(***************************************************************************)
(* Dates and durations in answers (server/time_format.rs).                 *)
(*                                                                         *)
(* A time is given as days since 1970-01-01 and milliseconds of the day:   *)
(* what the code divides the milliseconds since then into.                 *)
(***************************************************************************)
EXTENDS Integers, Sequences

\* Faulty variant: centuries are leap years.
CivilDateJulian(days) ==
  LET z == days + 719468
      era == z \div 146097
      doe == z - era * 146097
      yoe == (doe - doe \div 1460) \div 365
      doy == doe - (365 * yoe + yoe \div 4)
      mp == (5 * doy + 2) \div 153
      month == mp + (IF mp < 10 THEN 3 ELSE -9)
  IN [year |-> yoe + era * 400 + (IF month <= 2 THEN 1 ELSE 0), month |-> month,
      day |-> doy - (153 * mp + 2) \div 5 + 1]

\* The part of epoch_ms_to_rfc3339 that computes the date.
CivilDate(days) ==
  LET z == days + 719468
      era == (IF z >= 0 THEN z ELSE z - 146096) \div 146097
      doe == z - era * 146097
      yoe == (doe - doe \div 1460 + doe \div 36524 - doe \div 146096) \div 365
      doy == doe - (365 * yoe + yoe \div 4 - yoe \div 100)
      mp == (5 * doy + 2) \div 153
      month == mp + (IF mp < 10 THEN 3 ELSE -9)
  IN [year |-> yoe + era * 400 + (IF month <= 2 THEN 1 ELSE 0), month |-> month,
      day |-> doy - (153 * mp + 2) \div 5 + 1]

\* Hours, minutes, seconds and the fraction of the last one.
ClockTime(ms) ==
  LET secs == ms \div 1000
  IN <<secs \div 3600, (secs % 3600) \div 60, secs % 60, ms % 1000>>

\* A duration is written as numbers with units, without those that are 0.
ms_to_vault_duration(ms) ==
  LET t == ClockTime(ms)
      Part(n, unit, shown) == IF shown THEN <<[n |-> n, unit |-> unit]>> ELSE <<>>
  IN Part(t[1], "h", t[1] > 0) \o Part(t[2], "m", t[2] > 0)
     \o Part(t[3], "s", t[3] > 0 \/ (t[1] = 0 /\ t[2] = 0))

\* A number without a unit can only be the last; -1 stands for an error.
Unit == [h |-> 3600000, m |-> 60000, s |-> 1000]
parse_vault_duration(parts) ==
  LET Sum[i \in 0..Len(parts)] ==
        IF i = 0 THEN 0 ELSE Sum[i - 1] + parts[i].n * Unit[parts[i].unit]
  IN IF \E i \in DOMAIN parts : parts[i].unit \notin DOMAIN Unit THEN -1 ELSE Sum[Len(parts)]

-----------------------------------------------------------------------------
(* The Gregorian calendar, as a clock that counts days.                    *)

CONSTANT Years      \* the years whose days are counted

VARIABLES days, date

Leap(y) == y % 4 = 0 /\ (y % 100 # 0 \/ y % 400 = 0)
MonthLength(y, m) == IF m = 2 THEN IF Leap(y) THEN 29 ELSE 28
                     ELSE IF m \in {4, 6, 9, 11} THEN 30 ELSE 31

\* The leap years before y.
Leaps(y) == (y - 1) \div 4 - (y - 1) \div 100 + (y - 1) \div 400

CalendarInit == \E y \in Years : /\ days = 365 * (y - 1970) + Leaps(y) - Leaps(1970)
                                 /\ date = [year |-> y, month |-> 1, day |-> 1]

NextDay ==
  /\ ~ (date.month = 12 /\ date.day = 31)
  /\ days' = days + 1
  /\ date' = IF date.day < MonthLength(date.year, date.month) THEN [date EXCEPT !.day = @ + 1]
             ELSE [date EXCEPT !.month = @ + 1, !.day = 1]

-----------------------------------------------------------------------------
(* Properties.                                                             *)

\* Written and read again, a duration is the same up to the fraction of a second.
Round(ms) ==
  LET t == ClockTime(ms)
  IN /\ parse_vault_duration(ms_to_vault_duration(ms)) = ms - (ms % 1000)
     /\ ms_to_vault_duration(ms) # <<>>
     /\ ((t[1] * 60 + t[2]) * 60 + t[3]) * 1000 + t[4] = ms /\ t[2] < 60 /\ t[3] < 60 /\ t[4] < 1000

\* The date shown for a day is its date in the Gregorian calendar, across leap
\* years, centuries and the 400-year cycle (epoch_ms_to_rfc3339); durations and
\* times of the day lose nothing but fractions of a second.
TimesAreRight ==
  /\ CivilDate(days) = date
  /\ \A d \in {0, 1, 23} : Round((d * 86400 + (days % 86400)) * 1000 + (days % 1000))
=============================================================================
