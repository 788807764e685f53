------------------------------ MODULE Calendar ------------------------------
(***************************************************************************)
(* Dates on both ends: `ics/time.rs` of the plugin and the date functions  *)
(* of the wristband (`loop-core/src/schedule.rs`, `target/clock.rs`).      *)
(* A date is a record of year, month and day; a time of day is kept in     *)
(* minutes.  Integer division rounds as in the code for every operand that *)
(* occurs: the two definitions of `era` round negative years down.         *)
(***************************************************************************)
EXTENDS Integers

CONSTANT UtcOffset           \* hours by which local time is ahead of UTC
ASSUME OffsetAssumption == UtcOffset \in 0..23

MinutesPerDay == 24 * 60

Date(y, m, d) == [y |-> y, m |-> m, d |-> d]

IsLeap(y) == (y % 4 = 0 /\ y % 100 # 0) \/ y % 400 = 0
DaysInYear(y) == IF IsLeap(y) THEN 366 ELSE 365
DaysInMonth(y, m) ==
    IF m \in {4, 6, 9, 11} THEN 30
    ELSE IF m = 2 THEN IF IsLeap(y) THEN 29 ELSE 28
    ELSE 31

\* The dates `ordinal` accepts.
RealDate(date) == date.m \in 1..12 /\ date.d \in 1..DaysInMonth(date.y, date.m)

---------------------------------------------------------------------------
(* The plugin.                                                             *)

\* Days of the year before a month of a common year.
Cumulated == <<0, 31, 59, 90, 120, 151, 181, 212, 243, 273, 304, 334>>
Ordinal(date) == Cumulated[date.m] + date.d + (IF date.m > 2 /\ IsLeap(date.y) THEN 1 ELSE 0)

\* A month's first day in its year, counted from 0, as the loop of
\* date_from_ordinal finds it.
Elapsed(y, m) == Ordinal(Date(y, m, 1)) - 1
DateFromOrdinal(y, ord) ==
    LET m == CHOOSE k \in 1..12 : ord \in Elapsed(y, k) + 1 .. Elapsed(y, k) + DaysInMonth(y, k)
    IN  Date(y, m, ord - Elapsed(y, m))

\* add_days walks whole years until the ordinal lies in one.
YearAndOrdinal[p \in Int \X Int] ==
    LET y == p[1]
        ord == p[2]
    IN  IF ord > DaysInYear(y) THEN YearAndOrdinal[<<y + 1, ord - DaysInYear(y)>>]
        ELSE IF ord <= 0 THEN YearAndOrdinal[<<y - 1, ord + DaysInYear(y - 1)>>]
        ELSE p
AddDays(date, days) ==
    LET p == YearAndOrdinal[<<date.y, Ordinal(date) + days>>] IN DateFromOrdinal(p[1], p[2])

\* Sakamoto's method, with Sunday as 7.
MonthShift == <<0, 3, 2, 5, 0, 3, 5, 1, 4, 6, 2, 4>>
WeekdayIso(date) ==
    LET y == IF date.m < 3 THEN date.y - 1 ELSE date.y
        w == (y + y \div 4 - y \div 100 + y \div 400 + MonthShift[date.m] + date.d) % 7
    IN  IF w = 0 THEN 7 ELSE w

MondayOfWeek(date) == AddDays(date, -(WeekdayIso(date) - 1))

\* Mutant: January and February count to their own year.
GregorianYearDay(date) ==
    LET m == IF date.m <= 2 THEN date.m + 9 ELSE date.m - 3
        era == date.y \div 400
        yoe == date.y - era * 400
        doy == (153 * m + 2) \div 5 + date.d - 1
    IN  era * 146097 + yoe * 365 + yoe \div 4 - yoe \div 100 + doy - 719468

GregorianDay(date) ==
    LET y == IF date.m <= 2 THEN date.y - 1 ELSE date.y
        m == IF date.m <= 2 THEN date.m + 9 ELSE date.m - 3
        era == y \div 400
        yoe == y - era * 400
        doy == (153 * m + 2) \div 5 + date.d - 1
    IN  era * 146097 + yoe * 365 + yoe \div 4 - yoe \div 100 + doy - 719468

DaysBetween(a, b) == GregorianDay(b) - GregorianDay(a)

WeekIndex(term_start, date) ==
    LET delta == DaysBetween(term_start, date) IN IF delta < 0 THEN 0 ELSE delta \div 7 + 1

\* A point in time: a date and the minute of its day.
At(date, minute) == [date |-> date, minute |-> minute]

Carried(dt, minutes) ==
    LET total == dt.minute + minutes
    IN  At(AddDays(dt.date, total \div MinutesPerDay), total % MinutesPerDay)
ShiftHours(dt, hours) == Carried(dt, hours * 60)
AddMinutes(dt, minutes) == Carried(dt, minutes)

\* The derived order of dates, and cmp_key's of points in time.
DateBefore(a, b) == \/ a.y < b.y
                    \/ a.y = b.y /\ a.m < b.m
                    \/ a.y = b.y /\ a.m = b.m /\ a.d < b.d
Before(a, b) == DateBefore(a.date, b.date) \/ (a.date = b.date /\ a.minute < b.minute)

---------------------------------------------------------------------------
(* The wristband.                                                          *)

CivilToDays(year, month, day) ==
    LET y == IF month <= 2 THEN year - 1 ELSE year
        m == IF month <= 2 THEN month + 12 ELSE month
        era == y \div 400
        yoe == y - era * 400
        doy == (153 * (m - 3) + 2) \div 5 + day - 1
        doe == yoe * 365 + yoe \div 4 - yoe \div 100 + doy
    IN  era * 146097 + doe - 719468

\* What the wristband's parse_ymd lets through is wider than RealDate.
ParsesAsDate(date) == date.m \in 1..12 /\ date.d \in 1..31

\* start_date is a date, or one that does not parse.
TermWeek(start_date, local_day) ==
    LET start == CivilToDays(start_date.y, start_date.m, start_date.d)
        week == (local_day - start) \div 7 + 1
    IN  IF ~ParsesAsDate(start_date) \/ local_day < start THEN 0
        ELSE IF week > 255 THEN 255 ELSE week

\* from_unix_seconds, with the seconds counted in whole minutes.  Before the
\* epoch there is no hint.
NoClock == [local_day |-> 0, minute_of_day |-> 0, weekday |-> 0]
FromUnixMinutes(minutes) ==
    LET local == minutes + UtcOffset * 60
        day == local \div MinutesPerDay
    IN  IF local < 0 THEN NoClock
        ELSE [local_day |-> day, minute_of_day |-> local % MinutesPerDay,
              weekday |-> ((day + 3) % 7) + 1]
=============================================================================
