--------------------------- MODULE TimetableProofs ---------------------------
(***************************************************************************)
(* What the wrist shows is what the file says, for every file.  First the  *)
(* calendars of plugin and wristband agree with the wall on every day of   *)
(* every year.  The walk knows only the lengths of the months; the         *)
(* formulas are reduced to one shape (MarchDays, and a fixed offset per    *)
(* month), whose value grows by the length of the year.  Then the way of a *)
(* lesson: from the text to an event on dates that exist, to the weeks it  *)
(* is repeated in, into the map of keys and weeks, compressed, listed, and *)
(* found again by the wristband in the week and on the weekday it counts.  *)
(***************************************************************************)
EXTENDS Timetable, FiniteSetTheorems, TLAPS

\* The day number of the first of March, and the days from it to a month.
MarchDays(y) == 365 * y + y \div 4 - y \div 100 + y \div 400 - 719468
MarchYear(y, m) == IF m <= 2 THEN y - 1 ELSE y
SinceMarch == <<306, 337, 0, 31, 61, 92, 122, 153, 184, 214, 245, 275>>
\* How far MonthShift is from it, in whole weeks.
WholeWeeks == <<43, 47, 0 - 1, 3, 8, 12, 16, 21, 25, 29, 34, 38>>
DayNumber(y, m, d) == MarchDays(MarchYear(y, m)) + SinceMarch[m] + d - 1

---------------------------------------------------------------------------
(* Division                                                                *)

LEMMA DivBy4 == ASSUME NEW a \in Int, NEW k \in Int PROVE (4 * k + a) \div 4 = k + a \div 4
  BY Z3
LEMMA DivBy100 == ASSUME NEW a \in Int, NEW k \in Int PROVE (100 * k + a) \div 100 = k + a \div 100
  BY Z3

\* A year begins a new block of 4, 100 or 400 exactly when it is divisible.
LEMMA LeapSteps ==
  ASSUME NEW y \in Int
  PROVE  /\ y \div 4 = (y - 1) \div 4 + (IF y % 4 = 0 THEN 1 ELSE 0)
         /\ y \div 100 = (y - 1) \div 100 + (IF y % 100 = 0 THEN 1 ELSE 0)
         /\ y \div 400 = (y - 1) \div 400 + (IF y % 400 = 0 THEN 1 ELSE 0)
  BY Z3
LEMMA Centuries == ASSUME NEW y \in Int PROVE (y % 400 = 0 => y % 100 = 0) /\ (y % 100 = 0 => y % 4 = 0)
  BY Z3

\* The day of the week, counted from 1 with Sunday as 7.
LEMMA WeekdayShift ==
  ASSUME NEW s \in Int, NEW n \in Int
  PROVE  ((s - 1 + 7 * n) % 7) + 1 = IF s % 7 = 0 THEN 7 ELSE s % 7
  BY Z3

---------------------------------------------------------------------------
(* The formulas, with the era taken out                                    *)

LEMMA EraSum ==
  ASSUME NEW y \in Int
  PROVE  LET e == y \div 400
             r == y - e * 400
         IN  e * 146097 + r * 365 + r \div 4 - r \div 100 - 719468 = MarchDays(y)
<1> DEFINE e == y \div 400
           r == y - e * 400
<1>1. e \in Int /\ r \in Int
  OBVIOUS
<1>2. y = 4 * (100 * e) + r /\ y = 100 * (4 * e) + r
  BY <1>1
<1>3. y \div 4 = 100 * e + r \div 4
  BY <1>1, <1>2, DivBy4
<1>4. y \div 100 = 4 * e + r \div 100
  BY <1>1, <1>2, DivBy100
<1> QED
  BY <1>1, <1>3, <1>4 DEF MarchDays

LEMMA MonthOffsets ==
  ASSUME NEW m \in 1..12
  PROVE  /\ SinceMarch[m] \in Int
         /\ (153 * (IF m <= 2 THEN m + 9 ELSE m - 3) + 2) \div 5 = SinceMarch[m]
         /\ (153 * ((IF m <= 2 THEN m + 12 ELSE m) - 3) + 2) \div 5 = SinceMarch[m]
<1>1. CASE m \in {1, 2, 3, 4, 5, 6}
  BY <1>1 DEF SinceMarch
<1>2. CASE m \in {7, 8, 9, 10, 11, 12}
  BY <1>2 DEF SinceMarch
<1> QED
  BY <1>1, <1>2

LEMMA CivilFormula ==
  ASSUME NEW y \in Int, NEW m \in 1..12, NEW d \in Int
  PROVE  CivilToDays(y, m, d) = DayNumber(y, m, d)
<1>1. MarchYear(y, m) \in Int
  BY DEF MarchYear
<1> QED
  BY <1>1, EraSum, MonthOffsets DEF CivilToDays, DayNumber, MarchYear, MarchDays

LEMMA GregorianFormula ==
  ASSUME NEW y \in Int, NEW m \in 1..12, NEW d \in Int
  PROVE  GregorianDay(Date(y, m, d)) = DayNumber(y, m, d)
<1>1. MarchYear(y, m) \in Int
  BY DEF MarchYear
<1> QED
  BY <1>1, EraSum, MonthOffsets DEF GregorianDay, Date, DayNumber, MarchYear, MarchDays

\* Both ends number the days alike.
LEMMA SameDayNumber ==
  ASSUME NEW y \in Int, NEW m \in 1..12, NEW d \in Int
  PROVE  GregorianDay(Date(y, m, d)) = CivilToDays(y, m, d)
BY CivilFormula, GregorianFormula

---------------------------------------------------------------------------
(* One day later                                                           *)

LEMMA YearLength ==
  ASSUME NEW y \in Int
  PROVE  MarchDays(y) = MarchDays(y - 1) + DaysInYear(y)
<1>1. /\ y \div 4 \in Int /\ y \div 100 \in Int /\ y \div 400 \in Int
      /\ (y - 1) \div 4 \in Int /\ (y - 1) \div 100 \in Int /\ (y - 1) \div 400 \in Int
  OBVIOUS
<1>2. MarchDays(y) - MarchDays(y - 1) = 365 + (IF y % 4 = 0 THEN 1 ELSE 0) - (IF y % 100 = 0 THEN 1 ELSE 0)
                                            + (IF y % 400 = 0 THEN 1 ELSE 0)
  BY <1>1, LeapSteps DEF MarchDays
<1>3. DaysInYear(y) = 365 + (IF y % 4 = 0 THEN 1 ELSE 0) - (IF y % 100 = 0 THEN 1 ELSE 0)
                          + (IF y % 400 = 0 THEN 1 ELSE 0)
  BY Centuries DEF DaysInYear, IsLeap
<1>4. MarchDays(y) \in Int /\ MarchDays(y - 1) \in Int
  BY <1>1 DEF MarchDays
<1> QED
  BY <1>2, <1>3, <1>4

LEMMA MonthLengths ==
  ASSUME NEW y, NEW m \in 1..12
  PROVE  /\ m \in {1, 3, 5, 7, 8, 10, 12} => DaysInMonth(y, m) = 31
         /\ m \in {4, 6, 9, 11} => DaysInMonth(y, m) = 30
         /\ m = 2 => DaysInMonth(y, m) = DaysInYear(y) - 337
         /\ DaysInMonth(y, m) \in 28..31
<1>1. CASE m \in {1, 3, 5, 7, 8, 10, 12}
  BY <1>1 DEF DaysInMonth
<1>2. CASE m \in {4, 6, 9, 11}
  BY <1>2 DEF DaysInMonth
<1>3. CASE m = 2
  BY <1>3 DEF DaysInMonth, DaysInYear
<1> QED
  BY <1>1, <1>2, <1>3

LEMMA NextDateCounts ==
  ASSUME NEW y \in Nat \ {0}, NEW m \in 1..12, NEW d \in 1 .. DaysInMonth(y, m)
  PROVE  LET n == NextDate(Date(y, m, d))
         IN  /\ n = Date(n.y, n.m, n.d) /\ n.y \in Nat \ {0} /\ RealDate(n)
             /\ CivilToDays(n.y, n.m, n.d) = CivilToDays(y, m, d) + 1
<1> DEFINE n == NextDate(Date(y, m, d))
<1>0. /\ DaysInMonth(y, m) \in 28..31 /\ d \in Int
      /\ \A k \in 1..12 : DaysInMonth(y, k) \in 28..31
      /\ DaysInMonth(y + 1, 1) \in 28..31
  BY MonthLengths
<1>1. CASE d < DaysInMonth(y, m)
  <2>1. n = Date(y, m, d + 1)
    BY <1>1 DEF NextDate, Date
  <2>2. CivilToDays(y, m, d + 1) = CivilToDays(y, m, d) + 1
    <3>1. MarchDays(MarchYear(y, m)) \in Int /\ SinceMarch[m] \in Int
      BY MonthOffsets DEF MarchDays, MarchYear
    <3>2. CivilToDays(y, m, d) = DayNumber(y, m, d) /\ CivilToDays(y, m, d + 1) = DayNumber(y, m, d + 1)
      BY <1>0, CivilFormula
    <3>3. DayNumber(y, m, d + 1) = DayNumber(y, m, d) + 1
      BY <3>1, <1>0 DEF DayNumber
    <3> QED
      BY <3>2, <3>3
  <2> QED
    BY <1>0, <1>1, <2>1, <2>2 DEF Date, RealDate
<1>2. CASE d = DaysInMonth(y, m) /\ m < 12
  <2>1. n = Date(y, m + 1, 1) /\ m + 1 \in 1..12
    BY <1>2, <1>0 DEF NextDate, Date
  <2>2. DayNumber(y, m + 1, 1) = DayNumber(y, m, d) + 1
    <3>1. MarchDays(y) \in Int /\ MarchDays(y - 1) \in Int
      BY DEF MarchDays
    <3>2. CASE m = 2
      <4>1. d = DaysInYear(y) - 337
        BY <1>2, <3>2, MonthLengths
      <4>2. DayNumber(y, 3, 1) = MarchDays(y) /\ DayNumber(y, 2, d) = MarchDays(y - 1) + 337 + d - 1
        BY <3>1, <1>0 DEF DayNumber, MarchYear, SinceMarch
      <4>3. DaysInYear(y) \in Int
        BY DEF DaysInYear
      <4> QED
        BY <4>1, <4>2, <4>3, <3>1, <3>2, YearLength
    <3>3. CASE m = 1
      BY <1>2, <3>1, <3>3, MonthLengths DEF DayNumber, MarchYear, SinceMarch
    <3>4. CASE m \in {3, 5, 7, 8, 10}
      BY <1>2, <3>1, <3>4, MonthLengths DEF DayNumber, MarchYear, SinceMarch
    <3>5. CASE m \in {4, 6, 9, 11}
      BY <1>2, <3>1, <3>5, MonthLengths DEF DayNumber, MarchYear, SinceMarch
    <3> QED
      BY <1>2, <3>2, <3>3, <3>4, <3>5
  <2>3. n.y = y /\ n.m = m + 1 /\ n.d = 1
    BY <2>1 DEF Date
  <2>4. RealDate(n)
    BY <2>1, <2>3, <1>0 DEF RealDate
  <2>5. CivilToDays(y, m + 1, 1) = CivilToDays(y, m, d) + 1
    BY <2>1, <2>2, <1>0, CivilFormula
  <2> QED
    BY <2>1, <2>3, <2>4, <2>5
<1>3. CASE d = DaysInMonth(y, m) /\ m = 12
  <2>1. n = Date(y + 1, 1, 1) /\ d = 31
    BY <1>3, <1>0, MonthLengths DEF NextDate, Date
  <2>2. DayNumber(y + 1, 1, 1) = DayNumber(y, 12, 31) + 1
    <3>1. MarchDays(y) \in Int
      BY DEF MarchDays
    <3>2. MarchYear(y + 1, 1) = y /\ MarchYear(y, 12) = y
      BY DEF MarchYear
    <3> QED
      BY <3>1, <3>2 DEF DayNumber, SinceMarch
  <2>3. n.y = y + 1 /\ n.m = 1 /\ n.d = 1
    BY <2>1 DEF Date
  <2>4. RealDate(n)
    BY <2>3, <1>0 DEF RealDate
  <2>5. CivilToDays(y + 1, 1, 1) = CivilToDays(y, 12, 31) + 1
    BY <2>2, CivilFormula
  <2> QED
    BY <2>1, <2>3, <2>4, <2>5, <1>3
<1> QED
  BY <1>0, <1>1, <1>2, <1>3

---------------------------------------------------------------------------
(* Days of the week                                                        *)

LEMMA WeekdayArithmetic ==
  ASSUME NEW c \in Int, NEW q \in Int, NEW shift \in Int, NEW w \in Int, NEW d \in Int,
         NEW march \in Int, march = shift + 5 + 7 * w,
         NEW s \in Int, s = c + q + shift + d,
         NEW civil, civil = 365 * c + q - 719468 + march + d - 1
  PROVE  civil + 3 = s - 1 + 7 * (52 * c - 102780 + w)
BY Z3

LEMMA WeekdayFollows ==
  ASSUME NEW y \in Int, NEW m \in 1..12, NEW d \in Int
  PROVE  WeekdayIso(Date(y, m, d)) = ((CivilToDays(y, m, d) + 3) % 7) + 1
<1> DEFINE c == MarchYear(y, m)
           q == c \div 4 - c \div 100 + c \div 400
           s == c + c \div 4 - c \div 100 + c \div 400 + MonthShift[m] + d
<1>1. c \in Int /\ q \in Int /\ MonthShift[m] \in Int /\ SinceMarch[m] \in Int /\ s \in Int
  BY MonthOffsets DEF MarchYear, MonthShift
<1>2. WholeWeeks[m] \in Int /\ SinceMarch[m] = MonthShift[m] + 5 + 7 * WholeWeeks[m]
  <2>1. CASE m \in {1, 2, 3, 4, 5, 6}
    BY <2>1 DEF SinceMarch, MonthShift, WholeWeeks
  <2>2. CASE m \in {7, 8, 9, 10, 11, 12}
    BY <2>2 DEF SinceMarch, MonthShift, WholeWeeks
  <2> QED
    BY <2>1, <2>2
<1> DEFINE n == 52 * c - 102780 + WholeWeeks[m]
<1>3. n \in Int
  BY <1>1, <1>2
<1>4. CivilToDays(y, m, d) + 3 = s - 1 + 7 * n
  <2>1. CivilToDays(y, m, d) = MarchDays(c) + SinceMarch[m] + d - 1
    BY CivilFormula DEF DayNumber
  <2>2. MarchDays(c) = 365 * c + q - 719468
    BY <1>1 DEF MarchDays
  <2>3. s = c + q + MonthShift[m] + d
    BY <1>1
  <2> HIDE DEF c, q, s
  <2>4. CivilToDays(y, m, d) = 365 * c + q - 719468 + SinceMarch[m] + d - 1
    BY <2>1, <2>2, SMT
  <2> QED
    BY <1>1, <1>2, <2>3, <2>4, WeekdayArithmetic
<1>5. WeekdayIso(Date(y, m, d)) = IF s % 7 = 0 THEN 7 ELSE s % 7
  BY DEF WeekdayIso, Date, MarchYear
<1> HIDE DEF n, s
<1>6. ((s - 1 + 7 * n) % 7) + 1 = IF s % 7 = 0 THEN 7 ELSE s % 7
  BY <1>1, <1>3, WeekdayShift
<1> QED
  BY <1>4, <1>5, <1>6

---------------------------------------------------------------------------
(* The clock                                                               *)

LEMMA ClockOfMinutes ==
  ASSUME NEW n \in Nat, NEW m \in 0 .. MinutesPerDay - 1
  PROVE  FromUnixMinutes(n * MinutesPerDay + m - UtcOffset * 60)
         = [local_day |-> n, minute_of_day |-> m, weekday |-> ((n + 3) % 7) + 1]
<1> DEFINE utc == n * MinutesPerDay + m - UtcOffset * 60
           local == utc + UtcOffset * 60
<1>1. local = n * 1440 + m /\ local \in Nat
  BY OffsetAssumption DEF MinutesPerDay
<1>2. local \div 1440 = n /\ local % 1440 = m
  <2>1. m \in 0..1439
    BY DEF MinutesPerDay
  <2> HIDE DEF local
  <2> QED
    BY <1>1, <2>1, Z3
<1>3. FromUnixMinutes(utc) = [local_day |-> n, minute_of_day |-> m, weekday |-> ((n + 3) % 7) + 1]
  <2> HIDE DEF utc
  <2> QED
    BY <1>1, <1>2 DEF FromUnixMinutes, MinutesPerDay
<1> QED
  BY <1>3

LEMMA ClockReads ==
  ASSUME day \in Nat, minute \in 0 .. MinutesPerDay - 1
  PROVE  Clock = [local_day |-> day, minute_of_day |-> minute, weekday |-> ((day + 3) % 7) + 1]
BY ClockOfMinutes DEF Clock

---------------------------------------------------------------------------
(* The walk                                                                *)

\* What every step of the wall preserves: it shows a date, and the number of
\* its days is the one both ends compute.
WallAgrees ==
    /\ import \in Imports
    /\ date = Date(date.y, date.m, date.d) /\ date.y \in Nat \ {0} /\ RealDate(date)
    /\ day = CivilToDays(date.y, date.m, date.d) /\ day \in Nat
    /\ minute \in 0 .. MinutesPerDay - 1

LEMMA WallStart == Init => WallAgrees
BY ImportsAssumption DEF Init, WallAgrees, MinutesPerDay

LEMMA WallStep == WallAgrees /\ [Next]_vars => WallAgrees'
<1> SUFFICES ASSUME WallAgrees, [Next]_vars
             PROVE  WallAgrees'
  OBVIOUS
<1>1. CASE Import
  BY <1>1 DEF Import, WallAgrees, wall
<1>2. CASE \E m \in Minutes : Pass(m)
  <2>1. minute' \in 0 .. MinutesPerDay - 1
    BY <1>2, SpanAssumption DEF Pass
  <2> QED
    BY <1>2, <2>1 DEF Pass, WallAgrees
<1>3. CASE Midnight
  <2>1. /\ date.m \in 1..12 /\ date.d \in 1 .. DaysInMonth(date.y, date.m) /\ date.y \in Nat \ {0}
        /\ date = Date(date.y, date.m, date.d)
    BY DEF WallAgrees, RealDate
  <2>2. date' = NextDate(date) /\ day' = day + 1 /\ minute' = 0 /\ import' = import
    BY <1>3 DEF Midnight
  <2> DEFINE n == NextDate(Date(date.y, date.m, date.d))
  <2>3. /\ n = Date(n.y, n.m, n.d) /\ n.y \in Nat \ {0} /\ RealDate(n)
        /\ CivilToDays(n.y, n.m, n.d) = CivilToDays(date.y, date.m, date.d) + 1
    BY <2>1, NextDateCounts
  <2>4. date' = n
    BY <2>1, <2>2
  <2> HIDE DEF n
  <2>5. day = CivilToDays(date.y, date.m, date.d) /\ day \in Nat /\ import \in Imports
    BY DEF WallAgrees
  <2> QED
    BY <2>2, <2>3, <2>4, <2>5 DEF WallAgrees, MinutesPerDay
<1>4. CASE UNCHANGED vars
  BY <1>4 DEF vars, wall, WallAgrees
<1> QED
  BY <1>1, <1>2, <1>3, <1>4 DEF Next

LEMMA WallShows == WallAgrees => CalendarsAgree
<1> SUFFICES ASSUME WallAgrees
             PROVE  CalendarsAgree
  OBVIOUS
<1>1. /\ date.m \in 1..12 /\ date.y \in Int /\ date.d \in Int
      /\ date = Date(date.y, date.m, date.d)
  BY DEF WallAgrees, RealDate
<1>2. day = CivilToDays(date.y, date.m, date.d) /\ day \in Nat /\ minute \in 0 .. MinutesPerDay - 1
  BY DEF WallAgrees
<1>3. GregorianDay(date) = day
  BY <1>1, <1>2, SameDayNumber
<1>4. WeekdayIso(date) = ((day + 3) % 7) + 1
  BY <1>1, <1>2, WeekdayFollows
<1> QED
  BY <1>2, <1>3, <1>4, ClockReads DEF CalendarsAgree

\* On every day a walk of any length reaches, from any date of the import on,
\* the day numbers of plugin and wristband are the wall's, and so are the
\* wristband's clock and the plugin's weekday.
THEOREM CalendarsAlwaysAgree == Spec => []CalendarsAgree
<1>1. Spec => []WallAgrees
  BY WallStart, WallStep, PTL DEF Spec
<1> QED
  BY <1>1, WallShows, PTL

\* What valid_import leaves of a course's numbers.
LEMMA ValidCourseTypes ==
    ASSUME NEW c, FitsTypes(c), ValidCourse(c)
    PROVE  /\ c.weekday \in 1..7
           /\ c.start_min \in Nat /\ c.end_min \in c.start_min + 1 .. MinutesPerDay
           /\ c.weeks_start \in 1..255 /\ c.weeks_end \in c.weeks_start .. 255
           /\ c.week_interval \in 1..255
<1>1. /\ c.weeks_start \in Byte /\ c.weeks_end \in Byte /\ c.week_interval \in Byte
      /\ c.start_min \in Halfword /\ c.end_min \in Halfword
  BY DEF FitsTypes
<1>2. /\ c.weekday \in 1..7 /\ c.start_min < c.end_min /\ c.end_min <= MinutesPerDay
      /\ c.weeks_start > 0 /\ c.weeks_start <= c.weeks_end /\ c.week_interval > 0
  BY DEF ValidCourse
<1>3. ASSUME NEW a \in Halfword, NEW b \in Halfword, a < b, b <= MinutesPerDay
      PROVE  a \in Nat /\ b \in a + 1 .. MinutesPerDay
  <2>1. a \in Nat /\ b \in Nat
    BY DEF Halfword
  <2> QED
    BY <1>3, <2>1 DEF MinutesPerDay
<1>4. c.start_min \in Nat /\ c.end_min \in c.start_min + 1 .. MinutesPerDay
  BY <1>1, <1>2, <1>3, Zenon
<1> QED
  BY <1>1, <1>2, <1>4 DEF Byte

\* A schedule on the wrist passed valid_import, so that the views can count
\* with its days, times and weeks; the wall shows a date that exists.
THEOREM TimetableTypes == Spec => []TimetableTypeOK
<1> DEFINE Accepted == schedule = NoSchedule \/ ValidImport(schedule)
<1>1. Init => Accepted
  BY DEF Init
<1>2. Accepted /\ [Next]_vars => Accepted'
  <2>1. Import => ValidImport(schedule')
    BY DEF Import
  <2>2. Midnight \/ (\E m \in Minutes : Pass(m)) \/ UNCHANGED vars => UNCHANGED schedule
    BY DEF Pass, Midnight, vars
  <2> HIDE DEF Accepted
  <2>3. Import => Accepted'
    BY <2>1 DEF Accepted
  <2>4. Accepted /\ UNCHANGED schedule => Accepted'
    BY DEF Accepted
  <2> QED
    BY <2>2, <2>3, <2>4 DEF Next
<1>3. Accepted /\ WallAgrees => TimetableTypeOK
  <2>2. CASE schedule = NoSchedule
    <3>1. DOMAIN schedule.courses = {}
      BY <2>2 DEF NoSchedule
    <3> QED
      BY <3>1, Zenon DEF WallAgrees, TimetableTypeOK
  <2>3. CASE ValidImport(schedule)
    <3>1. ASSUME NEW i \in DOMAIN schedule.courses
          PROVE  FitsTypes(schedule.courses[i]) /\ ValidCourse(schedule.courses[i])
      BY <2>3, Zenon DEF ValidImport
    <3> QED
      BY ValidCourseTypes, <3>1, Zenon DEF WallAgrees, TimetableTypeOK
  <2> QED
    BY <2>2, <2>3
<1> HIDE DEF Accepted
<1> QED
  BY <1>1, <1>2, <1>3, WallStart, WallStep, PTL DEF Spec

---------------------------------------------------------------------------
(* Least and greatest elements                                             *)

\* Least and greatest numbers of a set exist.
LEMMA LeastNat ==
  ASSUME NEW S, S \subseteq Nat, S # {}
  PROVE  \E x \in S : \A y \in S : x <= y
<1> DEFINE Below == {ss \in Nat \X Nat : ss[1] < ss[2]}
<1>0. IsWellFoundedOn(Below, Nat)
  BY NatLessThanWellFounded, Zenon DEF OpToRel
<1>1. PICK x \in S : \A y \in S : ~(<<y, x>> \in Below)
  <2> HIDE DEF Below
  <2> QED
    BY <1>0, WFMin
<1>2. ASSUME NEW y \in S
      PROVE  x <= y
  <2>1. <<y, x>> \notin Below
    BY <1>1, Zenon
  <2>2. x \in Nat /\ y \in Nat
    OBVIOUS
  <2>3. ~(y < x)
    BY <2>1, <2>2
  <2> QED
    BY <2>2, <2>3
<1> QED
  BY <1>2

LEMMA LeastInt ==
  ASSUME NEW S, S \subseteq Int, S # {}, NEW b \in Int, \A y \in S : b <= y
  PROVE  \E x \in S : \A y \in S : x <= y
<1> DEFINE T == {n \in Nat : b + n \in S}
<1>1. T # {}
  <2>1. PICK y \in S : TRUE
    OBVIOUS
  <2>2. y - b \in Nat /\ b + (y - b) = y
    BY <2>1
  <2> QED
    BY <2>2
<1>2. PICK n \in T : \A k \in T : n <= k
  <2> HIDE DEF T
  <2>1. T \subseteq Nat
    BY DEF T
  <2> QED
    BY <1>1, <2>1, LeastNat
<1>3. ASSUME NEW y \in S
      PROVE  b + n <= y
  <2>1. y - b \in Nat /\ b + (y - b) = y
    OBVIOUS
  <2>2. y - b \in T
    BY <2>1
  <2> QED
    BY <1>2, <2>1, <2>2
<1> QED
  BY <1>2, <1>3

LEMMA GreatestInt ==
  ASSUME NEW S, S \subseteq Int, S # {}, NEW b \in Int, \A y \in S : y <= b
  PROVE  \E x \in S : \A y \in S : y <= x
<1> DEFINE T == {n \in Int : 0 - n \in S}
<1>1. T \subseteq Int /\ \A n \in T : 0 - b <= n
  <2>1. ASSUME NEW n \in T
        PROVE  0 - b <= n
    <3>1. 0 - n \in S /\ n \in Int
      OBVIOUS
    <3> QED
      BY <3>1
  <2> QED
    BY <2>1
<1>2. T # {}
  <2>1. PICK y \in S : TRUE
    OBVIOUS
  <2>2. 0 - y \in Int /\ 0 - (0 - y) = y
    BY <2>1
  <2> QED
    BY <2>2
<1>3. PICK n \in T : \A k \in T : n <= k
  <2> HIDE DEF T
  <2>1. 0 - b \in Int
    OBVIOUS
  <2> QED
    BY <1>1, <1>2, <2>1, LeastInt
<1>4. ASSUME NEW y \in S
      PROVE  y <= 0 - n
  <2>1. 0 - y \in Int /\ 0 - (0 - y) = y
    OBVIOUS
  <2>2. 0 - y \in T
    BY <2>1
  <2> QED
    BY <1>3, <2>1, <2>2
<1> QED
  BY <1>3, <1>4

\* A finite set of numbers has a greatest one.
LEMMA GreatestOfFinite ==
  ASSUME NEW S, S \subseteq Int, S # {}, IsFiniteSet(S)
  PROVE  \E x \in S : \A y \in S : y <= x
<1> DEFINE Unbounded(T) == T \subseteq Int /\ T # {} /\ IsFiniteSet(T) /\ ~(\E x \in T : \A y \in T : y <= x)
           Sizes == {n \in Nat : \E T \in SUBSET Int : Unbounded(T) /\ Cardinality(T) = n}
<1> SUFFICES ASSUME Unbounded(S)
             PROVE  FALSE
  OBVIOUS
<1>1. Sizes # {}
  <2>1. Cardinality(S) \in Nat
    BY FS_CardinalityType
  <2> QED
    BY <2>1
<1>2. PICK n \in Sizes : \A k \in Sizes : n <= k
  <2>1. Sizes \subseteq Nat
    OBVIOUS
  <2> HIDE DEF Sizes
  <2> QED
    BY <1>1, <2>1, LeastNat
<1>3. PICK T \in SUBSET Int : Unbounded(T) /\ Cardinality(T) = n
  BY <1>2
<1>4. PICK e \in T : TRUE
  BY <1>3
<1> DEFINE U == T \ {e}
<1>5. IsFiniteSet(U) /\ Cardinality(U) = n - 1 /\ n - 1 \in Nat
  <2>1. IsFiniteSet(U) /\ Cardinality(U) = Cardinality(T) - 1
    BY <1>3, <1>4, FS_RemoveElement
  <2>2. Cardinality(U) \in Nat
    BY <2>1, FS_CardinalityType
  <2> QED
    BY <1>3, <2>1, <2>2
<1>6. U # {}
  <2>1. ASSUME U = {}
        PROVE  FALSE
    <3>1. T = {e} /\ e \in Int
      BY <1>4, <2>1
    <3> QED
      BY <1>3, <3>1
  <2> QED
    BY <2>1
<1>7. \E x \in U : \A y \in U : y <= x
  <2>1. ASSUME ~(\E x \in U : \A y \in U : y <= x)
        PROVE  FALSE
    <3>1. Unbounded(U)
      BY <1>5, <1>6, <2>1
    <3>2. n - 1 \in Sizes
      BY <1>5, <3>1
    <3> QED
      BY <1>2, <3>2, <1>5
  <2> QED
    BY <2>1
<1>8. PICK x \in U : \A y \in U : y <= x
  BY <1>7
<1>9. x \in Int /\ e \in Int /\ \A y \in T : y \in Int /\ (y = e \/ y <= x)
  BY <1>4, <1>8
<1>10. CASE e <= x
  BY <1>3, <1>8, <1>9, <1>10
<1>11. CASE ~(e <= x)
  <2>1. \A y \in T : y <= e
    BY <1>9, <1>11
  <2> QED
    BY <1>3, <1>4, <2>1
<1> QED
  BY <1>10, <1>11

---------------------------------------------------------------------------
(* Now and next                                                            *)

\* What the views need of a list of courses.
Listable(courses, n) ==
    /\ n \in Nat /\ DOMAIN courses = 1..n
    /\ \A i \in 1..n : courses[i].start_min \in Nat /\ courses[i].end_min \in Nat
                       /\ courses[i].start_min < courses[i].end_min /\ courses[i].end_min <= MinutesPerDay

\* The first and the last course of a set that has one, in the order of the sort.
LEMMA FirstExists ==
  ASSUME NEW courses, NEW n, Listable(courses, n), NEW S \in SUBSET (1..n), S # {}
  PROVE  FirstOf(courses, S) # {}
<1> DEFINE Starts == {courses[i].start_min : i \in S}
<1>0. n \in Nat /\ \A i \in S : i \in Nat /\ courses[i].start_min \in Nat
  BY DEF Listable
<1>1. PICK s \in Starts : \A t \in Starts : s <= t
  <2>1. Starts \subseteq Nat /\ Starts # {}
    BY <1>0
  <2> HIDE DEF Starts
  <2> QED
    BY <2>1, LeastNat
<1> DEFINE T == {i \in S : courses[i].start_min = s}
<1>2. PICK i \in T : \A j \in T : i <= j
  <2>1. T \subseteq Nat /\ T # {}
    BY <1>0, <1>1
  <2> HIDE DEF T
  <2> QED
    BY <2>1, LeastNat
<1>3. ASSUME NEW j \in S \ {i}
      PROVE  Earlier(courses, i, j)
  <2>1. courses[i].start_min = s /\ s <= courses[j].start_min /\ s \in Nat /\ courses[j].start_min \in Nat
    BY <1>0, <1>1
  <2>2. courses[j].start_min = s => i <= j /\ i # j
    BY <1>2
  <2>3. i \in Nat /\ j \in Nat
    BY <1>0
  <2> QED
    BY <2>1, <2>2, <2>3 DEF Earlier
<1> QED
  BY <1>3 DEF FirstOf

LEMMA LastExists ==
  ASSUME NEW courses, NEW n, Listable(courses, n), NEW S \in SUBSET (1..n), S # {}
  PROVE  LastOf(courses, S) # {}
<1> DEFINE Starts == {courses[i].start_min : i \in S}
<1>0. n \in Nat /\ \A i \in S : i \in Nat /\ i <= n /\ courses[i].start_min \in Nat /\ courses[i].start_min <= MinutesPerDay
  <2>1. ASSUME NEW i \in S
        PROVE  courses[i].start_min \in Nat /\ courses[i].start_min <= MinutesPerDay
    <3>1. /\ courses[i].start_min \in Nat /\ courses[i].end_min \in Nat
          /\ courses[i].start_min < courses[i].end_min /\ courses[i].end_min <= MinutesPerDay
      BY DEF Listable
    <3> QED
      BY <3>1 DEF MinutesPerDay
  <2> QED
    BY <2>1 DEF Listable
<1>1. PICK s \in Starts : \A t \in Starts : t <= s
  <2>1. Starts \subseteq Int
    BY <1>0
  <2>0. Starts # {}
    OBVIOUS
  <2>2. \A t \in Starts : t <= MinutesPerDay
    BY <1>0
  <2>3. MinutesPerDay \in Int
    BY DEF MinutesPerDay
  <2> HIDE DEF Starts
  <2> QED
    BY <2>0, <2>1, <2>2, <2>3, GreatestInt
<1> DEFINE T == {i \in S : courses[i].start_min = s}
<1>2. PICK i \in T : \A j \in T : j <= i
  <2>1. T \subseteq S
    OBVIOUS
  <2>3. T \subseteq Int /\ \A t \in T : t <= n
    BY <1>0, <2>1
  <2>4. n \in Int
    BY <1>0
  <2>2. T # {}
    <3>1. PICK i \in S : courses[i].start_min = s
      BY <1>1
    <3> QED
      BY <3>1
  <2> HIDE DEF T
  <2> QED
    BY <2>2, <2>3, <2>4, GreatestInt
<1>3. ASSUME NEW j \in S \ {i}
      PROVE  Earlier(courses, j, i)
  <2>1. courses[i].start_min = s /\ courses[j].start_min <= s /\ s \in Nat /\ courses[j].start_min \in Nat
    BY <1>0, <1>1
  <2>2. courses[j].start_min = s => j <= i /\ i # j
    BY <1>2
  <2>3. i \in Nat /\ j \in Nat
    BY <1>0
  <2> QED
    BY <2>1, <2>2, <2>3 DEF Earlier
<1> QED
  BY <1>3 DEF LastOf

\* A look at the timetable, and another one later on the same day.
LEMMA LaterLook ==
  ASSUME NEW sched, NEW n, Listable(sched.courses, n),
         NEW c1, NEW c2, c1.minute_of_day \in Nat, c2.minute_of_day \in Nat,
         c1.minute_of_day <= c2.minute_of_day,
         TodaysCourses(sched, c2) = TodaysCourses(sched, c1),
         Disjoint(sched.courses, TodaysCourses(sched, c1))
  PROVE  LET courses == sched.courses
             before == NowAndNext(sched, c1)
             after == NowAndNext(sched, c2)
         IN  /\ before.remaining_today = 0 <=> before.now \cup before.next = {}
             /\ \A i \in before.next :
                    c2.minute_of_day \in courses[i].start_min .. courses[i].end_min - 1 => after.now = {i}
             /\ c1.minute_of_day < c2.minute_of_day => \A j \in after.now \ before.now :
                    \E i \in before.next : courses[i].start_min <= courses[j].start_min
<1> DEFINE courses == sched.courses
           m1 == c1.minute_of_day
           m2 == c2.minute_of_day
           today == TodaysCourses(sched, c1)
           P1 == {i \in today : m1 \in courses[i].start_min .. courses[i].end_min - 1}
           P2 == {i \in today : m2 \in courses[i].start_min .. courses[i].end_min - 1}
           now1 == LastOf(courses, P1)
           now2 == LastOf(courses, P2)
           later == {i \in today : IF now1 = {} THEN m1 < courses[i].start_min
                                   ELSE \A j \in now1 : courses[i].start_min >= courses[j].end_min}
           left == {i \in today : m1 < courses[i].end_min}
<1>1. /\ NowAndNext(sched, c1).now = now1 /\ NowAndNext(sched, c1).next = FirstOf(courses, later)
      /\ NowAndNext(sched, c1).remaining_today = Cardinality(left) /\ NowAndNext(sched, c2).now = now2
  BY DEF NowAndNext
<1>2. today \in SUBSET (1..n) /\ n \in Nat
  BY DEF TodaysCourses, CoursesOnDay, Listable
<1>3. \A i \in today : /\ courses[i].start_min \in Nat /\ courses[i].end_min \in Nat
                       /\ courses[i].start_min < courses[i].end_min
  BY <1>2 DEF Listable
<1>4. m1 \in Nat /\ m2 \in Nat /\ m1 <= m2
  OBVIOUS
<1>5. \A i, j \in today : i = j \/ courses[i].end_min <= courses[j].start_min
                                \/ courses[j].end_min <= courses[i].start_min
  BY Zenon DEF Disjoint
<1>6. Listable(courses, n)
  OBVIOUS
<1> HIDE DEF courses, m1, m2, today
<1>7. now1 \subseteq P1 /\ now2 \subseteq P2 /\ FirstOf(courses, later) \subseteq later
  BY DEF FirstOf, LastOf
<1>8. P1 # {} => now1 # {}
  <2>1. P1 \in SUBSET (1..n)
    BY <1>2
  <2> HIDE DEF P1
  <2> QED
    BY <1>6, <2>1, LastExists
<1>9. later # {} => FirstOf(courses, later) # {}
  <2>1. later \in SUBSET (1..n)
    BY <1>2
  <2> HIDE DEF later
  <2> QED
    BY <1>6, <2>1, FirstExists
<1>10. Cardinality(left) = 0 <=> now1 \cup FirstOf(courses, later) = {}
  <2>1. IsFiniteSet(left)
    <3>0. left \subseteq today
      OBVIOUS
    <3>2. IsFiniteSet(1..n)
      BY <1>2, FS_Interval
    <3> HIDE DEF left
    <3> QED
      BY <1>2, <3>0, <3>2, FS_Subset
  <2>2. Cardinality(left) = 0 <=> left = {}
    BY <2>1, FS_EmptySet
  <2>3. ASSUME left = {}
        PROVE  now1 \cup FirstOf(courses, later) = {}
    <3>1. P1 = {}
      BY <1>3, <1>4, <2>3
    <3>2. now1 = {}
      BY <1>7, <3>1
    <3>3. later = {}
      <4> HIDE DEF now1
      <4> QED
        BY <1>3, <1>4, <2>3, <3>2
    <3> QED
      BY <1>7, <3>2, <3>3
  <2>4. ASSUME NEW i \in left, now1 = {}, FirstOf(courses, later) = {}
        PROVE  FALSE
    <3>1. P1 = {} /\ later = {}
      BY <1>8, <1>9, <2>4
    <3>2. i \notin P1 /\ i \notin later
      BY <3>1
    <3> HIDE DEF now1
    <3> QED
      BY <1>3, <1>4, <2>4, <3>2
  <2> QED
    BY <2>2, <2>3, <2>4
<1>11. ASSUME NEW i \in FirstOf(courses, later), m2 \in courses[i].start_min .. courses[i].end_min - 1
       PROVE  now2 = {i}
  <2>1. i \in today
    BY <1>7, <1>11
  <2>2. P2 = {i}
    <3>1. ASSUME NEW j \in P2
          PROVE  j = i
      BY <1>3, <1>4, <1>5, <1>11, <2>1
    <3> QED
      BY <1>11, <2>1, <3>1
  <2> HIDE DEF P2
  <2> QED
    BY <2>2 DEF LastOf
<1>12. ASSUME NEW j \in now2 \ now1, m1 < m2
       PROVE  \E i \in FirstOf(courses, later) : courses[i].start_min <= courses[j].start_min
  <2>1. j \in P2
    BY <1>7, <1>12
  <2>2. j \in later
    <3>1. CASE now1 = {}
      <4>1. P1 = {}
        BY <1>8, <3>1
      <4>2. j \notin P1
        BY <4>1
      <4> HIDE DEF now1
      <4> QED
        BY <1>3, <1>4, <1>12, <2>1, <3>1, <4>2
    <3>2. CASE now1 # {}
      <4>1. ASSUME NEW k \in now1
            PROVE  courses[j].start_min >= courses[k].end_min
        <5>1. k \in P1 /\ k # j
          BY <1>7, <1>12, <4>1
        <5> HIDE DEF now1, now2
        <5> QED
          BY <1>3, <1>4, <1>5, <1>12, <2>1, <5>1
      <4> HIDE DEF now1
      <4> QED
        BY <2>1, <3>2, <4>1
    <3> QED
      BY <3>1, <3>2
  <2>3. PICK i \in FirstOf(courses, later) : TRUE
    BY <1>9, <2>2
  <2>4. i \in later /\ (i = j \/ Earlier(courses, i, j))
    BY <2>2, <2>3, Zenon DEF FirstOf
  <2>5. i \in today /\ j \in today
    BY <2>2, <2>4
  <2> HIDE DEF later
  <2>6. courses[i].start_min <= courses[j].start_min
    BY <1>3, <2>4, <2>5 DEF Earlier
  <2> QED
    BY <2>6
<1> HIDE DEF now1, now2, later, left
<1> QED
  BY <1>1, <1>10, <1>11, <1>12 DEF courses, m1, m2

\* What is on the wrist: nothing, or a list the views can walk.
OnTheWrist ==
    \/ schedule = NoSchedule
    \/ ValidImport(schedule) /\ \E n \in Nat : DOMAIN schedule.courses = 1..n

LEMMA ListableCourses ==
  ASSUME OnTheWrist
  PROVE  \E n \in Nat : Listable(schedule.courses, n)
<1>1. CASE schedule = NoSchedule
  <2>1. DOMAIN schedule.courses = 1..0
    BY <1>1 DEF NoSchedule
  <2> QED
    BY <2>1 DEF Listable
<1>2. CASE ValidImport(schedule) /\ \E n \in Nat : DOMAIN schedule.courses = 1..n
  <2>1. PICK n \in Nat : DOMAIN schedule.courses = 1..n
    BY <1>2
  <2>2. ASSUME NEW i \in 1..n
        PROVE  LET c == schedule.courses[i]
               IN  /\ c.start_min \in Nat /\ c.end_min \in Nat
                   /\ c.start_min < c.end_min /\ c.end_min <= MinutesPerDay
    <3> DEFINE c == schedule.courses[i]
    <3>1. FitsTypes(c) /\ ValidCourse(c)
      BY <1>2, <2>1, Zenon DEF ValidImport
    <3> HIDE DEF c
    <3>2. c.start_min \in Nat /\ c.end_min \in c.start_min + 1 .. MinutesPerDay
      BY <3>1, ValidCourseTypes
    <3>3. c.start_min \in Nat /\ c.end_min \in Nat /\ c.start_min < c.end_min /\ c.end_min <= MinutesPerDay
      BY <3>2 DEF MinutesPerDay
    <3> QED
      BY <3>3 DEF c
  <2> QED
    BY <2>1, <2>2 DEF Listable
<1> QED
  BY <1>1, <1>2 DEF OnTheWrist

\* What is announced as next stays true while a day passes.
LEMMA NextStep ==
  ASSUME OnTheWrist, WallAgrees, WallAgrees', [Next]_vars,
         day' = day, schedule' = schedule, Disjoint(schedule.courses, TodaysCourses(schedule, Clock))
  PROVE  LET courses == schedule.courses
         IN  /\ Looks.remaining_today = 0 <=> Looks.now \cup Looks.next = {}
             /\ \A i \in Looks.next :
                    minute' \in courses[i].start_min .. courses[i].end_min - 1 => Looks'.now = {i}
             /\ \A j \in Looks'.now \ Looks.now :
                    \E i \in Looks.next : courses[i].start_min <= courses[j].start_min
<1>1. PICK n \in Nat : Listable(schedule.courses, n)
  BY ListableCourses
<1>2. /\ Clock = [local_day |-> day, minute_of_day |-> minute, weekday |-> ((day + 3) % 7) + 1]
      /\ minute \in Nat
  BY ClockReads DEF WallAgrees, MinutesPerDay
<1>3. /\ Clock' = [local_day |-> day', minute_of_day |-> minute', weekday |-> ((day' + 3) % 7) + 1]
      /\ minute' \in Nat
  <2>1. day' \in Nat /\ minute' \in 0 .. MinutesPerDay - 1
    BY DEF WallAgrees
  <2>2. FromUnixMinutes(day' * MinutesPerDay + minute' - UtcOffset * 60)
        = [local_day |-> day', minute_of_day |-> minute', weekday |-> ((day' + 3) % 7) + 1]
    BY <2>1, ClockOfMinutes
  <2>3. minute' \in Nat
    BY <2>1 DEF MinutesPerDay
  <2> QED
    BY <2>2, <2>3 DEF Clock
<1>4. minute <= minute' /\ (minute < minute' \/ UNCHANGED minute)
  <2>1. CASE Import
    BY <1>2, <2>1 DEF Import, wall
  <2>2. CASE \E m \in Minutes : Pass(m)
    <3>1. minute < minute'
      BY <2>2 DEF Pass
    <3> QED
      BY <1>2, <1>3, <3>1
  <2>3. CASE Midnight
    <3>1. day' = day + 1 /\ day \in Nat
      BY <2>3 DEF Midnight, WallAgrees
    <3> QED
      BY <3>1
  <2>4. CASE UNCHANGED vars
    BY <1>2, <2>4 DEF vars, wall
  <2> QED
    BY <2>1, <2>2, <2>3, <2>4 DEF Next
<1>5. TodaysCourses(schedule, Clock') = TodaysCourses(schedule, Clock)
  <2>1. Clock'.local_day = Clock.local_day /\ Clock'.weekday = Clock.weekday
    BY <1>2, <1>3
  <2> QED
    BY <2>1 DEF TodaysCourses
<1>6. Clock.minute_of_day = minute /\ Clock'.minute_of_day = minute'
  BY <1>2, <1>3
<1>7. Looks = NowAndNext(schedule, Clock) /\ Looks' = NowAndNext(schedule, Clock')
  BY DEF Looks
<1> DEFINE c1 == Clock
           c2 == Clock'
           sched == schedule
<1>8. /\ Listable(sched.courses, n) /\ TodaysCourses(sched, c2) = TodaysCourses(sched, c1)
      /\ Disjoint(sched.courses, TodaysCourses(sched, c1))
      /\ c1.minute_of_day = minute /\ c2.minute_of_day = minute'
      /\ c1.minute_of_day \in Nat /\ c2.minute_of_day \in Nat /\ c1.minute_of_day <= c2.minute_of_day
  BY <1>1, <1>2, <1>3, <1>4, <1>5, <1>6
<1>9. /\ Looks = NowAndNext(sched, c1) /\ Looks' = NowAndNext(sched, c2)
      /\ minute = minute' => Looks' = Looks
      /\ minute < minute' \/ minute = minute'
  BY <1>2, <1>3, <1>4, <1>7
<1> HIDE DEF c1, c2, sched
<1>10. LET courses == sched.courses
           before == NowAndNext(sched, c1)
           after == NowAndNext(sched, c2)
       IN  /\ before.remaining_today = 0 <=> before.now \cup before.next = {}
           /\ \A i \in before.next :
                  c2.minute_of_day \in courses[i].start_min .. courses[i].end_min - 1 => after.now = {i}
           /\ c1.minute_of_day < c2.minute_of_day => \A j \in after.now \ before.now :
                  \E i \in before.next : courses[i].start_min <= courses[j].start_min
  BY <1>8, LaterLook
<1> QED
  BY <1>8, <1>9, <1>10, Zenon DEF sched

---------------------------------------------------------------------------
(* Days added to a date                                                    *)

\* A date of the calendar, of any year.
CalendarDate(a) == a = Date(a.y, a.m, a.d) /\ a.y \in Int /\ RealDate(a)

\* The day number of the first of January.
YearStart(y) == MarchDays(y - 1) + 306

\* A year begins as many days after the one before it as that one has.
LEMMA YearStarts ==
  ASSUME NEW y \in Int
  PROVE  /\ YearStart(y) \in Int /\ DaysInYear(y) \in {365, 366}
         /\ YearStart(y + 1) = YearStart(y) + DaysInYear(y)
<1>1. MarchDays(y) \in Int /\ MarchDays(y - 1) \in Int
  BY DEF MarchDays
<1>2. DaysInYear(y) \in {365, 366}
  BY DEF DaysInYear
<1>3. MarchDays(y) = MarchDays(y - 1) + DaysInYear(y) /\ (y + 1) - 1 = y
  BY YearLength
<1> QED
  BY <1>1, <1>2, <1>3 DEF YearStart

LEMMA LaterYearsStartLater ==
  ASSUME NEW a \in Int, NEW b \in Int, a <= b
  PROVE  YearStart(a) <= YearStart(b)
<1> DEFINE x == a - 1
           z == b - 1
<1>1. x \in Int /\ z \in Int /\ x <= z
  OBVIOUS
<1> HIDE DEF x, z
<1>2. x \div 4 <= z \div 4 /\ x \div 400 <= z \div 400 /\ z \div 100 - x \div 100 <= z - x
  BY <1>1, Z3
<1>3. /\ x \div 4 \in Int /\ x \div 100 \in Int /\ x \div 400 \in Int
      /\ z \div 4 \in Int /\ z \div 100 \in Int /\ z \div 400 \in Int
  BY <1>1
<1>4. MarchDays(x) <= MarchDays(z)
  BY <1>1, <1>2, <1>3 DEF MarchDays
<1>5. MarchDays(x) \in Int /\ MarchDays(z) \in Int
  BY <1>1, <1>3 DEF MarchDays
<1> QED
  BY <1>4, <1>5 DEF YearStart, x, z

\* A day lies in one year only.
LEMMA OneYear ==
  ASSUME NEW a \in Int, NEW i \in 1 .. DaysInYear(a), NEW b \in Int, NEW j \in 1 .. DaysInYear(b),
         YearStart(a) + i = YearStart(b) + j
  PROVE  a = b /\ i = j
<1>1. ASSUME NEW x \in Int, NEW k \in 1 .. DaysInYear(x), NEW z \in Int, NEW l \in 1 .. DaysInYear(z), x < z
      PROVE  YearStart(x) + k < YearStart(z) + l
  <2>1. YearStart(x + 1) = YearStart(x) + DaysInYear(x) /\ YearStart(x + 1) <= YearStart(z)
    BY <1>1, YearStarts, LaterYearsStartLater
  <2>2. /\ YearStart(x) \in Int /\ YearStart(z) \in Int /\ YearStart(x + 1) \in Int
        /\ DaysInYear(x) \in Int /\ DaysInYear(z) \in Int
    BY YearStarts
  <2> QED
    BY <2>1, <2>2
<1>2. ~(a < b) /\ ~(b < a)
  <2>1. YearStart(a) \in Int /\ YearStart(b) \in Int /\ DaysInYear(a) \in Int /\ DaysInYear(b) \in Int
    BY YearStarts
  <2>2. YearStart(a) + i \in Int
    BY <2>1
  <2>3. a < b => YearStart(a) + i < YearStart(b) + j
    BY <1>1
  <2>4. b < a => YearStart(b) + j < YearStart(a) + i
    BY <1>1
  <2> QED
    BY <2>2, <2>3, <2>4
<1> QED
  BY <1>2, YearStarts

\* One round of add_days.
YearStep(f, p) ==
    LET y == p[1]
        ord == p[2]
    IN  IF ord > DaysInYear(y) THEN f[<<y + 1, ord - DaysInYear(y)>>]
        ELSE IF ord <= 0 THEN f[<<y - 1, ord + DaysInYear(y - 1)>>]
        ELSE p

\* The year and ordinal of a day, counted from the start of year 0.
InYear(p, n) == p[2] \in 1 .. DaysInYear(p[1]) /\ YearStart(p[1]) + p[2] = n

\* The loop of add_days has a result, whatever it starts from.
LEMMA YearWalk ==
  ASSUME NEW y \in Int, NEW ord \in Int
  PROVE  YearAndOrdinal[<<y, ord>>] = YearStep(YearAndOrdinal, <<y, ord>>)
<1> DEFINE Pair == Int \X Int
           ByNumber(n) == CHOOSE p \in Pair : InYear(p, n)
           g == [p \in Pair |-> ByNumber(YearStart(p[1]) + p[2])]
<1>1. ASSUME NEW a \in Int, NEW i \in Int
      PROVE  g[<<a, i>>] = ByNumber(YearStart(a) + i)
  <2>1. <<a, i>> \in Pair /\ <<a, i>>[1] = a /\ <<a, i>>[2] = i
    OBVIOUS
  <2> HIDE DEF ByNumber, Pair
  <2> QED
    BY <2>1
<1>2. ASSUME NEW p \in Pair
      PROVE  g[p] = YearStep(g, p)
  <2> DEFINE a == p[1]
             i == p[2]
  <2>1. a \in Int /\ i \in Int /\ p = <<a, i>>
    OBVIOUS
  <2> HIDE DEF a, i, g
  <2>2. /\ YearStart(a) \in Int /\ DaysInYear(a) \in Int /\ DaysInYear(a - 1) \in Int
        /\ YearStart(a + 1) = YearStart(a) + DaysInYear(a) /\ YearStart(a - 1) \in Int
        /\ YearStart(a) = YearStart(a - 1) + DaysInYear(a - 1)
    <3>1. a - 1 \in Int /\ (a - 1) + 1 = a
      BY <2>1
    <3> QED
      BY <2>1, <3>1, YearStarts
  <2>3. CASE i > DaysInYear(a)
    <3>1. g[p] = ByNumber(YearStart(a) + i)
      BY <2>1, <1>1
    <3>2. g[<<a + 1, i - DaysInYear(a)>>] = ByNumber(YearStart(a + 1) + (i - DaysInYear(a)))
      <4>1. a + 1 \in Int /\ i - DaysInYear(a) \in Int
        BY <2>1, <2>2
      <4> HIDE DEF ByNumber
      <4> QED
        BY <4>1, <1>1
    <3>3. YearStart(a + 1) + (i - DaysInYear(a)) = YearStart(a) + i
      BY <2>1, <2>2
    <3> HIDE DEF ByNumber
    <3>4. g[p] = g[<<a + 1, i - DaysInYear(a)>>]
      BY <3>1, <3>2, <3>3
    <3> QED
      BY <2>3, <3>4 DEF YearStep, a, i
  <2>4. CASE ~(i > DaysInYear(a)) /\ i <= 0
    <3>1. g[p] = ByNumber(YearStart(a) + i)
      BY <2>1, <1>1
    <3>2. g[<<a - 1, i + DaysInYear(a - 1)>>] = ByNumber(YearStart(a - 1) + (i + DaysInYear(a - 1)))
      <4>1. a - 1 \in Int /\ i + DaysInYear(a - 1) \in Int
        BY <2>1, <2>2
      <4> HIDE DEF ByNumber
      <4> QED
        BY <4>1, <1>1
    <3>3. YearStart(a - 1) + (i + DaysInYear(a - 1)) = YearStart(a) + i
      BY <2>1, <2>2
    <3> HIDE DEF ByNumber
    <3>4. g[p] = g[<<a - 1, i + DaysInYear(a - 1)>>]
      BY <3>1, <3>2, <3>3
    <3> QED
      BY <2>4, <3>4 DEF YearStep, a, i
  <2>5. CASE ~(i > DaysInYear(a)) /\ ~(i <= 0)
    <3>1. g[p] = ByNumber(YearStart(a) + i)
      BY <2>1, <1>1
    <3>2. i \in 1 .. DaysInYear(a)
      BY <2>1, <2>2, <2>5
    <3> DEFINE n == YearStart(a) + i
    <3>3. p \in Pair /\ InYear(p, n)
      BY <2>1, <3>2 DEF InYear
    <3>4. ASSUME NEW q \in Pair, InYear(q, n)
          PROVE  q = p
      <4>1. q[1] \in Int /\ q[2] \in 1 .. DaysInYear(q[1]) /\ YearStart(q[1]) + q[2] = YearStart(a) + i
        BY <3>4 DEF InYear
      <4>2. q[1] = a /\ q[2] = i
        BY <2>1, <3>2, <4>1, OneYear
      <4> QED
        BY <2>1, <4>2
    <3>5. ByNumber(n) = p
      <4> HIDE DEF n, Pair
      <4> QED
        BY <3>3, <3>4
    <3>6. g[p] = p
      <4> HIDE DEF ByNumber
      <4> QED
        BY <3>1, <3>5
    <3> QED
      BY <2>5, <3>6 DEF YearStep, a, i
  <2> QED
    BY <2>3, <2>4, <2>5
<1>3. g = [p \in Pair |-> YearStep(g, p)]
  <2>1. g = [p \in Pair |-> g[p]]
    OBVIOUS
  <2> HIDE DEF g, Pair
  <2> QED
    BY <1>2, <2>1, Zenon
<1>4. \E f : f = [p \in Int \X Int |-> YearStep(f, p)]
  <2> HIDE DEF g
  <2> QED
    BY <1>3
<1>5. YearAndOrdinal = [p \in Int \X Int |-> YearStep(YearAndOrdinal, p)]
  BY <1>4, Zenon DEF YearAndOrdinal, YearStep
<1>6. <<y, ord>> \in Int \X Int /\ <<y, ord>>[1] = y /\ <<y, ord>>[2] = ord
  OBVIOUS
<1> QED
  BY <1>5, <1>6, Zenon

\* year_and_ordinal ends in the year that holds the day, whichever year it
\* begins in and whichever way it has to walk.
LEMMA YearFound ==
  ASSUME NEW y \in Int, NEW ord \in Int
  PROVE  LET p == YearAndOrdinal[<<y, ord>>]
         IN  p = <<p[1], p[2]>> /\ p[1] \in Int /\ InYear(p, YearStart(y) + ord)
<1> DEFINE Lands(a, i) == LET p == YearAndOrdinal[<<a, i>>]
                           IN  p = <<p[1], p[2]>> /\ p[1] \in Int /\ InYear(p, YearStart(a) + i)
           Rounds(i) == IF i > 0 THEN i ELSE 367 - i
           Bad == {n \in Nat : \E a, i \in Int : Rounds(i) = n /\ ~Lands(a, i)}
<1>1. ASSUME Bad # {}
      PROVE  FALSE
  <2>1. PICK n \in Bad : \A k \in Bad : n <= k
    <3>1. Bad \subseteq Nat
      OBVIOUS
    <3> HIDE DEF Bad
    <3> QED
      BY <1>1, <3>1, LeastNat
  <2>2. PICK a \in Int, i \in Int : Rounds(i) = n /\ ~Lands(a, i)
    BY <2>1
  <2>3. ASSUME NEW b \in Int, NEW j \in Int, Rounds(j) < Rounds(i)
        PROVE  Lands(b, j)
    <3>1. Rounds(j) \in Nat /\ Rounds(i) \in Nat
      BY <2>3, <2>2
    <3>2. Rounds(j) \notin Bad
      <4> HIDE DEF Bad, Rounds
      <4> QED
        BY <2>1, <2>2, <2>3, <3>1
    <3> HIDE DEF Lands, Rounds
    <3> QED
      BY <3>1, <3>2
  <2> HIDE DEF Bad
  <2>4. /\ YearStart(a) \in Int /\ DaysInYear(a) \in {365, 366} /\ DaysInYear(a - 1) \in {365, 366}
        /\ YearStart(a + 1) = YearStart(a) + DaysInYear(a) /\ YearStart(a - 1) \in Int
        /\ YearStart(a) = YearStart(a - 1) + DaysInYear(a - 1)
    <3>1. a - 1 \in Int /\ (a - 1) + 1 = a
      OBVIOUS
    <3> QED
      BY <3>1, YearStarts
  <2>5. YearAndOrdinal[<<a, i>>] = IF i > DaysInYear(a) THEN YearAndOrdinal[<<a + 1, i - DaysInYear(a)>>]
                                   ELSE IF i <= 0 THEN YearAndOrdinal[<<a - 1, i + DaysInYear(a - 1)>>]
                                   ELSE <<a, i>>
    BY YearWalk DEF YearStep
  <2>6. CASE i > DaysInYear(a)
    <3>1. a + 1 \in Int /\ i - DaysInYear(a) \in Int /\ Rounds(i - DaysInYear(a)) < Rounds(i)
      BY <2>4, <2>6
    <3>2. Lands(a + 1, i - DaysInYear(a))
      <4> HIDE DEF Lands, Rounds
      <4> QED
        BY <2>3, <3>1
    <3>3. YearStart(a + 1) + (i - DaysInYear(a)) = YearStart(a) + i
      BY <2>4
    <3>4. YearAndOrdinal[<<a, i>>] = YearAndOrdinal[<<a + 1, i - DaysInYear(a)>>]
      BY <2>5, <2>6
    <3> QED
      BY <2>2, <3>2, <3>3, <3>4
  <2>7. CASE ~(i > DaysInYear(a)) /\ i <= 0
    <3>1. a - 1 \in Int /\ i + DaysInYear(a - 1) \in Int /\ Rounds(i + DaysInYear(a - 1)) < Rounds(i)
      BY <2>4, <2>7
    <3>2. Lands(a - 1, i + DaysInYear(a - 1))
      <4> HIDE DEF Lands, Rounds
      <4> QED
        BY <2>3, <3>1
    <3>3. YearStart(a - 1) + (i + DaysInYear(a - 1)) = YearStart(a) + i
      BY <2>4
    <3>4. YearAndOrdinal[<<a, i>>] = YearAndOrdinal[<<a - 1, i + DaysInYear(a - 1)>>]
      BY <2>5, <2>7
    <3> QED
      BY <2>2, <3>2, <3>3, <3>4
  <2>8. CASE ~(i > DaysInYear(a)) /\ ~(i <= 0)
    <3>1. YearAndOrdinal[<<a, i>>] = <<a, i>>
      BY <2>5, <2>8
    <3>2. i \in 1 .. DaysInYear(a)
      BY <2>4, <2>8
    <3>3. Lands(a, i)
      BY <3>1, <3>2 DEF InYear
    <3> QED
      BY <2>2, <3>3
  <2> QED
    BY <2>6, <2>7, <2>8
<1>2. Rounds(ord) \in Nat
  OBVIOUS
<1>3. Lands(y, ord)
  <2> HIDE DEF Lands, Rounds
  <2> QED
    BY <1>1, <1>2
<1> QED
  BY <1>3

\* Months of a year begin and end on these ordinals.
LEMMA OrdinalCounts ==
  ASSUME NEW y \in Int, NEW m \in 1..12, NEW d \in Int
  PROVE  /\ Ordinal(Date(y, m, d)) \in Int
         /\ Elapsed(y, m) \in Int /\ Ordinal(Date(y, m, d)) = Elapsed(y, m) + d
         /\ DayNumber(y, m, d) = YearStart(y) + Ordinal(Date(y, m, d)) - 1
<1> DEFINE leap == IF m > 2 /\ IsLeap(y) THEN 1 ELSE 0
<1>0. ASSUME NEW e
      PROVE  Ordinal(Date(y, m, e)) = Cumulated[m] + e + leap
  <2>1. Date(y, m, e).y = y /\ Date(y, m, e).m = m /\ Date(y, m, e).d = e
    BY DEF Date
  <2> QED
    BY <2>1 DEF Ordinal
<1>1. Ordinal(Date(y, m, d)) = Cumulated[m] + d + leap /\ Elapsed(y, m) = (Cumulated[m] + 1 + leap) - 1
  <2> HIDE DEF leap
  <2>1. Ordinal(Date(y, m, 1)) = Cumulated[m] + 1 + leap
    BY <1>0
  <2> QED
    BY <1>0, <2>1 DEF Elapsed
<1>2. Cumulated[m] \in Int /\ SinceMarch[m] \in Int
  <2>1. Cumulated[m] \in Int
    <3>1. CASE m \in {1, 2, 3, 4, 5, 6}
      BY <3>1 DEF Cumulated
    <3>2. CASE m \in {7, 8, 9, 10, 11, 12}
      BY <3>2 DEF Cumulated
    <3> QED
      BY <3>1, <3>2
  <2> QED
    BY <2>1, MonthOffsets
<1>3. /\ MarchDays(y) \in Int /\ MarchDays(y - 1) \in Int
      /\ MarchDays(y) = MarchDays(y - 1) + DaysInYear(y)
      /\ DaysInYear(y) = 365 + (IF IsLeap(y) THEN 1 ELSE 0)
  BY YearLength DEF MarchDays, DaysInYear
<1>4. CASE m \in {1, 2}
  <2>1. leap = 0 /\ MarchYear(y, m) = y - 1 /\ SinceMarch[m] = 306 + Cumulated[m]
    BY <1>4 DEF MarchYear, SinceMarch, Cumulated
  <2> HIDE DEF leap
  <2> QED
    BY <1>1, <1>2, <1>3, <2>1 DEF DayNumber, YearStart
<1>5. CASE m \notin {1, 2}
  <2>1. leap = (IF IsLeap(y) THEN 1 ELSE 0) /\ MarchYear(y, m) = y
    BY <1>5 DEF MarchYear
  <2>2. SinceMarch[m] + 59 = Cumulated[m]
    <3>1. CASE m \in {3, 4, 5, 6, 7}
      BY <3>1 DEF Cumulated, SinceMarch
    <3>2. CASE m \in {8, 9, 10, 11, 12}
      BY <3>2 DEF Cumulated, SinceMarch
    <3> QED
      BY <1>5, <3>1, <3>2
  <2> HIDE DEF leap
  <2>3. leap \in Int
    BY <2>1
  <2> QED
    BY <1>1, <1>2, <1>3, <2>1, <2>2, <2>3 DEF DayNumber, YearStart
<1> QED
  BY <1>4, <1>5

\* The twelve months cover the year.
LEMMA MonthFound ==
  ASSUME NEW y \in Int, NEW ord \in 1 .. DaysInYear(y)
  PROVE  \E k \in 1..12 : ord \in Elapsed(y, k) + 1 .. Elapsed(y, k) + DaysInMonth(y, k)
<1> DEFINE leap == IF IsLeap(y) THEN 1 ELSE 0
<1>1. DaysInYear(y) = 365 + leap
  BY DEF DaysInYear
<1>2. leap \in {0, 1}
  OBVIOUS
<1>3. /\ Elapsed(y, 1) = 0 /\ Elapsed(y, 2) = 31 /\ Elapsed(y, 3) = 59 + leap /\ Elapsed(y, 4) = 90 + leap
      /\ Elapsed(y, 5) = 120 + leap /\ Elapsed(y, 6) = 151 + leap
  BY DEF Elapsed, Ordinal, Date, Cumulated
<1>4. /\ Elapsed(y, 7) = 181 + leap /\ Elapsed(y, 8) = 212 + leap /\ Elapsed(y, 9) = 243 + leap
      /\ Elapsed(y, 10) = 273 + leap /\ Elapsed(y, 11) = 304 + leap /\ Elapsed(y, 12) = 334 + leap
  BY DEF Elapsed, Ordinal, Date, Cumulated
<1>5. /\ DaysInMonth(y, 1) = 31 /\ DaysInMonth(y, 2) = 28 + leap /\ DaysInMonth(y, 3) = 31
      /\ DaysInMonth(y, 4) = 30 /\ DaysInMonth(y, 5) = 31 /\ DaysInMonth(y, 6) = 30
      /\ DaysInMonth(y, 7) = 31 /\ DaysInMonth(y, 8) = 31 /\ DaysInMonth(y, 9) = 30
      /\ DaysInMonth(y, 10) = 31 /\ DaysInMonth(y, 11) = 30 /\ DaysInMonth(y, 12) = 31
  BY DEF DaysInMonth
<1> HIDE DEF leap
<1>6. CASE ord <= 151 + leap
  <2>1. \/ ord \in 1..31 \/ ord \in 32 .. 59 + leap \/ ord \in 60 + leap .. 90 + leap
        \/ ord \in 91 + leap .. 120 + leap \/ ord \in 121 + leap .. 151 + leap
    BY <1>2, <1>6
  <2> QED
    BY <1>2, <1>3, <1>5, <2>1
<1>7. CASE ~(ord <= 151 + leap)
  <2>1. \/ ord \in 152 + leap .. 181 + leap \/ ord \in 182 + leap .. 212 + leap
        \/ ord \in 213 + leap .. 243 + leap \/ ord \in 244 + leap .. 273 + leap
        \/ ord \in 274 + leap .. 304 + leap \/ ord \in 305 + leap .. 334 + leap
        \/ ord \in 335 + leap .. 365 + leap
    BY <1>1, <1>2, <1>7
  <2> QED
    BY <1>2, <1>3, <1>4, <1>5, <2>1
<1> QED
  BY <1>6, <1>7

\* The date of an ordinal exists and has that ordinal.
LEMMA DateOfOrdinal ==
  ASSUME NEW y \in Int, NEW ord \in 1 .. DaysInYear(y)
  PROVE  LET a == DateFromOrdinal(y, ord)
         IN  CalendarDate(a) /\ a.y = y /\ Ordinal(a) = ord
<1> DEFINE m == CHOOSE k \in 1..12 : ord \in Elapsed(y, k) + 1 .. Elapsed(y, k) + DaysInMonth(y, k)
           d == ord - Elapsed(y, m)
<1>1. m \in 1..12 /\ ord \in Elapsed(y, m) + 1 .. Elapsed(y, m) + DaysInMonth(y, m)
  BY MonthFound
<1>2. DateFromOrdinal(y, ord) = Date(y, m, d)
  BY DEF DateFromOrdinal
<1> HIDE DEF m
<1>3. Elapsed(y, m) \in Int /\ DaysInMonth(y, m) \in Int /\ ord \in Int
  <2>1. Elapsed(y, m) \in Int
    BY <1>1, OrdinalCounts
  <2>2. DaysInMonth(y, m) \in 28..31
    BY <1>1, MonthLengths
  <2> QED
    BY <2>1, <2>2
<1>4. d \in 1 .. DaysInMonth(y, m) /\ Elapsed(y, m) + d = ord
  BY <1>1, <1>3
<1> HIDE DEF d
<1>5. Ordinal(Date(y, m, d)) = ord
  <2>1. d \in Int
    BY <1>3, <1>4
  <2>2. Ordinal(Date(y, m, d)) = Elapsed(y, m) + d
    BY <1>1, <2>1, OrdinalCounts
  <2> QED
    BY <1>4, <2>2
<1>6. CalendarDate(Date(y, m, d)) /\ Date(y, m, d).y = y
  BY <1>1, <1>4 DEF CalendarDate, Date, RealDate
<1> QED
  BY <1>2, <1>5, <1>6

\* A date's day number is that of its year and its ordinal.
LEMMA CalendarDay ==
  ASSUME NEW a, CalendarDate(a)
  PROVE  /\ GregorianDay(a) = YearStart(a.y) + Ordinal(a) - 1 /\ GregorianDay(a) \in Int
         /\ Ordinal(a) \in 1 .. DaysInYear(a.y)
<1>1. a = Date(a.y, a.m, a.d) /\ a.y \in Int /\ a.m \in 1..12 /\ a.d \in 1 .. DaysInMonth(a.y, a.m)
  BY DEF CalendarDate, RealDate
<1>2. DaysInMonth(a.y, a.m) \in 28..31 /\ a.d \in Int
  BY <1>1, MonthLengths
<1>3. GregorianDay(a) = DayNumber(a.y, a.m, a.d)
  BY <1>1, <1>2, GregorianFormula
<1>4. DayNumber(a.y, a.m, a.d) = YearStart(a.y) + Ordinal(a) - 1 /\ Ordinal(a) \in Int
  <2> DEFINE o == Ordinal(Date(a.y, a.m, a.d))
  <2>1. DayNumber(a.y, a.m, a.d) = YearStart(a.y) + o - 1 /\ o \in Int
    BY <1>1, <1>2, OrdinalCounts
  <2>2. o = Ordinal(a)
    BY <1>1, Zenon
  <2> HIDE DEF o
  <2> QED
    BY <2>1, <2>2
<1>5. YearStart(a.y) \in Int
  BY <1>1, YearStarts
<1>6. Ordinal(a) \in 1 .. DaysInYear(a.y)
  <2> DEFINE y == a.y
             m == a.m
             d == a.d
             leap == IF IsLeap(y) THEN 1 ELSE 0
  <2>1. DaysInYear(y) = 365 + leap /\ leap \in {0, 1}
    BY DEF DaysInYear
  <2>2. Ordinal(a) = Cumulated[m] + d + (IF m > 2 THEN leap ELSE 0)
    BY DEF Ordinal
  <2>3. y \in Int /\ m \in 1..12 /\ d \in Int /\ 1 <= d /\ d <= DaysInMonth(y, m)
    BY <1>1, <1>2
  <2>4. DaysInMonth(y, m) = IF m \in {4, 6, 9, 11} THEN 30 ELSE IF m = 2 THEN 28 + leap ELSE 31
    BY DEF DaysInMonth
  <2> HIDE DEF y, m, d, leap
  <2>5. /\ Cumulated[1] = 0 /\ Cumulated[2] = 31 /\ Cumulated[3] = 59 /\ Cumulated[4] = 90
        /\ Cumulated[5] = 120 /\ Cumulated[6] = 151 /\ Cumulated[7] = 181 /\ Cumulated[8] = 212
        /\ Cumulated[9] = 243 /\ Cumulated[10] = 273 /\ Cumulated[11] = 304 /\ Cumulated[12] = 334
    BY DEF Cumulated
  <2>6. m \in {1, 2, 3} \/ m \in {4, 5, 6} \/ m \in {7, 8, 9} \/ m \in {10, 11, 12}
    BY <2>3
  <2>7. Ordinal(a) \in 1 .. DaysInYear(y)
    BY <2>1, <2>2, <2>3, <2>4, <2>5, <2>6
  <2> QED
    BY <2>7 DEF y
<1> QED
  BY <1>3, <1>4, <1>5, <1>6

\* add_days (time.rs): for every date and any number of days, however it walks
\* over the years, the result exists and its day number has moved by exactly
\* that number.
THEOREM AddDaysCounts ==
  ASSUME NEW a, CalendarDate(a), NEW n \in Int
  PROVE  /\ CalendarDate(AddDays(a, n))
         /\ GregorianDay(AddDays(a, n)) = GregorianDay(a) + n
<1> DEFINE p == YearAndOrdinal[<<a.y, Ordinal(a) + n>>]
           b == DateFromOrdinal(p[1], p[2])
<1>1. a.y \in Int /\ Ordinal(a) \in Int /\ YearStart(a.y) \in Int /\ GregorianDay(a) = YearStart(a.y) + Ordinal(a) - 1
  <2>1. a.y \in Int
    BY DEF CalendarDate
  <2>2. DaysInYear(a.y) \in Int
    BY <2>1, YearStarts
  <2> QED
    BY <2>1, <2>2, CalendarDay, YearStarts
<1>2. p[1] \in Int /\ p[2] \in 1 .. DaysInYear(p[1]) /\ YearStart(p[1]) + p[2] = YearStart(a.y) + (Ordinal(a) + n)
  <2>1. Ordinal(a) + n \in Int
    BY <1>1
  <2> QED
    BY <1>1, <2>1, YearFound DEF InYear
<1>3. AddDays(a, n) = b
  BY DEF AddDays
<1> HIDE DEF p
<1>4. CalendarDate(b) /\ b.y = p[1] /\ Ordinal(b) = p[2]
  BY <1>2, DateOfOrdinal
<1>5. GregorianDay(b) = YearStart(p[1]) + p[2] - 1
  BY <1>4, CalendarDay
<1>6. YearStart(p[1]) \in Int /\ p[2] \in Int
  <2>1. DaysInYear(p[1]) \in Int
    BY <1>2, YearStarts
  <2> QED
    BY <1>2, <2>1, YearStarts
<1> QED
  BY <1>1, <1>2, <1>3, <1>4, <1>5, <1>6

---------------------------------------------------------------------------
(* The order of dates, weeks and weekdays                                  *)

\* A later month begins after the last day of an earlier one.
LEMMA MonthsInOrder ==
  ASSUME NEW y \in Int, NEW k \in 1..12, NEW l \in 1..12, k < l
  PROVE  Elapsed(y, k) + DaysInMonth(y, k) <= Elapsed(y, l)
<1> DEFINE leap == IF IsLeap(y) THEN 1 ELSE 0
<1>2. leap \in {0, 1}
  OBVIOUS
<1>3. /\ Elapsed(y, 1) = 0 /\ Elapsed(y, 2) = 31 /\ Elapsed(y, 3) = 59 + leap /\ Elapsed(y, 4) = 90 + leap
      /\ Elapsed(y, 5) = 120 + leap /\ Elapsed(y, 6) = 151 + leap
  BY DEF Elapsed, Ordinal, Date, Cumulated
<1>4. /\ Elapsed(y, 7) = 181 + leap /\ Elapsed(y, 8) = 212 + leap /\ Elapsed(y, 9) = 243 + leap
      /\ Elapsed(y, 10) = 273 + leap /\ Elapsed(y, 11) = 304 + leap /\ Elapsed(y, 12) = 334 + leap
  BY DEF Elapsed, Ordinal, Date, Cumulated
<1>5. DaysInMonth(y, k) = IF k \in {4, 6, 9, 11} THEN 30 ELSE IF k = 2 THEN 28 + leap ELSE 31
  BY DEF DaysInMonth
<1> HIDE DEF leap
<1>6. \A i \in 1..12 : Elapsed(y, i) \in Int
  BY <1>2, <1>3, <1>4
<1>7. CASE k \in {1, 2, 3}
  BY <1>2, <1>3, <1>4, <1>5, <1>7
<1>8. CASE k \in {4, 5, 6}
  BY <1>2, <1>3, <1>4, <1>5, <1>8
<1>9. CASE k \in {7, 8, 9}
  BY <1>2, <1>3, <1>4, <1>5, <1>9
<1>10. CASE k \in {10, 11, 12}
  BY <1>2, <1>3, <1>4, <1>5, <1>10
<1> QED
  BY <1>7, <1>8, <1>9, <1>10

LEMMA EarlierYear ==
  ASSUME NEW x \in Int, NEW k \in 1 .. DaysInYear(x), NEW z \in Int, NEW l \in 1 .. DaysInYear(z), x < z
  PROVE  YearStart(x) + k < YearStart(z) + l
<1>1. YearStart(x + 1) = YearStart(x) + DaysInYear(x) /\ YearStart(x + 1) <= YearStart(z)
  BY YearStarts, LaterYearsStartLater
<1>2. /\ YearStart(x) \in Int /\ YearStart(z) \in Int /\ YearStart(x + 1) \in Int
      /\ DaysInYear(x) \in Int /\ DaysInYear(z) \in Int
  BY YearStarts
<1> QED
  BY <1>1, <1>2

\* An earlier date has a lower day number.
LEMMA EarlierDate ==
  ASSUME NEW a, CalendarDate(a), NEW b, CalendarDate(b), DateBefore(a, b)
  PROVE  GregorianDay(a) < GregorianDay(b)
<1>1. /\ a.y \in Int /\ a.m \in 1..12 /\ a.d \in 1 .. DaysInMonth(a.y, a.m)
      /\ b.y \in Int /\ b.m \in 1..12 /\ b.d \in 1 .. DaysInMonth(b.y, b.m)
      /\ a = Date(a.y, a.m, a.d) /\ b = Date(b.y, b.m, b.d)
  BY DEF CalendarDate, RealDate
<1>2. /\ GregorianDay(a) = YearStart(a.y) + Ordinal(a) - 1 /\ GregorianDay(b) = YearStart(b.y) + Ordinal(b) - 1
      /\ Ordinal(a) \in 1 .. DaysInYear(a.y) /\ Ordinal(b) \in 1 .. DaysInYear(b.y)
  BY CalendarDay
<1>3. /\ DaysInMonth(a.y, a.m) \in Int /\ DaysInMonth(b.y, b.m) \in Int /\ a.d \in Int /\ b.d \in Int
      /\ YearStart(a.y) \in Int /\ YearStart(b.y) \in Int /\ DaysInYear(a.y) \in Int /\ DaysInYear(b.y) \in Int
  <2>1. ASSUME NEW y \in Int, NEW m \in 1..12, NEW d \in 1 .. DaysInMonth(y, m)
        PROVE  DaysInMonth(y, m) \in Int /\ d \in Int /\ YearStart(y) \in Int /\ DaysInYear(y) \in Int
    <3>1. DaysInMonth(y, m) \in 28..31
      BY MonthLengths
    <3>2. YearStart(y) \in Int /\ DaysInYear(y) \in {365, 366}
      BY YearStarts
    <3> QED
      BY <3>1, <3>2
  <2> QED
    BY <1>1, <2>1
<1>4. Ordinal(a) \in Int /\ Ordinal(b) \in Int
  BY <1>2, <1>3
<1>5. CASE a.y < b.y
  <2>1. YearStart(a.y) + Ordinal(a) < YearStart(b.y) + Ordinal(b)
    BY <1>1, <1>2, <1>5, EarlierYear
  <2> QED
    BY <1>2, <1>3, <1>4, <2>1
<1>6. CASE a.y = b.y /\ Ordinal(a) < Ordinal(b)
  BY <1>2, <1>3, <1>4, <1>6
<1>7. /\ Ordinal(a) = Elapsed(a.y, a.m) + a.d /\ Ordinal(b) = Elapsed(b.y, b.m) + b.d
      /\ Elapsed(a.y, a.m) \in Int /\ Elapsed(b.y, b.m) \in Int
  <2>1. /\ Ordinal(Date(a.y, a.m, a.d)) = Elapsed(a.y, a.m) + a.d /\ Elapsed(a.y, a.m) \in Int
        /\ Ordinal(Date(b.y, b.m, b.d)) = Elapsed(b.y, b.m) + b.d /\ Elapsed(b.y, b.m) \in Int
    <3>1. /\ Ordinal(Date(a.y, a.m, a.d)) = Elapsed(a.y, a.m) + a.d /\ Elapsed(a.y, a.m) \in Int
      BY <1>1, <1>3, OrdinalCounts
    <3>2. /\ Ordinal(Date(b.y, b.m, b.d)) = Elapsed(b.y, b.m) + b.d /\ Elapsed(b.y, b.m) \in Int
      BY <1>1, <1>3, OrdinalCounts
    <3> QED
      BY <3>1, <3>2
  <2> QED
    BY <1>1, <2>1, Zenon
<1>8. CASE a.y = b.y /\ a.m < b.m
  <2>1. Elapsed(a.y, a.m) + DaysInMonth(a.y, a.m) <= Elapsed(b.y, b.m)
    BY <1>1, <1>8, MonthsInOrder
  <2>2. Ordinal(a) < Ordinal(b)
    BY <1>1, <1>3, <1>7, <2>1
  <2> QED
    BY <1>6, <1>8, <2>2
<1>9. CASE a.y = b.y /\ a.m = b.m /\ a.d < b.d
  <2>1. Ordinal(a) < Ordinal(b)
    BY <1>3, <1>7, <1>9
  <2> QED
    BY <1>6, <1>9, <2>1
<1> QED
  BY <1>5, <1>8, <1>9 DEF DateBefore

\* The day numbers order the dates, and name each of them.
LEMMA DayOrder ==
  ASSUME NEW a, CalendarDate(a), NEW b, CalendarDate(b)
  PROVE  /\ DateBefore(a, b) <=> GregorianDay(a) < GregorianDay(b)
         /\ GregorianDay(a) = GregorianDay(b) => a = b
<1>1. GregorianDay(a) \in Int /\ GregorianDay(b) \in Int
  BY CalendarDay
<1>2. DateBefore(a, b) => GregorianDay(a) < GregorianDay(b)
  BY EarlierDate
<1>3. DateBefore(b, a) => GregorianDay(b) < GregorianDay(a)
  BY EarlierDate
<1>4. DateBefore(a, b) \/ DateBefore(b, a) \/ a = b
  <2>1. /\ a.y \in Int /\ a.m \in Int /\ a.d \in Int /\ a = Date(a.y, a.m, a.d)
        /\ b.y \in Int /\ b.m \in Int /\ b.d \in Int /\ b = Date(b.y, b.m, b.d)
    <3>1. /\ a.y \in Int /\ a.m \in 1..12 /\ a.d \in 1 .. DaysInMonth(a.y, a.m)
          /\ b.y \in Int /\ b.m \in 1..12 /\ b.d \in 1 .. DaysInMonth(b.y, b.m)
          /\ a = Date(a.y, a.m, a.d) /\ b = Date(b.y, b.m, b.d)
      BY DEF CalendarDate, RealDate
    <3>2. DaysInMonth(a.y, a.m) \in Int /\ DaysInMonth(b.y, b.m) \in Int
      BY <3>1, MonthLengths
    <3> QED
      BY <3>1, <3>2
  <2>2. \/ a.y < b.y \/ b.y < a.y
        \/ a.y = b.y /\ (a.m < b.m \/ b.m < a.m \/ (a.m = b.m /\ (a.d < b.d \/ b.d < a.d \/ a.d = b.d)))
    BY <2>1
  <2>3. a.y = b.y /\ a.m = b.m /\ a.d = b.d => a = b
    BY <2>1, Zenon
  <2> QED
    BY <2>2, <2>3 DEF DateBefore
<1> QED
  BY <1>1, <1>2, <1>3, <1>4

\* The plugin's weekday is that of the day number.
LEMMA WeekdayOfDay ==
  ASSUME NEW a, CalendarDate(a)
  PROVE  WeekdayIso(a) = WeekdayOf(GregorianDay(a)) /\ WeekdayIso(a) \in 1..7
<1>1. a = Date(a.y, a.m, a.d) /\ a.y \in Int /\ a.m \in 1..12 /\ a.d \in 1 .. DaysInMonth(a.y, a.m)
  BY DEF CalendarDate, RealDate
<1>2. DaysInMonth(a.y, a.m) \in 28..31 /\ a.d \in Int
  BY <1>1, MonthLengths
<1>3. /\ WeekdayIso(Date(a.y, a.m, a.d)) = ((CivilToDays(a.y, a.m, a.d) + 3) % 7) + 1
      /\ GregorianDay(Date(a.y, a.m, a.d)) = CivilToDays(a.y, a.m, a.d)
  BY <1>1, <1>2, WeekdayFollows, SameDayNumber
<1>4. WeekdayIso(a) = ((GregorianDay(a) + 3) % 7) + 1
  BY <1>1, <1>3, Zenon
<1>5. GregorianDay(a) \in Int
  BY CalendarDay
<1> QED
  BY <1>4, <1>5 DEF WeekdayOf

\* week_index of the plugin and term_week of the wristband count alike, in the
\* 255 weeks of the wristband's byte.
THEOREM SameWeek ==
  ASSUME NEW start, CalendarDate(start), NEW a, CalendarDate(a)
  PROVE  /\ WeekIndex(start, a) = IF GregorianDay(a) < GregorianDay(start) THEN 0
                                  ELSE (GregorianDay(a) - GregorianDay(start)) \div 7 + 1
         /\ WeekIndex(start, a) \in Nat
         /\ WeekIndex(start, a) <= 255 => TermWeek(start, GregorianDay(a)) = WeekIndex(start, a)
<1> DEFINE n == GregorianDay(a)
           s == GregorianDay(start)
<1>1. n \in Int /\ s \in Int
  BY CalendarDay
<1>2. CivilToDays(start.y, start.m, start.d) = s /\ ParsesAsDate(start)
  <2>1. /\ start = Date(start.y, start.m, start.d) /\ start.y \in Int /\ start.m \in 1..12
        /\ start.d \in 1 .. DaysInMonth(start.y, start.m)
    BY DEF CalendarDate, RealDate
  <2>2. DaysInMonth(start.y, start.m) \in 28..31
    BY <2>1, MonthLengths
  <2>3. start.d \in 1..31
    BY <2>1, <2>2
  <2>4. GregorianDay(Date(start.y, start.m, start.d)) = CivilToDays(start.y, start.m, start.d)
    BY <2>1, <2>3, SameDayNumber
  <2> QED
    BY <2>1, <2>3, <2>4, Zenon DEF ParsesAsDate
<1>3. WeekIndex(start, a) = IF n - s < 0 THEN 0 ELSE (n - s) \div 7 + 1
  BY DEF WeekIndex, DaysBetween
<1>4. TermWeek(start, n) = IF n < s THEN 0
                           ELSE IF (n - s) \div 7 + 1 > 255 THEN 255 ELSE (n - s) \div 7 + 1
  <2> HIDE DEF n, s
  <2> QED
    BY <1>2 DEF TermWeek
<1> HIDE DEF n, s
<1>5. n - s < 0 <=> n < s
  BY <1>1
<1>6. ~(n < s) => (n - s) \div 7 \in Nat
  BY <1>1
<1>7. WeekIndex(start, a) = IF n < s THEN 0 ELSE (n - s) \div 7 + 1
  BY <1>3, <1>5
<1>8. WeekIndex(start, a) \in Nat
  BY <1>6, <1>7
<1>9. WeekIndex(start, a) <= 255 => TermWeek(start, n) = WeekIndex(start, a)
  BY <1>4, <1>6, <1>7
<1> QED
  BY <1>7, <1>8, <1>9 DEF n, s

\* A week and a weekday name one day.
LEMMA OneDay ==
  ASSUME NEW s \in Int, NEW n \in Int, NEW k \in Int, s <= n, s <= k,
         (n - s) \div 7 = (k - s) \div 7, WeekdayOf(n) = WeekdayOf(k)
  PROVE  n = k
<1>1. (n + 3) % 7 = (k + 3) % 7
  <2>1. (n + 3) % 7 \in Int /\ (k + 3) % 7 \in Int
    OBVIOUS
  <2> QED
    BY <2>1 DEF WeekdayOf
<1> QED
  BY <1>1, Z3

---------------------------------------------------------------------------
(* The order of courses                                                    *)

RankOf(c) == <<c.weekday, c.start_min, c.end_min, c.name, c.location, c.weeks_start>>
LexBefore(p, q) == \E i \in 1..6 : p[i] < q[i] /\ \A k \in 1 .. i - 1 : p[k] = q[k]
Ranks == [1..6 -> Int]

\* The order of the keys, component by component, is total.
LEMMA LexOrder ==
  ASSUME NEW p \in Ranks, NEW q \in Ranks, NEW r \in Ranks
  PROVE  /\ ~LexBefore(p, p)
         /\ LexBefore(p, q) /\ LexBefore(q, r) => LexBefore(p, r)
         /\ LexBefore(p, q) \/ LexBefore(q, p) \/ p = q
<1>1. \A i \in 1..6 : p[i] \in Int /\ q[i] \in Int /\ r[i] \in Int
  BY DEF Ranks
<1>2. ~LexBefore(p, p)
  BY <1>1 DEF LexBefore
<1>3. ASSUME LexBefore(p, q), LexBefore(q, r)
      PROVE  LexBefore(p, r)
  <2>1. PICK i \in 1..6 : p[i] < q[i] /\ \A k \in 1 .. i - 1 : p[k] = q[k]
    BY <1>3 DEF LexBefore
  <2>2. PICK j \in 1..6 : q[j] < r[j] /\ \A k \in 1 .. j - 1 : q[k] = r[k]
    BY <1>3 DEF LexBefore
  <2>3. CASE i < j
    <3>1. i \in 1 .. j - 1 /\ \A k \in 1 .. i - 1 : k \in 1 .. j - 1
      BY <2>3
    <3>2. p[i] < r[i] /\ \A k \in 1 .. i - 1 : p[k] = r[k]
      BY <2>1, <2>2, <3>1
    <3> QED
      BY <3>2 DEF LexBefore
  <2>4. CASE i = j
    <3>1. p[i] < r[i]
      BY <1>1, <2>1, <2>2, <2>4
    <3>2. \A k \in 1 .. i - 1 : p[k] = r[k]
      BY <2>1, <2>2, <2>4
    <3> QED
      BY <3>1, <3>2 DEF LexBefore
  <2>5. CASE j < i
    <3>1. j \in 1 .. i - 1 /\ \A k \in 1 .. j - 1 : k \in 1 .. i - 1
      BY <2>5
    <3>2. p[j] < r[j] /\ \A k \in 1 .. j - 1 : p[k] = r[k]
      BY <2>1, <2>2, <3>1
    <3> QED
      BY <3>2 DEF LexBefore
  <2> QED
    BY <2>3, <2>4, <2>5
<1>4. LexBefore(p, q) \/ LexBefore(q, p) \/ p = q
  <2> DEFINE Differ == {i \in 1..6 : p[i] # q[i]}
  <2>1. CASE Differ = {}
    <3>1. \A i \in 1..6 : p[i] = q[i]
      BY <2>1
    <3> QED
      BY <3>1 DEF Ranks
  <2>2. CASE Differ # {}
    <3>1. PICK i \in Differ : \A k \in Differ : i <= k
      <4>1. Differ \subseteq Nat
        OBVIOUS
      <4> HIDE DEF Differ
      <4> QED
        BY <2>2, <4>1, LeastNat
    <3>2. i \in 1..6 /\ p[i] # q[i]
      BY <3>1
    <3>3. ASSUME NEW k \in 1 .. i - 1
          PROVE  p[k] = q[k] /\ q[k] = p[k]
      <4>1. k \in 1..6 /\ ~(i <= k)
        BY <3>2
      <4>2. k \notin Differ
        BY <3>1, <4>1
      <4> QED
        BY <4>1, <4>2
    <3>4. p[i] < q[i] \/ q[i] < p[i]
      BY <1>1, <3>2
    <3> QED
      BY <3>2, <3>3, <3>4 DEF LexBefore
  <2> QED
    BY <2>1, <2>2
<1> QED
  BY <1>2, <1>3, <1>4

\* What the fields of a course are, before the wristband's types are asked.
Ranked(c) ==
    /\ c.weekday \in Int /\ c.start_min \in Int /\ c.end_min \in Int
    /\ c.name \in Int /\ c.location \in Int /\ c.weeks_start \in Int

LEMMA RankType ==
  ASSUME NEW c, Ranked(c)
  PROVE  RankOf(c) \in Ranks
BY DEF Ranked, RankOf, Ranks

\* The listing order compares the six fields one after the other.
LEMMA CourseOrder ==
  ASSUME NEW a, NEW b
  PROVE  CourseBefore(a, b) <=> LexBefore(RankOf(a), RankOf(b))
BY DEF CourseBefore, LexBefore, RankOf

\* The list has the elements of the set, and no other.
LEMMA ListedCourses ==
  ASSUME NEW S, IsFiniteSet(S), \A c \in S : Ranked(c),
         \A a, b \in S : RankOf(a) = RankOf(b) => a = b
  PROVE  LET list == Listed(S, CourseBefore)
             n == Cardinality(S)
         IN  /\ n \in Nat /\ DOMAIN list = 1..n
             /\ \A i \in 1..n : list[i] \in S
             /\ \A c \in S : \E i \in 1..n : list[i] = c
<1> DEFINE n == Cardinality(S)
           Under(e) == {o \in S : CourseBefore(o, e)}
           rank(e) == Cardinality(Under(e))
           list == Listed(S, CourseBefore)
<1>1. n \in Nat
  BY FS_CardinalityType
<1>2. ASSUME NEW a \in S, NEW b \in S, NEW c \in S
      PROVE  /\ ~CourseBefore(a, a)
             /\ CourseBefore(a, b) /\ CourseBefore(b, c) => CourseBefore(a, c)
             /\ CourseBefore(a, b) \/ CourseBefore(b, a) \/ a = b
  <2>1. RankOf(a) \in Ranks /\ RankOf(b) \in Ranks /\ RankOf(c) \in Ranks
    BY RankType
  <2>2. RankOf(a) = RankOf(b) => a = b
    OBVIOUS
  <2> QED
    BY <2>1, <2>2, LexOrder, CourseOrder
<1>3. ASSUME NEW e \in S
      PROVE  IsFiniteSet(Under(e)) /\ rank(e) \in 0 .. n - 1
  <2>1. Under(e) \in SUBSET S /\ Under(e) # S
    BY <1>2
  <2>2. IsFiniteSet(Under(e)) /\ rank(e) <= n /\ rank(e) # n
    <3> HIDE DEF Under
    <3> QED
      BY <2>1, FS_Subset
  <2>3. rank(e) \in Nat
    <3> HIDE DEF Under
    <3> QED
      BY <2>2, FS_CardinalityType
  <2> QED
    BY <1>1, <2>2, <2>3
<1>4. ASSUME NEW a \in S, NEW b \in S, CourseBefore(a, b)
      PROVE  rank(a) # rank(b)
  <2>1. Under(a) \in SUBSET Under(b)
    BY <1>2, <1>4
  <2>2. a \in Under(b) /\ a \notin Under(a)
    BY <1>2, <1>4
  <2>3. IsFiniteSet(Under(b))
    BY <1>3
  <2> HIDE DEF Under
  <2> QED
    BY <2>1, <2>2, <2>3, FS_Subset
<1>5. ASSUME NEW a \in S, NEW b \in S, rank(a) = rank(b)
      PROVE  a = b
  BY <1>2, <1>4, <1>5
<1> HIDE DEF rank
<1> DEFINE f == [e \in S |-> rank(e)]
<1>6. f \in Surjection(S, 0 .. n - 1)
  <2>1. f \in Injection(S, 0 .. n - 1)
    <3>1. f \in [S -> 0 .. n - 1]
      BY <1>3
    <3>2. \A a, b \in S : f[a] = f[b] => a = b
      BY <1>5
    <3> HIDE DEF f
    <3> QED
      BY <3>1, <3>2 DEF Injection, IsInjective
  <2>2. IsFiniteSet(0 .. n - 1) /\ Cardinality(0 .. n - 1) = n
    <3>1. 0 \in Int /\ n - 1 \in Int
      BY <1>1
    <3>2. IsFiniteSet(0 .. n - 1) /\ Cardinality(0 .. n - 1) = IF 0 > n - 1 THEN 0 ELSE (n - 1) - 0 + 1
      BY <3>1, FS_Interval
    <3> QED
      BY <1>1, <3>2
  <2> HIDE DEF f
  <2> QED
    BY <2>1, <2>2, FS_Injection
<1>7. ASSUME NEW i \in 1..n
      PROVE  \E e \in S : rank(e) = i - 1
  <2>1. i - 1 \in 0 .. n - 1
    BY <1>1
  <2>2. PICK e \in S : f[e] = i - 1
    <3> HIDE DEF f
    <3> QED
      BY <1>6, <2>1 DEF Surjection
  <2> QED
    BY <2>2
<1>8. DOMAIN list = 1..n /\ \A i \in 1..n : list[i] = CHOOSE e \in S : rank(e) = i - 1
  BY DEF Listed, rank
<1>9. \A i \in 1..n : list[i] \in S /\ rank(list[i]) = i - 1
  <2> HIDE DEF list, n
  <2> QED
    BY <1>7, <1>8
<1>10. ASSUME NEW c \in S
       PROVE  \E i \in 1..n : list[i] = c
  <2> HIDE DEF list
  <2>0. rank(c) \in 0 .. n - 1
    BY <1>3
  <2> HIDE DEF n
  <2>1. rank(c) + 1 \in 1..n /\ (rank(c) + 1) - 1 = rank(c)
    BY <1>1, <2>0
  <2>2. list[rank(c) + 1] \in S /\ rank(list[rank(c) + 1]) = rank(c)
    BY <1>9, <2>1
  <2>3. list[rank(c) + 1] = c
    BY <1>5, <2>2
  <2> QED
    BY <2>1, <2>3
<1> QED
  BY <1>1, <1>8, <1>9, <1>10

---------------------------------------------------------------------------
(* Weeks, compressed                                                       *)

\* The values of a function on a finite set are finitely many.
LEMMA FiniteValues ==
  ASSUME NEW S, IsFiniteSet(S), NEW f, DOMAIN f = S, f = [x \in S |-> f[x]]
  PROVE  IsFiniteSet({f[x] : x \in S})
<1> DEFINE T == {f[x] : x \in S}
<1>1. f \in Surjection(S, T)
  <2>1. f \in [S -> T]
    OBVIOUS
  <2>2. \A t \in T : \E x \in S : f[x] = t
    OBVIOUS
  <2> QED
    BY <2>1, <2>2 DEF Surjection
<1> HIDE DEF T
<1>2. IsFiniteSet(T)
  BY <1>1, FS_Surjection
<1> QED
  BY <1>2 DEF T

\* A week that a range of the wristband contains.
InRange(r, w) ==
    w \in r.weeks_start .. r.weeks_end /\ (w - r.weeks_start) % r.week_interval = 0

\* Week r[1] to week r[2] without a gap, and no longer run around them.
RunOf(weeks, a, b) ==
    /\ a \in weeks /\ b \in weeks
    /\ a <= b /\ a..b \subseteq weeks /\ a - 1 \notin weeks /\ b + 1 \notin weeks

\* Every week lies in a run of consecutive weeks that cannot be extended.
LEMMA RunFound ==
  ASSUME NEW weeks, weeks \subseteq Nat \ {0}, IsFiniteSet(weeks), NEW w \in weeks
  PROVE  \E a, b \in weeks : RunOf(weeks, a, b) /\ w \in a..b
<1>0. weeks \subseteq Int /\ w \in Int /\ \A v \in weeks : v \in Nat /\ v > 0
  OBVIOUS
<1>1. PICK last \in weeks : \A v \in weeks : v <= last
  BY <1>0, GreatestOfFinite
<1> DEFINE Down == {a \in weeks : a <= w /\ a..w \subseteq weeks}
           Up == {b \in weeks : w <= b /\ w..b \subseteq weeks}
<1>2. PICK a \in Down : \A v \in Down : a <= v
  <2>1. w..w = {w}
    BY <1>0
  <2>2. w..w \subseteq weeks /\ w <= w
    BY <1>0, <2>1
  <2>3. w \in Down
    BY <2>2
  <2>4. Down \subseteq Nat
    BY <1>0
  <2> HIDE DEF Down
  <2> QED
    BY <2>3, <2>4, LeastNat
<1>3. PICK b \in Up : \A v \in Up : v <= b
  <2>1. w..w = {w}
    BY <1>0
  <2>2. w..w \subseteq weeks /\ w <= w
    BY <1>0, <2>1
  <2>3. w \in Up
    BY <2>2
  <2>4. Up \subseteq Int
    BY <1>0
  <2>5. last \in Int /\ \A v \in Up : v <= last
    BY <1>0, <1>1
  <2> HIDE DEF Up
  <2> QED
    BY <2>3, <2>4, <2>5, GreatestInt
<1>4. a \in Nat /\ b \in Nat /\ a <= w /\ w <= b /\ w \in Nat
  BY <1>0, <1>2, <1>3
<1>5. a..b \subseteq weeks
  <2>1. ASSUME NEW v \in a..b
        PROVE  v \in weeks
    <3>1. v \in a..w \/ v \in w..b
      BY <1>4
    <3> QED
      BY <1>2, <1>3, <3>1
  <2> QED
    BY <2>1
<1>6. ASSUME a - 1 \in weeks
      PROVE  FALSE
  <2>1. ASSUME NEW v \in a - 1 .. w
        PROVE  v \in weeks
    <3>1. v = a - 1 \/ v \in a..w
      BY <1>4
    <3> QED
      BY <1>2, <1>6, <3>1
  <2>2. a - 1 <= w /\ ~(a <= a - 1)
    BY <1>4
  <2>3. a - 1 \in Down
    BY <1>6, <2>1, <2>2
  <2> HIDE DEF Down
  <2> QED
    BY <1>2, <2>2, <2>3
<1>7. ASSUME b + 1 \in weeks
      PROVE  FALSE
  <2>1. ASSUME NEW v \in w .. b + 1
        PROVE  v \in weeks
    <3>1. v = b + 1 \/ v \in w..b
      BY <1>4
    <3> QED
      BY <1>3, <1>7, <3>1
  <2>2. w <= b + 1 /\ ~(b + 1 <= b)
    BY <1>4
  <2>3. b + 1 \in Up
    BY <1>7, <2>1, <2>2
  <2> HIDE DEF Up
  <2> QED
    BY <1>3, <2>2, <2>3
<1>8. RunOf(weeks, a, b) /\ w \in a..b
  <2>1. a \in weeks /\ b \in weeks /\ a <= b /\ w \in a..b
    BY <1>2, <1>3, <1>4
  <2> QED
    BY <1>5, <1>6, <1>7, <2>1 DEF RunOf
<1> QED
  BY <1>2, <1>3, <1>8

\* Runs that begin together end together.
LEMMA OneRun ==
  ASSUME NEW weeks, weeks \subseteq Nat \ {0}, NEW a, NEW b, NEW c, RunOf(weeks, a, b), RunOf(weeks, a, c)
  PROVE  b = c
<1>1. /\ a \in Nat /\ b \in Nat /\ c \in Nat /\ a <= b /\ a <= c
      /\ a..b \subseteq weeks /\ a..c \subseteq weeks /\ b + 1 \notin weeks /\ c + 1 \notin weeks
  BY DEF RunOf
<1>2. ASSUME b < c
      PROVE  FALSE
  <2>1. b + 1 \in a..c
    BY <1>1, <1>2
  <2> QED
    BY <1>1, <2>1
<1>3. ASSUME c < b
      PROVE  FALSE
  <2>1. c + 1 \in a..b
    BY <1>1, <1>3
  <2> QED
    BY <1>1, <2>1
<1> QED
  BY <1>1, <1>2, <1>3

\* compress_weeks keeps the weeks, whatever their gaps: a week is in one of the
\* ranges exactly when it was among the weeks, and no two ranges begin alike.
THEOREM CompressedWeeks ==
  ASSUME NEW weeks, weeks \subseteq Nat \ {0}, IsFiniteSet(weeks), weeks # {},
         NEW ranges, ranges = CompressWeeks(weeks)
  PROVE  /\ IsFiniteSet(ranges)
         /\ \A r \in ranges : /\ r = WeekRange(r.weeks_start, r.weeks_end, r.week_interval)
                              /\ r.weeks_start \in weeks /\ r.weeks_end \in weeks
                              /\ r.weeks_start <= r.weeks_end /\ r.week_interval \in 1 .. r.weeks_end
         /\ \A r, q \in ranges : r.weeks_start = q.weeks_start => r = q
         /\ \A w \in Int : w \in weeks <=> \E r \in ranges : InRange(r, w)
<1> DEFINE first == CHOOSE w \in weeks : \A v \in weeks : w <= v
           last == CHOOSE w \in weeks : \A v \in weeks : v <= w
           gap == CHOOSE g \in 1 .. last - first :
                      first + g \in weeks /\ \A v \in weeks : v = first \/ v >= first + g
           runs == {r \in weeks \X weeks :
                        r[1] <= r[2] /\ r[1]..r[2] \subseteq weeks /\ {r[1] - 1, r[2] + 1} \cap weeks = {}}
           even == first # last /\ gap > 1 /\ weeks = {w \in first..last : (w - first) % gap = 0}
<1>0. weeks \subseteq Nat /\ weeks \subseteq Int /\ \A w \in weeks : w \in Nat /\ w > 0
  OBVIOUS
<1>1. first \in weeks /\ \A v \in weeks : first <= v
  BY <1>0, LeastNat
<1>2. last \in weeks /\ \A v \in weeks : v <= last
  BY <1>0, GreatestOfFinite
<1>3. ranges = IF even THEN {WeekRange(first, last, gap)} ELSE {WeekRange(r[1], r[2], 1) : r \in runs}
  BY DEF CompressWeeks
<1>4. first # last => gap \in 1 .. last - first
  <2> HIDE DEF first, last
  <2> DEFINE Others == {g \in 1 .. last - first : first + g \in weeks}
  <2>1. SUFFICES ASSUME first # last
                 PROVE  gap \in 1 .. last - first
    OBVIOUS
  <2>2. last - first \in Others /\ Others \subseteq Nat
    BY <1>0, <1>1, <1>2, <2>1
  <2>3. PICK g \in Others : \A h \in Others : g <= h
    <3> HIDE DEF Others
    <3> QED
      BY <2>2, LeastNat
  <2>4. ASSUME NEW v \in weeks, v # first
        PROVE  v >= first + g
    <3>1. v - first \in 1 .. last - first /\ first + (v - first) = v
      BY <1>0, <1>1, <1>2, <2>4
    <3>2. v - first \in Others
      BY <3>1, <2>4
    <3>3. g <= v - first /\ g \in Nat
      <4> HIDE DEF Others
      <4> QED
        BY <2>2, <2>3, <3>2
    <3> QED
      BY <1>0, <1>1, <3>1, <3>3
  <2>5. g \in 1 .. last - first /\ first + g \in weeks /\ \A v \in weeks : v = first \/ v >= first + g
    BY <2>3, <2>4
  <2> QED
    BY <2>5
<1> HIDE DEF first, last, gap
<1>5. first \in Nat /\ last \in Nat /\ first > 0
  BY <1>0, <1>1, <1>2
<1>6. CASE even
  <2>1. ranges = {WeekRange(first, last, gap)}
    BY <1>3, <1>6
  <2>2. gap \in 1 .. last - first /\ weeks = {w \in first..last : (w - first) % gap = 0}
    BY <1>4, <1>6
  <2> DEFINE r == WeekRange(first, last, gap)
  <2>3. r.weeks_start = first /\ r.weeks_end = last /\ r.week_interval = gap
    BY DEF WeekRange
  <2>4. first <= last /\ gap \in 1..last
    BY <1>1, <1>2, <1>5, <2>2
  <2>5. \A w \in Int : w \in weeks <=> InRange(r, w)
    <3> HIDE DEF r
    <3> QED
      BY <2>2, <2>3 DEF InRange
  <2>6. r = WeekRange(r.weeks_start, r.weeks_end, r.week_interval)
    <3> HIDE DEF even
    <3> QED
      BY <2>3
  <2>7. IsFiniteSet({r})
    <3> HIDE DEF r
    <3> QED
      BY FS_Singleton
  <2>8. ranges = {r}
    BY <2>1
  <2>9. r.weeks_start \in weeks /\ r.weeks_end \in weeks /\ r.weeks_start <= r.weeks_end
    <3> HIDE DEF r, even
    <3> QED
      BY <1>1, <1>2, <2>3, <2>4
  <2>10. r.week_interval \in 1 .. r.weeks_end
    <3> HIDE DEF r, even
    <3> QED
      BY <2>2, <2>3, <2>4
  <2> HIDE DEF r, even
  <2>11. \A q \in ranges : q = r
    BY <2>8
  <2>12. r \in ranges
    BY <2>8
  <2>13. \A w \in Int : w \in weeks <=> \E q \in ranges : InRange(q, w)
    BY <2>5, <2>11, <2>12, Zenon
  <2>14. IsFiniteSet(ranges)
    BY <2>7, <2>8
  <2>15. \A q \in ranges : /\ q = WeekRange(q.weeks_start, q.weeks_end, q.week_interval)
                          /\ q.weeks_start \in weeks /\ q.weeks_end \in weeks
                          /\ q.weeks_start <= q.weeks_end /\ q.week_interval \in 1 .. q.weeks_end
    BY <2>6, <2>9, <2>10, <2>11, Zenon
  <2>16. \A q, p \in ranges : q.weeks_start = p.weeks_start => q = p
    BY <2>11, Zenon
  <2> QED
    BY <2>13, <2>14, <2>15, <2>16, Zenon
<1>7. CASE ~even
  <2>1. ranges = {WeekRange(r[1], r[2], 1) : r \in runs}
    BY <1>3, <1>7
  <2> HIDE DEF even
  <2>2. IsFiniteSet(ranges)
    <3> DEFINE f == [r \in runs |-> WeekRange(r[1], r[2], 1)]
    <3>1. runs \in SUBSET (weeks \X weeks) /\ IsFiniteSet(weeks \X weeks)
      BY FS_Product
    <3>2. IsFiniteSet(runs)
      <4> HIDE DEF runs
      <4> QED
        BY <3>1, FS_Subset
    <3> HIDE DEF runs
    <3>3. ranges = {f[r] : r \in runs}
      BY <2>1
    <3>4. DOMAIN f = runs /\ f = [r \in runs |-> f[r]]
      OBVIOUS
    <3> HIDE DEF f
    <3> QED
      BY <3>2, <3>3, <3>4, FiniteValues
  <2>3. ASSUME NEW r \in ranges
        PROVE  /\ r = WeekRange(r.weeks_start, r.weeks_end, 1) /\ r.week_interval = 1
               /\ RunOf(weeks, r.weeks_start, r.weeks_end)
    <3>1. PICK p \in runs : r = WeekRange(p[1], p[2], 1)
      BY <2>1
    <3>2. r.weeks_start = p[1] /\ r.weeks_end = p[2] /\ r.week_interval = 1
      BY <3>1 DEF WeekRange
    <3>3. RunOf(weeks, p[1], p[2])
      BY DEF RunOf
    <3> QED
      BY <3>1, <3>2, <3>3
  <2>4. ASSUME NEW a \in weeks, NEW b \in weeks, RunOf(weeks, a, b)
        PROVE  WeekRange(a, b, 1) \in ranges
    <3>1. <<a, b>> \in runs
      BY <2>4 DEF RunOf
    <3>2. WeekRange(<<a, b>>[1], <<a, b>>[2], 1) \in ranges
      BY <2>1, <3>1, Zenon
    <3> QED
      BY <3>2
  <2> HIDE DEF runs
  <2>5. ASSUME NEW r \in ranges
        PROVE  /\ r = WeekRange(r.weeks_start, r.weeks_end, r.week_interval)
               /\ r.weeks_start \in weeks /\ r.weeks_end \in weeks
               /\ r.weeks_start <= r.weeks_end /\ r.week_interval \in 1 .. r.weeks_end
    <3>1. r.weeks_start \in weeks /\ r.weeks_end \in weeks /\ r.weeks_start <= r.weeks_end
      BY <2>3 DEF RunOf
    <3>2. r.week_interval = 1 /\ r = WeekRange(r.weeks_start, r.weeks_end, 1)
      BY <2>3
    <3>3. r.weeks_end \in Nat /\ r.weeks_end > 0
      BY <1>0, <3>1
    <3>4. r.week_interval \in 1 .. r.weeks_end
      <4> DEFINE i == r.week_interval
      <4>1. i = 1
        BY <3>2
      <4> HIDE DEF i
      <4>2. i \in 1 .. r.weeks_end
        BY <3>3, <4>1
      <4> QED
        BY <4>2 DEF i
    <3>5. r = WeekRange(r.weeks_start, r.weeks_end, r.week_interval)
      BY <3>2, Zenon
    <3> QED
      BY <3>1, <3>4, <3>5, Zenon
  <2>6. ASSUME NEW r \in ranges, NEW q \in ranges, r.weeks_start = q.weeks_start
        PROVE  r = q
    <3>1. r.weeks_end = q.weeks_end
      BY <2>3, <2>6, OneRun
    <3>2. r = WeekRange(r.weeks_start, r.weeks_end, 1) /\ q = WeekRange(q.weeks_start, q.weeks_end, 1)
      BY <2>3
    <3> QED
      BY <2>6, <3>1, <3>2, Zenon
  <2>7. ASSUME NEW w \in weeks
        PROVE  \E r \in ranges : InRange(r, w)
    <3>1. PICK a \in weeks, b \in weeks : RunOf(weeks, a, b) /\ w \in a..b
      BY RunFound
    <3> DEFINE r == WeekRange(a, b, 1)
    <3>2. r \in ranges /\ r.weeks_start = a /\ r.weeks_end = b /\ r.week_interval = 1
      BY <2>4, <3>1 DEF WeekRange
    <3>3. (w - a) % 1 = 0
      BY <1>0
    <3> HIDE DEF r
    <3>4. InRange(r, w)
      BY <3>1, <3>2, <3>3 DEF InRange
    <3> QED
      BY <3>2, <3>4
  <2>8. ASSUME NEW w \in Int, NEW r \in ranges, InRange(r, w)
        PROVE  w \in weeks
    <3>1. w \in r.weeks_start .. r.weeks_end
      BY <2>8 DEF InRange
    <3>2. r.weeks_start .. r.weeks_end \subseteq weeks
      BY <2>3 DEF RunOf
    <3> QED
      BY <3>1, <3>2
  <2>9. \A w \in Int : w \in weeks <=> \E r \in ranges : InRange(r, w)
    BY <2>7, <2>8, Zenon
  <2>10. \A r \in ranges : /\ r = WeekRange(r.weeks_start, r.weeks_end, r.week_interval)
                           /\ r.weeks_start \in weeks /\ r.weeks_end \in weeks
                           /\ r.weeks_start <= r.weeks_end /\ r.week_interval \in 1 .. r.weeks_end
    BY <2>5, Zenon
  <2>11. \A r, q \in ranges : r.weeks_start = q.weeks_start => r = q
    BY <2>6, Zenon
  <2> QED
    BY <2>2, <2>9, <2>10, <2>11, Zenon
<1> HIDE DEF even
<1> QED
  BY <1>6, <1>7

---------------------------------------------------------------------------
(* What the parser makes of a file                                         *)

\* A point in time on a date that exists.
Moment(t) == CalendarDate(t.date) /\ t.minute \in Nat

\* Minutes carried over midnight, and hours shifted, end on dates that exist.
LEMMA CarriedMoment ==
  ASSUME NEW t, Moment(t), NEW n \in Nat
  PROVE  Moment(Carried(t, n))
<1> DEFINE total == t.minute + n
<1>1. total \div MinutesPerDay \in Int /\ total % MinutesPerDay \in Nat
  BY DEF Moment, MinutesPerDay
<1>2. Carried(t, n) = [date |-> AddDays(t.date, total \div MinutesPerDay), minute |-> total % MinutesPerDay]
  BY DEF Carried, At
<1> HIDE DEF total
<1>3. CalendarDate(AddDays(t.date, total \div MinutesPerDay))
  BY <1>1, AddDaysCounts DEF Moment
<1> QED
  BY <1>1, <1>2, <1>3 DEF Moment

\* Dates and times that are read and accepted exist.
LEMMA DateRead ==
  ASSUME NEW a \in Dates, RealDate(a)
  PROVE  CalendarDate(a)
<1>1. a = Date(a.y, a.m, a.d)
  BY DEF Dates, Date
<1>2. a.y \in Int
  <2> DEFINE Years == 1..9999
             Others == 0..99
  <2>1. a \in [y : Years, m : Others, d : Others]
    BY DEF Dates
  <2>2. \A n \in Years : n \in Int
    OBVIOUS
  <2> HIDE DEF Years, Others
  <2>3. a.y \in Years
    BY <2>1
  <2> QED
    BY <2>2, <2>3
<1> QED
  BY <1>1, <1>2 DEF CalendarDate

LEMMA ParsedMoment ==
  ASSUME NEW s \in Stamps, RealDate(s.date)
  PROVE  Moment(ParseDt(s))
<1>1. s.date \in Dates /\ s.minute \in Nat
  <2>1. s.date \in Dates
    BY Zenon DEF Stamps
  <2>2. s.minute \in 0 .. 100 * 60 - 1
    BY Zenon DEF Stamps
  <2> DEFINE m == s.minute
  <2>3. m \in Nat
    <3>1. m \in 0 .. 100 * 60 - 1
      BY <2>2
    <3> HIDE DEF m
    <3> QED
      BY <3>1
  <2> QED
    BY <2>1, <2>3
<1> DEFINE a == s.date
<1>2. CalendarDate(a)
  BY <1>1, DateRead
<1>3. Moment(At(a, 0)) /\ Moment(At(a, s.minute))
  <2> HIDE DEF a
  <2>1. At(a, 0).date = a /\ At(a, 0).minute = 0
    BY DEF At
  <2>2. At(a, s.minute).date = a /\ At(a, s.minute).minute = s.minute
    BY DEF At
  <2> QED
    BY <1>1, <1>2, <2>1, <2>2 DEF Moment
<1>4. UtcOffset * 60 \in Nat
  BY OffsetAssumption
<1>5. Moment(ShiftHours(At(s.date, s.minute), UtcOffset))
  <2>1. ShiftHours(At(s.date, s.minute), UtcOffset) = Carried(At(s.date, s.minute), UtcOffset * 60)
    BY DEF ShiftHours
  <2> QED
    BY <1>3, <1>4, <2>1, CarriedMoment
<1> QED
  BY <1>3, <1>5 DEF ParseDt

\* An event that was read.
ReadEvent(e) ==
    /\ Moment(e.start) /\ Moment(e.end)
    /\ e.name \in Nat /\ e.location \in Nat /\ e.label \in Nat
    /\ e.rrule \subseteq RuleTexts

\* An event that is read has a beginning and an end on dates that exist.
LEMMA RawEventRead ==
  ASSUME NEW e \in EventTexts, Used(e), ~Malformed(e)
  PROVE  ReadEvent(RawEvent(e))
<1>1. /\ e.summary \subseteq Nat /\ e.location \in Nat /\ e.label \in Nat /\ e.duration \subseteq Nat
      /\ e.dtstart \subseteq Stamps /\ e.dtend \subseteq Stamps /\ e.rrule \subseteq RuleTexts
  BY DEF EventTexts
<1>2. e.summary # {} /\ e.dtstart # {}
  BY DEF Used
<1>3. \A s \in e.dtstart \cup e.dtend : RealDate(s.date)
  BY DEF Malformed
<1>4. Moment(StartOf(e))
  <2> DEFINE s == CHOOSE s \in e.dtstart : TRUE
  <2>1. s \in e.dtstart
    BY <1>2
  <2>2. StartOf(e) = ParseDt(s)
    BY DEF StartOf
  <2> HIDE DEF s
  <2>3. s \in Stamps /\ RealDate(s.date)
    BY <1>1, <1>3, <2>1
  <2> QED
    BY <2>2, <2>3, ParsedMoment
<1>5. Moment(EndOf(e))
  <2>1. CASE e.dtend # {}
    <3> DEFINE s == CHOOSE s \in e.dtend : TRUE
    <3>1. s \in e.dtend
      BY <2>1
    <3>2. EndOf(e) = ParseDt(s)
      BY <2>1 DEF EndOf
    <3> HIDE DEF s
    <3>3. s \in Stamps /\ RealDate(s.date)
      BY <1>1, <1>3, <3>1
    <3> QED
      BY <3>2, <3>3, ParsedMoment
  <2>2. CASE e.dtend = {}
    <3> DEFINE n == Given(e.duration, DefaultMinutes)
    <3>1. n \in Nat
      BY <1>1 DEF Given, DefaultMinutes
    <3>2. EndOf(e) = Carried(StartOf(e), n)
      BY <2>2 DEF EndOf, AddMinutes
    <3> HIDE DEF n
    <3> QED
      BY <1>4, <3>1, <3>2, CarriedMoment
  <2> QED
    BY <2>1, <2>2
<1>6. (CHOOSE n \in e.summary : TRUE) \in Nat
  BY <1>1, <1>2
<1>7. /\ RawEvent(e).start = StartOf(e) /\ RawEvent(e).end = EndOf(e)
      /\ RawEvent(e).name = (CHOOSE n \in e.summary : TRUE)
      /\ RawEvent(e).location = e.location /\ RawEvent(e).label = e.label
      /\ RawEvent(e).rrule = e.rrule
  BY DEF RawEvent
<1> QED
  BY <1>1, <1>4, <1>5, <1>6, <1>7 DEF ReadEvent

\* A file is read into events that keep their places in it.
LEMMA EventsRead ==
  ASSUME NEW text \in Seq(EventTexts), NEW events \in ParseVevents(text)
  PROVE  /\ DOMAIN events \subseteq 1 .. Len(text) /\ DOMAIN events # {}
         /\ IsFiniteSet(DOMAIN events) /\ events = [i \in DOMAIN events |-> events[i]]
         /\ \A i \in DOMAIN events : ReadEvent(events[i])
         /\ ParseVevents(text) = {events}
<1> DEFINE kept == {i \in DOMAIN text : Used(text[i]) /\ Before(StartOf(text[i]), EndOf(text[i]))}
           all == [i \in kept |-> RawEvent(text[i])]
<1>1. ~ \E i \in DOMAIN text : Malformed(text[i])
  BY DEF ParseVevents
<1>2. kept # {} /\ ParseVevents(text) = {all}
  BY <1>1 DEF ParseVevents
<1>3. events = all
  BY <1>2
<1>4. \A i \in DOMAIN text : text[i] \in EventTexts
  OBVIOUS
<1>5. DOMAIN text = 1 .. Len(text) /\ Len(text) \in Nat
  OBVIOUS
<1>6. \A i \in kept : i \in DOMAIN text /\ Used(text[i])
  OBVIOUS
<1> HIDE DEF kept
<1>7. IsFiniteSet(kept)
  <2>1. kept \in SUBSET (1 .. Len(text))
    BY <1>5, <1>6
  <2>2. IsFiniteSet(1 .. Len(text))
    BY <1>5, FS_Interval
  <2> QED
    BY <2>1, <2>2, FS_Subset
<1>8. DOMAIN all = kept /\ \A i \in kept : all[i] = RawEvent(text[i])
  OBVIOUS
<1>9. all = [i \in DOMAIN all |-> all[i]]
  OBVIOUS
<1> HIDE DEF all
<1>10. \A i \in kept : ReadEvent(all[i])
  BY <1>1, <1>4, <1>6, <1>8, RawEventRead
<1>11. DOMAIN all \subseteq 1 .. Len(text)
  BY <1>5, <1>6, <1>8
<1> QED
  BY <1>2, <1>3, <1>7, <1>8, <1>9, <1>10, <1>11

\* An event's weekly rule.
LEMMA RuleType ==
  ASSUME NEW e, ReadEvent(e), \A r \in e.rrule : \A s \in r.until : RealDate(s.date)
  PROVE  LET rule == RuleOf(e)
         IN  /\ rule.interval \in Nat \ {0} /\ rule.byday \subseteq 1..7
             /\ rule.count \subseteq Nat \ {0} /\ \A u \in rule.until : Moment(u)
<1>1. CASE e.rrule = {}
  <2>1. RuleOf(e) = WeeklyRule(1, {}, {}, {})
    BY <1>1 DEF RuleOf
  <2>2. /\ RuleOf(e).interval = 1 /\ RuleOf(e).until = {}
        /\ RuleOf(e).count = {} /\ RuleOf(e).byday = {}
    BY <2>1 DEF WeeklyRule
  <2> QED
    BY <2>2
<1>2. CASE e.rrule # {}
  <2> DEFINE r == CHOOSE r \in e.rrule : TRUE
  <2>1. r \in e.rrule
    BY <1>2
  <2>2. RuleOf(e) = ParseWeeklyRule(r)
    BY <1>2 DEF RuleOf
  <2> HIDE DEF r
  <2>3. /\ r.interval \subseteq Nat /\ r.until \subseteq Stamps /\ r.count \subseteq Nat
        /\ r.byday \subseteq 1..7
    BY <2>1 DEF ReadEvent, RuleTexts
  <2>4. \A u \in {ParseDt(s) : s \in r.until} : Moment(u)
    BY <2>1, <2>3, ParsedMoment
  <2>5. AtLeastOne(Given(r.interval, 1)) \in Nat \ {0}
    <3>1. Given(r.interval, 1) \in Nat
      <4>1. CASE r.interval = {}
        BY <4>1 DEF Given
      <4>2. CASE r.interval # {}
        <5>1. (CHOOSE v \in r.interval : TRUE) \in r.interval
          BY <4>2
        <5> QED
          BY <2>3, <4>2, <5>1 DEF Given
      <4> QED
        BY <4>1, <4>2
    <3> QED
      BY <3>1 DEF AtLeastOne
  <2>6. {AtLeastOne(n) : n \in r.count} \subseteq Nat \ {0}
    BY <2>3 DEF AtLeastOne
  <2>7. CASE r.freq # "WEEKLY"
    <3>1. RuleOf(e) = WeeklyRule(1, {}, {1}, {})
      BY <2>2, <2>7 DEF ParseWeeklyRule
    <3> QED
      BY <3>1 DEF WeeklyRule
  <2>8. CASE r.freq = "WEEKLY"
    <3> DEFINE interval == AtLeastOne(Given(r.interval, 1))
               until == {ParseDt(s) : s \in r.until}
               count == {AtLeastOne(n) : n \in r.count}
    <3>1. RuleOf(e) = WeeklyRule(interval, until, count, r.byday)
      BY <2>2, <2>8 DEF ParseWeeklyRule
    <3> HIDE DEF interval, until, count
    <3>2. /\ RuleOf(e).interval = interval /\ RuleOf(e).until = until
          /\ RuleOf(e).count = count /\ RuleOf(e).byday = r.byday
      BY <3>1 DEF WeeklyRule
    <3> QED
      BY <2>3, <2>4, <2>5, <2>6, <3>2 DEF interval, until, count
  <2> QED
    BY <2>7, <2>8
<1> QED
  BY <1>1, <1>2

---------------------------------------------------------------------------
(* The schedule that is emitted                                            *)

\* What of a course tells it from the others of its day.
Lesson(c) == [name |-> c.name, location |-> c.location, start_min |-> c.start_min, end_min |-> c.end_min]

\* A course keeps the fields of its key and of its range.
LEMMA NumberedCourse ==
  ASSUME NEW key, NEW range, NEW i
  PROVE  LET c == CourseOf(key, range)
             n == Numbered(c, i)
         IN  /\ n.id = i /\ n.weekday = key.weekday
             /\ n.start_min = key.start_min /\ n.end_min = key.end_min
             /\ n.name = key.name /\ n.location = key.location
             /\ n.weeks_start = range.weeks_start /\ n.weeks_end = range.weeks_end
             /\ n.week_interval = range.week_interval
<1> DEFINE c == CourseOf(key, range)
           fields == {"weekday", "start_min", "end_min", "name", "location", "weeks_start", "weeks_end",
                      "week_interval"}
<1>1. DOMAIN c = fields
  BY DEF CourseOf
<1>2. /\ c.weekday = key.weekday /\ c.start_min = key.start_min /\ c.end_min = key.end_min
      /\ c.name = key.name /\ c.location = key.location
      /\ c.weeks_start = range.weeks_start /\ c.weeks_end = range.weeks_end
      /\ c.week_interval = range.week_interval
  BY DEF CourseOf
<1> HIDE DEF c
<1>3. Numbered(c, i) = [f \in fields \cup {"id"} |-> IF f = "id" THEN i ELSE c[f]]
  BY <1>1 DEF Numbered
<1>4. \A f \in fields : f # "id" /\ f \in fields \cup {"id"}
  OBVIOUS
<1>5. "id" \in fields \cup {"id"}
  OBVIOUS
<1> HIDE DEF fields
<1>6. Numbered(c, i)["id"] = i /\ \A f \in fields : Numbered(c, i)[f] = c[f]
  BY <1>3, <1>4, <1>5
<1>7. /\ "weekday" \in fields /\ "start_min" \in fields /\ "end_min" \in fields /\ "name" \in fields
      /\ "location" \in fields /\ "weeks_start" \in fields /\ "weeks_end" \in fields
      /\ "week_interval" \in fields
  BY DEF fields
<1> QED
  BY <1>2, <1>6, <1>7 DEF c

\* A key of the map that the dialects merge into, as merge_into makes it.
Key(k) ==
    /\ k = [weekday |-> k.weekday, start_min |-> k.start_min, end_min |-> k.end_min,
            name |-> k.name, location |-> k.location]
    /\ k.weekday \in 1..7 /\ k.start_min \in Nat /\ k.end_min \in Nat /\ k.name \in Nat /\ k.location \in Nat

\* The map as pairs of a key and one of its weeks.
Merging(groups) ==
    /\ IsFiniteSet(groups)
    /\ \A g \in groups : g = <<g[1], g[2]>> /\ Key(g[1]) /\ g[2] \in Nat \ {0}

WeeksOf(groups, key) == {g[2] : g \in {h \in groups : h[1] = key}}
CoursesOf(groups) ==
    UNION {{CourseOf(key, range) : range \in CompressWeeks(WeeksOf(groups, key))} : key \in {g[1] : g \in groups}}

\* The weeks merged under a key.
LEMMA WeeksOfKey ==
  ASSUME NEW groups, Merging(groups), NEW g \in groups
  PROVE  LET weeks == WeeksOf(groups, g[1])
         IN  /\ weeks \subseteq Nat \ {0} /\ IsFiniteSet(weeks) /\ weeks # {}
             /\ \A w : w \in weeks <=> <<g[1], w>> \in groups
<1> DEFINE mine == {h \in groups : h[1] = g[1]}
           f == [h \in mine |-> h[2]]
           weeks == WeeksOf(groups, g[1])
<1>1. IsFiniteSet(mine)
  <2>1. mine \in SUBSET groups /\ IsFiniteSet(groups)
    BY DEF Merging
  <2> HIDE DEF mine
  <2> QED
    BY <2>1, FS_Subset
<1>2. weeks = {h[2] : h \in mine}
  BY DEF WeeksOf
<1>3. \A h \in mine : h \in groups /\ h[1] = g[1]
  OBVIOUS
<1>4. g \in mine
  OBVIOUS
<1>5. \A h \in groups : h[1] = g[1] => h \in mine
  OBVIOUS
<1> HIDE DEF mine
<1>6. weeks = {f[h] : h \in mine} /\ DOMAIN f = mine /\ f = [h \in mine |-> f[h]]
  BY <1>2
<1>7. IsFiniteSet(weeks)
  <2> HIDE DEF f, weeks
  <2> QED
    BY <1>1, <1>6, FiniteValues
<1> HIDE DEF f, weeks
<1>8. weeks \subseteq Nat \ {0}
  BY <1>2, <1>3 DEF Merging
<1>9. weeks # {}
  BY <1>2, <1>4
<1>10. ASSUME NEW w, w \in weeks
       PROVE  <<g[1], w>> \in groups
  <2>1. PICK h \in mine : w = h[2]
    BY <1>2, <1>10
  <2>2. h = <<h[1], h[2]>> /\ h \in groups /\ h[1] = g[1]
    BY <1>3, <2>1 DEF Merging
  <2> QED
    BY <2>1, <2>2
<1>11. ASSUME NEW w, <<g[1], w>> \in groups
       PROVE  w \in weeks
  <2>1. <<g[1], w>>[1] = g[1] /\ <<g[1], w>>[2] = w
    OBVIOUS
  <2>2. <<g[1], w>> \in mine
    BY <1>5, <1>11, <2>1
  <2> QED
    BY <1>2, <2>1, <2>2
<1> QED
  BY <1>7, <1>8, <1>9, <1>10, <1>11 DEF weeks

\* A course of the map: a key, and a range of the weeks of this key.
RangeOf(groups, key, range) ==
    \E g \in groups : key = g[1] /\ range \in CompressWeeks(WeeksOf(groups, key))

\* The courses are the ranges of the keys' weeks.
LEMMA CourseFound ==
  ASSUME NEW groups, NEW c
  PROVE  c \in CoursesOf(groups) <=> \E key, range : RangeOf(groups, key, range) /\ c = CourseOf(key, range)
<1>1. ASSUME c \in CoursesOf(groups)
      PROVE  \E key, range : RangeOf(groups, key, range) /\ c = CourseOf(key, range)
  <2>1. PICK g \in groups : c \in {CourseOf(g[1], range) : range \in CompressWeeks(WeeksOf(groups, g[1]))}
    BY <1>1 DEF CoursesOf
  <2>2. PICK range \in CompressWeeks(WeeksOf(groups, g[1])) : c = CourseOf(g[1], range)
    BY <2>1
  <2> QED
    BY <2>1, <2>2 DEF RangeOf
<1>2. ASSUME NEW key, NEW range, RangeOf(groups, key, range), c = CourseOf(key, range)
      PROVE  c \in CoursesOf(groups)
  <2>1. key \in {g[1] : g \in groups} /\ range \in CompressWeeks(WeeksOf(groups, key))
    BY <1>2 DEF RangeOf
  <2>2. c \in {CourseOf(key, r) : r \in CompressWeeks(WeeksOf(groups, key))}
    BY <1>2, <2>1
  <2> QED
    BY <2>1, <2>2 DEF CoursesOf
<1> QED
  BY <1>1, <1>2

\* The numbers of a course before it is sent.
LEMMA RangeType ==
  ASSUME NEW groups, Merging(groups), NEW key, NEW range, RangeOf(groups, key, range)
  PROVE  /\ Key(key)
         /\ range = WeekRange(range.weeks_start, range.weeks_end, range.week_interval)
         /\ range.weeks_start \in Nat \ {0} /\ range.weeks_end \in Nat /\ range.weeks_start <= range.weeks_end
         /\ range.week_interval \in 1 .. range.weeks_end
<1>1. PICK g \in groups : key = g[1] /\ range \in CompressWeeks(WeeksOf(groups, key))
  BY DEF RangeOf
<1> DEFINE weeks == WeeksOf(groups, key)
           ranges == CompressWeeks(weeks)
<1>2. weeks \subseteq Nat \ {0} /\ IsFiniteSet(weeks) /\ weeks # {}
  BY <1>1, WeeksOfKey
<1>3. Key(key)
  BY <1>1 DEF Merging
<1>4. range \in ranges
  BY <1>1
<1> HIDE DEF weeks
<1>5. \A r \in ranges : /\ r = WeekRange(r.weeks_start, r.weeks_end, r.week_interval)
                        /\ r.weeks_start \in weeks /\ r.weeks_end \in weeks
                        /\ r.weeks_start <= r.weeks_end /\ r.week_interval \in 1 .. r.weeks_end
  BY <1>2, CompressedWeeks
<1> HIDE DEF ranges
<1> QED
  BY <1>2, <1>3, <1>4, <1>5

\* There are finitely many courses, and the listing order tells them apart.
LEMMA CoursesFinite ==
  ASSUME NEW groups, Merging(groups)
  PROVE  IsFiniteSet(CoursesOf(groups))
<1> DEFINE keys == {g[1] : g \in groups}
           f == [g \in groups |-> g[1]]
           of(key) == {CourseOf(key, range) : range \in CompressWeeks(WeeksOf(groups, key))}
           F == [key \in keys |-> of(key)]
<1>1. IsFiniteSet(keys)
  <2>1. keys = {f[g] : g \in groups} /\ DOMAIN f = groups /\ f = [g \in groups |-> f[g]]
    OBVIOUS
  <2>2. IsFiniteSet(groups)
    BY DEF Merging
  <2> HIDE DEF f, keys
  <2> QED
    BY <2>1, <2>2, FiniteValues
<1>2. ASSUME NEW key \in keys
      PROVE  IsFiniteSet(of(key))
  <2>1. PICK g \in groups : key = g[1]
    OBVIOUS
  <2> DEFINE weeks == WeeksOf(groups, key)
             ranges == CompressWeeks(weeks)
             h == [range \in ranges |-> CourseOf(key, range)]
  <2>2. weeks \subseteq Nat \ {0} /\ IsFiniteSet(weeks) /\ weeks # {}
    BY <2>1, WeeksOfKey
  <2>3. IsFiniteSet(ranges)
    <3> HIDE DEF weeks
    <3> QED
      BY <2>2, CompressedWeeks
  <2>4. of(key) = {h[range] : range \in ranges} /\ DOMAIN h = ranges /\ h = [range \in ranges |-> h[range]]
    OBVIOUS
  <2> HIDE DEF h, ranges, of
  <2> QED
    BY <2>3, <2>4, FiniteValues
<1>3. CoursesOf(groups) = UNION {of(key) : key \in keys}
  BY DEF CoursesOf
<1>4. {of(key) : key \in keys} = {F[key] : key \in keys} /\ DOMAIN F = keys /\ F = [key \in keys |-> F[key]]
  OBVIOUS
<1> HIDE DEF keys
<1>5. IsFiniteSet({of(key) : key \in keys})
  <2> HIDE DEF F
  <2>1. IsFiniteSet({F[key] : key \in keys})
    BY <1>1, <1>4, FiniteValues
  <2> QED
    BY <1>4, <2>1
<1>6. \A S \in {of(key) : key \in keys} : IsFiniteSet(S)
  <2> HIDE DEF of
  <2> QED
    BY <1>2
<1> HIDE DEF of
<1> QED
  BY <1>3, <1>5, <1>6, FS_UNION

LEMMA CoursesRanked ==
  ASSUME NEW groups, Merging(groups)
  PROVE  /\ \A c \in CoursesOf(groups) : Ranked(c)
         /\ \A a, b \in CoursesOf(groups) : RankOf(a) = RankOf(b) => a = b
<1>1. ASSUME NEW c \in CoursesOf(groups)
      PROVE  Ranked(c)
  <2>1. PICK key, range : RangeOf(groups, key, range) /\ c = CourseOf(key, range)
    BY CourseFound
  <2>2. Key(key) /\ range.weeks_start \in Nat
    BY <2>1, RangeType
  <2>3. /\ c.weekday = key.weekday /\ c.start_min = key.start_min /\ c.end_min = key.end_min
        /\ c.name = key.name /\ c.location = key.location /\ c.weeks_start = range.weeks_start
    BY <2>1 DEF CourseOf
  <2> QED
    BY <2>2, <2>3 DEF Ranked, Key
<1>2. ASSUME NEW a \in CoursesOf(groups), NEW b \in CoursesOf(groups), RankOf(a) = RankOf(b)
      PROVE  a = b
  <2>1. PICK key, range : RangeOf(groups, key, range) /\ a = CourseOf(key, range)
    BY CourseFound
  <2>2. PICK key2, range2 : RangeOf(groups, key2, range2) /\ b = CourseOf(key2, range2)
    BY CourseFound
  <2>3. /\ a.weekday = key.weekday /\ a.start_min = key.start_min /\ a.end_min = key.end_min
        /\ a.name = key.name /\ a.location = key.location /\ a.weeks_start = range.weeks_start
    BY <2>1 DEF CourseOf
  <2>4. /\ b.weekday = key2.weekday /\ b.start_min = key2.start_min /\ b.end_min = key2.end_min
        /\ b.name = key2.name /\ b.location = key2.location /\ b.weeks_start = range2.weeks_start
    BY <2>2 DEF CourseOf
  <2>5. /\ a.weekday = b.weekday /\ a.start_min = b.start_min /\ a.end_min = b.end_min
        /\ a.name = b.name /\ a.location = b.location /\ a.weeks_start = b.weeks_start
    <3> DEFINE p == RankOf(a)
               q == RankOf(b)
    <3>1. p[1] = q[1] /\ p[2] = q[2] /\ p[3] = q[3] /\ p[4] = q[4] /\ p[5] = q[5] /\ p[6] = q[6]
      BY <1>2
    <3> QED
      BY <3>1 DEF RankOf
  <2>6. key = key2
    <3>1. Key(key) /\ Key(key2)
      BY <2>1, <2>2, RangeType
    <3>2. /\ key.weekday = key2.weekday /\ key.start_min = key2.start_min /\ key.end_min = key2.end_min
          /\ key.name = key2.name /\ key.location = key2.location
      BY <2>3, <2>4, <2>5
    <3>3. key = [weekday |-> key.weekday, start_min |-> key.start_min, end_min |-> key.end_min,
                 name |-> key.name, location |-> key.location]
      BY <3>1 DEF Key
    <3>4. key2 = [weekday |-> key2.weekday, start_min |-> key2.start_min, end_min |-> key2.end_min,
                  name |-> key2.name, location |-> key2.location]
      BY <3>1 DEF Key
    <3> QED
      BY <3>2, <3>3, <3>4, Zenon
  <2>7. PICK g \in groups : key = g[1] /\ range \in CompressWeeks(WeeksOf(groups, key))
    BY <2>1 DEF RangeOf
  <2>8. range2 \in CompressWeeks(WeeksOf(groups, key))
    BY <2>2, <2>6 DEF RangeOf
  <2> DEFINE weeks == WeeksOf(groups, key)
             ranges == CompressWeeks(weeks)
  <2>9. weeks \subseteq Nat \ {0} /\ IsFiniteSet(weeks) /\ weeks # {}
    BY <2>7, WeeksOfKey
  <2>10. \A r, q \in ranges : r.weeks_start = q.weeks_start => r = q
    <3> HIDE DEF weeks
    <3> QED
      BY <2>9, CompressedWeeks
  <2>11. range = range2
    BY <2>3, <2>4, <2>5, <2>7, <2>8, <2>10
  <2> QED
    BY <2>1, <2>2, <2>6, <2>11
<1> QED
  BY <1>1, <1>2

\* A course of a schedule, and the key and range it was made of.
MadeOf(c, id, key, range) ==
    /\ c.id = id /\ c.weekday = key.weekday /\ Lesson(c) = Lesson(key)
    /\ c.start_min = key.start_min /\ c.end_min = key.end_min /\ c.name = key.name
    /\ c.weeks_start = range.weeks_start /\ c.weeks_end = range.weeks_end
    /\ c.week_interval = range.week_interval

\* The courses are numbered from 1 and come from the map, all of it.
LEMMA Emitted ==
  ASSUME NEW groups, Merging(groups), NEW start, NEW s \in EmitSchedule(groups, start)
  PROVE  /\ s.start_date = start
         /\ \E n \in Nat : DOMAIN s.courses = 1..n
         /\ \A i \in DOMAIN s.courses : i \in Nat \ {0} /\ \E key, range :
                RangeOf(groups, key, range) /\ MadeOf(s.courses[i], i, key, range)
         /\ \A key, range : RangeOf(groups, key, range) =>
                \E i \in DOMAIN s.courses : MadeOf(s.courses[i], i, key, range)
<1> DEFINE courses == CoursesOf(groups)
           list == Listed(courses, CourseBefore)
           n == Cardinality(courses)
           numbered == [i \in DOMAIN list |-> Numbered(list[i], i)]
<1>1. EmitSchedule(groups, start) =
          IF courses = {} THEN {} ELSE {[start_date |-> start, courses |-> numbered]}
  BY DEF EmitSchedule, CoursesOf, WeeksOf
<1>2. s = [start_date |-> start, courses |-> numbered]
  <2> HIDE DEF courses, numbered
  <2> QED
    BY <1>1
<1>3. s.start_date = start /\ s.courses = numbered
  <2> HIDE DEF numbered
  <2> QED
    BY <1>2
<1>4. /\ n \in Nat /\ DOMAIN list = 1..n
      /\ \A i \in 1..n : list[i] \in courses
      /\ \A c \in courses : \E i \in 1..n : list[i] = c
  <2>1. /\ IsFiniteSet(courses) /\ \A c \in courses : Ranked(c)
        /\ \A a, b \in courses : RankOf(a) = RankOf(b) => a = b
    BY CoursesFinite, CoursesRanked
  <2> HIDE DEF courses
  <2> QED
    BY <2>1, ListedCourses
<1>5. DOMAIN numbered = 1..n /\ \A i \in 1..n : numbered[i] = Numbered(list[i], i)
  <2> HIDE DEF list, n
  <2> QED
    BY <1>4
<1> HIDE DEF list, n, numbered, courses
<1>6. ASSUME NEW i \in 1..n, NEW key, NEW range, list[i] = CourseOf(key, range)
      PROVE  MadeOf(numbered[i], i, key, range)
  <2> DEFINE c == numbered[i]
  <2>1. c = Numbered(CourseOf(key, range), i)
    BY <1>5, <1>6
  <2>2. /\ c.id = i /\ c.weekday = key.weekday
        /\ c.start_min = key.start_min /\ c.end_min = key.end_min
        /\ c.name = key.name /\ c.location = key.location
        /\ c.weeks_start = range.weeks_start /\ c.weeks_end = range.weeks_end
        /\ c.week_interval = range.week_interval
    BY <2>1, NumberedCourse
  <2> HIDE DEF c
  <2>3. Lesson(c) = Lesson(key)
    BY <2>2 DEF Lesson
  <2>4. MadeOf(c, i, key, range)
    BY <2>2, <2>3 DEF MadeOf
  <2> QED
    BY <2>4 DEF c
<1>7. ASSUME NEW i \in 1..n
      PROVE  \E key, range : RangeOf(groups, key, range) /\ MadeOf(numbered[i], i, key, range)
  <2>1. list[i] \in CoursesOf(groups)
    BY <1>4 DEF courses
  <2>2. PICK key, range : RangeOf(groups, key, range) /\ list[i] = CourseOf(key, range)
    BY <2>1, CourseFound
  <2> QED
    BY <1>6, <2>2
<1>8. ASSUME NEW key, NEW range, RangeOf(groups, key, range)
      PROVE  \E i \in 1..n : MadeOf(numbered[i], i, key, range)
  <2>1. CourseOf(key, range) \in courses
    BY <1>8, CourseFound DEF courses
  <2>2. PICK i \in 1..n : list[i] = CourseOf(key, range)
    BY <1>4, <2>1
  <2> QED
    BY <1>6, <2>2
<1>9. \A i \in 1..n : i \in Nat \ {0}
  BY <1>4
<1> QED
  BY <1>3, <1>4, <1>5, <1>7, <1>8, <1>9

\* The lessons that a schedule has in a week, on a weekday, are those of the
\* pairs of the map.
HasLessonsOf(s, groups, week, weekday) ==
    /\ \A i \in CoursesOnDay(s.courses, week, weekday) :
         \E g \in groups : g[2] = week /\ g[1].weekday = weekday /\ Lesson(s.courses[i]) = Lesson(g[1])
    /\ \A g \in groups : g[2] = week /\ g[1].weekday = weekday =>
         \E i \in CoursesOnDay(s.courses, week, weekday) : Lesson(s.courses[i]) = Lesson(g[1])

\* A week and weekday has the lessons of the keys that were merged in it:
\* compressed by the plugin, counted again by the wristband.
LEMMA EmittedLessons ==
  ASSUME NEW groups, Merging(groups), NEW start, NEW s \in EmitSchedule(groups, start),
         NEW week \in Int, NEW weekday
  PROVE  HasLessonsOf(s, groups, week, weekday)
<1> DEFINE those == CoursesOnDay(s.courses, week, weekday)
<1>1. ASSUME NEW key, NEW range, RangeOf(groups, key, range), NEW c, NEW i, MadeOf(c, i, key, range)
      PROVE  ActiveInWeek(c, week) <=> InRange(range, week)
  <2>1. c.weeks_start = range.weeks_start /\ c.weeks_end = range.weeks_end
        /\ c.week_interval = range.week_interval
    BY <1>1 DEF MadeOf
  <2>2. range.week_interval # 0
    BY <1>1, RangeType
  <2> QED
    BY <2>1, <2>2 DEF ActiveInWeek, InRange
<1>2. ASSUME NEW i \in those
      PROVE  \E g \in groups : g[2] = week /\ g[1].weekday = weekday /\ Lesson(s.courses[i]) = Lesson(g[1])
  <2>1. i \in DOMAIN s.courses /\ s.courses[i].weekday = weekday /\ ActiveInWeek(s.courses[i], week)
    BY DEF CoursesOnDay
  <2>2. PICK key, range : RangeOf(groups, key, range) /\ MadeOf(s.courses[i], i, key, range)
    BY <2>1, Emitted
  <2>3. InRange(range, week)
    BY <1>1, <2>1, <2>2
  <2>4. PICK g \in groups : key = g[1] /\ range \in CompressWeeks(WeeksOf(groups, key))
    BY <2>2 DEF RangeOf
  <2> DEFINE weeks == WeeksOf(groups, key)
  <2>5. /\ weeks \subseteq Nat \ {0} /\ IsFiniteSet(weeks) /\ weeks # {}
        /\ \A w : w \in weeks <=> <<key, w>> \in groups
    BY <2>4, WeeksOfKey
  <2>6. week \in weeks
    <3>1. range \in CompressWeeks(weeks)
      BY <2>4
    <3> HIDE DEF weeks
    <3> QED
      BY <2>3, <2>5, <3>1, CompressedWeeks
  <2>7. <<key, week>> \in groups
    BY <2>5, <2>6
  <2>8. key.weekday = weekday /\ Lesson(s.courses[i]) = Lesson(key)
    BY <2>1, <2>2 DEF MadeOf
  <2>9. <<key, week>>[1] = key /\ <<key, week>>[2] = week
    OBVIOUS
  <2> QED
    BY <2>7, <2>8, <2>9
<1>3. ASSUME NEW g \in groups, g[2] = week, g[1].weekday = weekday
      PROVE  \E i \in those : Lesson(s.courses[i]) = Lesson(g[1])
  <2>1. g \in groups /\ g[2] = week /\ g[1].weekday = weekday
    BY <1>3
  <2> DEFINE key == g[1]
             weeks == WeeksOf(groups, key)
  <2>2. <<key, week>> \in groups
    BY <2>1 DEF Merging
  <2>3. /\ weeks \subseteq Nat \ {0} /\ IsFiniteSet(weeks) /\ weeks # {}
        /\ \A w : w \in weeks <=> <<key, w>> \in groups
    BY <2>1, WeeksOfKey
  <2>4. PICK range \in CompressWeeks(weeks) : InRange(range, week)
    <3>1. week \in weeks
      BY <2>2, <2>3
    <3> HIDE DEF weeks
    <3> QED
      BY <2>3, <3>1, CompressedWeeks
  <2>5. RangeOf(groups, key, range)
    BY <2>1 DEF RangeOf
  <2>6. PICK i \in DOMAIN s.courses : MadeOf(s.courses[i], i, key, range)
    BY <2>5, Emitted
  <2>7. ActiveInWeek(s.courses[i], week)
    BY <1>1, <2>4, <2>5, <2>6
  <2>8. s.courses[i].weekday = weekday /\ Lesson(s.courses[i]) = Lesson(key)
    BY <2>1, <2>6 DEF MadeOf
  <2>9. i \in those
    BY <2>7, <2>8 DEF CoursesOnDay
  <2> QED
    BY <2>8, <2>9
<1> HIDE DEF those
<1> QED
  BY <1>2, <1>3 DEF those, HasLessonsOf

---------------------------------------------------------------------------
(* From the events that were found to the map                              *)

\* An event on one of its weekdays, with its weeks.
GoodFind(f) ==
    ReadEvent(f.event) /\ f.weekday \in 1..7 /\ f.weeks \subseteq Nat /\ IsFiniteSet(f.weeks)
GoodFinds(found) == IsFiniteSet(found) /\ \A f \in found : GoodFind(f)

EventLesson(e) ==
    [name |-> e.name, location |-> e.location, start_min |-> e.start.minute, end_min |-> e.end.minute]

\* A key carries the event's lesson.
LEMMA EventKey ==
  ASSUME NEW e, ReadEvent(e), NEW weekday \in 1..7
  PROVE  LET key == CourseKey(e, weekday)
         IN  Key(key) /\ key.weekday = weekday /\ Lesson(key) = EventLesson(e)
<1> DEFINE key == CourseKey(e, weekday)
<1>1. /\ key.weekday = weekday /\ key.start_min = e.start.minute /\ key.end_min = e.end.minute
      /\ key.name = e.name /\ key.location = e.location
  BY DEF CourseKey
<1>2. key = [weekday |-> key.weekday, start_min |-> key.start_min, end_min |-> key.end_min,
             name |-> key.name, location |-> key.location]
  BY DEF CourseKey
<1>3. e.start.minute \in Nat /\ e.end.minute \in Nat /\ e.name \in Nat /\ e.location \in Nat
  BY DEF ReadEvent, Moment
<1> HIDE DEF key
<1>4. Key(key)
  BY <1>1, <1>2, <1>3 DEF Key
<1>5. Lesson(key) = EventLesson(e)
  BY <1>1 DEF Lesson, EventLesson
<1> QED
  BY <1>1, <1>4, <1>5 DEF key

\* What is merged, pair by pair.
LEMMA GroupsFound ==
  ASSUME NEW found, NEW g
  PROVE  g \in Groups(found) <=>
             \E f \in found : \E w \in f.weeks : w >= 1 /\ g = <<CourseKey(f.event, f.weekday), w>>
<1>1. ASSUME g \in Groups(found)
      PROVE  \E f \in found : \E w \in f.weeks : w >= 1 /\ g = <<CourseKey(f.event, f.weekday), w>>
  <2>1. PICK f \in found : g \in Merged(CourseKey(f.event, f.weekday), f.weeks)
    BY <1>1 DEF Groups
  <2>2. PICK w \in {v \in f.weeks : v >= 1} : g = <<CourseKey(f.event, f.weekday), w>>
    BY <2>1 DEF Merged
  <2> QED
    BY <2>1, <2>2
<1>2. ASSUME NEW f \in found, NEW w \in f.weeks, w >= 1, g = <<CourseKey(f.event, f.weekday), w>>
      PROVE  g \in Groups(found)
  <2>1. w \in {v \in f.weeks : v >= 1}
    BY <1>2
  <2>2. g \in Merged(CourseKey(f.event, f.weekday), f.weeks)
    BY <1>2, <2>1 DEF Merged
  <2> QED
    BY <2>2 DEF Groups
<1> QED
  BY <1>1, <1>2

LEMMA GroupsMerging ==
  ASSUME NEW found, GoodFinds(found)
  PROVE  Merging(Groups(found))
<1> DEFINE of(f) == Merged(CourseKey(f.event, f.weekday), f.weeks)
           F == [f \in found |-> of(f)]
<1>1. ASSUME NEW f \in found
      PROVE  IsFiniteSet(of(f))
  <2> DEFINE key == CourseKey(f.event, f.weekday)
             weeks == {v \in f.weeks : v >= 1}
             h == [w \in weeks |-> <<key, w>>]
  <2>1. IsFiniteSet(f.weeks) /\ weeks \in SUBSET f.weeks
    BY DEF GoodFinds, GoodFind
  <2>2. of(f) = {<<key, w>> : w \in weeks}
    BY DEF Merged
  <2> HIDE DEF weeks, of, key
  <2>3. IsFiniteSet(weeks)
    BY <2>1, FS_Subset
  <2>4. of(f) = {h[w] : w \in weeks} /\ DOMAIN h = weeks /\ h = [w \in weeks |-> h[w]]
    BY <2>2
  <2> HIDE DEF h
  <2> QED
    BY <2>3, <2>4, FiniteValues
<1>2. Groups(found) = UNION {of(f) : f \in found}
  BY DEF Groups
<1>3. {of(f) : f \in found} = {F[f] : f \in found} /\ DOMAIN F = found /\ F = [f \in found |-> F[f]]
  OBVIOUS
<1>4. \A S \in {of(f) : f \in found} : IsFiniteSet(S)
  <2> HIDE DEF of
  <2> QED
    BY <1>1
<1> HIDE DEF of
<1>5. IsFiniteSet({of(f) : f \in found})
  <2> HIDE DEF F
  <2>1. IsFiniteSet(found)
    BY DEF GoodFinds
  <2>2. IsFiniteSet({F[f] : f \in found})
    BY <1>3, <2>1, FiniteValues
  <2> QED
    BY <1>3, <2>2
<1>6. IsFiniteSet(Groups(found))
  BY <1>2, <1>4, <1>5, FS_UNION
<1>7. ASSUME NEW g \in Groups(found)
      PROVE  g = <<g[1], g[2]>> /\ Key(g[1]) /\ g[2] \in Nat \ {0}
  <2>1. PICK f \in found : \E w \in f.weeks : w >= 1 /\ g = <<CourseKey(f.event, f.weekday), w>>
    BY GroupsFound
  <2>2. PICK w \in f.weeks : w >= 1 /\ g = <<CourseKey(f.event, f.weekday), w>>
    BY <2>1
  <2>3. ReadEvent(f.event) /\ f.weekday \in 1..7 /\ w \in Nat
    BY <2>1 DEF GoodFinds, GoodFind
  <2>4. Key(CourseKey(f.event, f.weekday))
    BY <2>3, EventKey
  <2> QED
    BY <2>2, <2>3, <2>4
<1> QED
  BY <1>6, <1>7 DEF Merging

\* A schedule has the lessons that were found, in the weeks that were found.
LessonsIn(s, week, weekday) == {Lesson(s.courses[i]) : i \in CoursesOnDay(s.courses, week, weekday)}
LessonsFound(found, week, weekday) ==
    {EventLesson(f.event) : f \in {h \in found : h.weekday = weekday /\ week \in h.weeks}}

\* What the wristband finds on a weekday of a week is what the dialect found.
LEMMA ScheduleLessons ==
  ASSUME NEW found, GoodFinds(found), NEW start, NEW s \in EmitSchedule(Groups(found), start),
         NEW week \in Nat \ {0}, NEW weekday \in 1..7
  PROVE  LessonsIn(s, week, weekday) = LessonsFound(found, week, weekday)
<1> DEFINE groups == Groups(found)
           finds == {h \in found : h.weekday = weekday /\ week \in h.weeks}
           those == CoursesOnDay(s.courses, week, weekday)
<1>1. /\ \A i \in those :
             \E g \in groups : g[2] = week /\ g[1].weekday = weekday /\ Lesson(s.courses[i]) = Lesson(g[1])
      /\ \A g \in groups : g[2] = week /\ g[1].weekday = weekday =>
             \E i \in those : Lesson(s.courses[i]) = Lesson(g[1])
  <2>1. Merging(groups) /\ s \in EmitSchedule(groups, start)
    BY GroupsMerging
  <2>2. week \in Int
    OBVIOUS
  <2>3. HasLessonsOf(s, groups, week, weekday)
    <3> HIDE DEF groups
    <3> QED
      BY <2>1, <2>2, EmittedLessons
  <2> QED
    BY <2>3 DEF HasLessonsOf
<1>2. ASSUME NEW g \in groups, g[2] = week, g[1].weekday = weekday
      PROVE  \E f \in finds : Lesson(g[1]) = EventLesson(f.event)
  <2>1. PICK f \in found : \E w \in f.weeks : w >= 1 /\ g = <<CourseKey(f.event, f.weekday), w>>
    BY GroupsFound
  <2>2. PICK w \in f.weeks : w >= 1 /\ g = <<CourseKey(f.event, f.weekday), w>>
    BY <2>1
  <2>3. ReadEvent(f.event) /\ f.weekday \in 1..7
    BY <2>1 DEF GoodFinds, GoodFind
  <2>4. g[1] = CourseKey(f.event, f.weekday) /\ g[2] = w
    BY <2>2
  <2>5. w = week /\ g[1].weekday = weekday
    BY <1>2, <2>4
  <2>6. g[1].weekday = f.weekday /\ Lesson(g[1]) = EventLesson(f.event)
    BY <2>3, <2>4, EventKey
  <2>7. f \in finds
    BY <2>1, <2>2, <2>5, <2>6
  <2> QED
    BY <2>6, <2>7
<1>3. ASSUME NEW f \in finds
      PROVE  \E g \in groups : g[2] = week /\ g[1].weekday = weekday /\ Lesson(g[1]) = EventLesson(f.event)
  <2>1. f \in found /\ f.weekday = weekday /\ week \in f.weeks /\ week >= 1
    OBVIOUS
  <2>2. ReadEvent(f.event) /\ f.weekday \in 1..7
    BY <2>1 DEF GoodFinds, GoodFind
  <2> DEFINE key == CourseKey(f.event, f.weekday)
  <2>3. key.weekday = weekday /\ Lesson(key) = EventLesson(f.event)
    BY <2>1, <2>2, EventKey
  <2>4. <<key, week>> \in groups
    BY <2>1, GroupsFound
  <2>5. <<key, week>>[1] = key /\ <<key, week>>[2] = week
    OBVIOUS
  <2> HIDE DEF key, groups
  <2> QED
    BY <2>3, <2>4, <2>5
<1> HIDE DEF groups, finds, those
<1>4. \A i \in those : \E f \in finds : Lesson(s.courses[i]) = EventLesson(f.event)
  BY <1>1, <1>2
<1>5. \A f \in finds : \E i \in those : Lesson(s.courses[i]) = EventLesson(f.event)
  BY <1>1, <1>3
<1> QED
  BY <1>4, <1>5 DEF finds, those, LessonsIn, LessonsFound

---------------------------------------------------------------------------
(* The three dialects                                                      *)

\* A file has finitely many events.
LEMMA ElementsFinite ==
  ASSUME NEW events, IsFiniteSet(DOMAIN events), events = [i \in DOMAIN events |-> events[i]]
  PROVE  IsFiniteSet(Elements(events)) /\ \A e : e \in Elements(events) <=> \E i \in DOMAIN events : e = events[i]
<1>1. Elements(events) = {events[i] : i \in DOMAIN events}
  BY DEF Elements
<1>2. IsFiniteSet({events[i] : i \in DOMAIN events})
  <2> DEFINE D == DOMAIN events
  <2>1. IsFiniteSet(D) /\ events = [i \in D |-> events[i]] /\ DOMAIN events = D
    OBVIOUS
  <2> HIDE DEF D
  <2>2. IsFiniteSet({events[i] : i \in D})
    BY <2>1, FiniteValues
  <2> QED
    BY <2>1, <2>2
<1> QED
  BY <1>1, <1>2

\* The first day of a file's events.
LEMMA FirstDateFound ==
  ASSUME NEW text \in Seq(EventTexts), NEW events \in ParseVevents(text)
  PROVE  CalendarDate(FirstDate(events))
<1> DEFINE D == DOMAIN events
           f == [i \in D |-> 0 - GregorianDay(events[i].start.date)]
           N == {f[i] : i \in D}
           dates == {events[i].start.date : i \in D}
           first == CHOOSE d \in dates : \A o \in dates \ {d} : DateBefore(d, o)
<1>1. IsFiniteSet(D) /\ D # {} /\ \A i \in D : ReadEvent(events[i])
  BY EventsRead
<1> HIDE DEF D
<1>2. \A i \in D : CalendarDate(events[i].start.date)
  BY <1>1 DEF ReadEvent, Moment
<1>3. \A i \in D : f[i] = 0 - GregorianDay(events[i].start.date) /\ GregorianDay(events[i].start.date) \in Int
  BY <1>2, CalendarDay
<1>4. DOMAIN f = D /\ f = [i \in D |-> f[i]]
  OBVIOUS
<1> HIDE DEF f
<1>5. N \subseteq Int /\ N # {}
  BY <1>1, <1>3
<1>6. IsFiniteSet(N)
  BY <1>1, <1>4, FiniteValues
<1>7. PICK x \in N : \A y \in N : y <= x
  <2> HIDE DEF N
  <2> QED
    BY <1>5, <1>6, GreatestOfFinite
<1>8. PICK i \in D : x = f[i]
  BY <1>7
<1>9. \A a \in dates : CalendarDate(a)
  BY <1>2
<1>10. events[i].start.date \in dates
  OBVIOUS
<1>11. ASSUME NEW o \in dates \ {events[i].start.date}
       PROVE  DateBefore(events[i].start.date, o)
  <2>1. PICK j \in D : o = events[j].start.date
    OBVIOUS
  <2>2. f[j] <= f[i]
    BY <1>7, <1>8
  <2>3. GregorianDay(events[i].start.date) <= GregorianDay(o)
    BY <1>3, <2>1, <2>2
  <2>4. CalendarDate(o) /\ CalendarDate(events[i].start.date) /\ o # events[i].start.date
    BY <1>2, <2>1
  <2>5. GregorianDay(events[i].start.date) # GregorianDay(o)
    BY <2>4, DayOrder
  <2>6. GregorianDay(events[i].start.date) < GregorianDay(o)
    BY <1>3, <2>1, <2>3, <2>5
  <2> QED
    BY <2>4, <2>6, DayOrder
<1> HIDE DEF dates
<1>12. first \in dates
  BY <1>10, <1>11
<1>13. FirstDate(events) = first
  BY DEF FirstDate, first, dates, D
<1> HIDE DEF first
<1> QED
  BY <1>9, <1>12, <1>13

\* The term starts on a date that exists, entered, computed or counted back
\* from the first week that is named.
LEMMA MondayDate ==
  ASSUME NEW a, CalendarDate(a)
  PROVE  CalendarDate(MondayOfWeek(a))
<1>1. -(WeekdayIso(a) - 1) \in Int
  BY WeekdayOfDay
<1> QED
  BY <1>1, AddDaysCounts DEF MondayOfWeek

LEMMA TermStartDate ==
  ASSUME NEW text \in Seq(EventTexts), NEW events \in ParseVevents(text), NEW term_start, term_start \subseteq Dates,
         NEW start \in TermStartFromDates(term_start, events)
  PROVE  CalendarDate(start)
<1>1. CASE term_start # {}
  <2>1. start \in Dates /\ RealDate(start)
    BY <1>1 DEF TermStartFromDates
  <2> QED
    BY <2>1, DateRead
<1>2. CASE term_start = {}
  <2>1. start = MondayOfWeek(FirstDate(events))
    BY <1>2 DEF TermStartFromDates
  <2> QED
    BY <2>1, FirstDateFound, MondayDate
<1> QED
  BY <1>1, <1>2

LEMMA NexioStartDate ==
  ASSUME NEW text \in Seq(EventTexts), NEW events \in ParseVevents(text), NEW term_start, term_start \subseteq Dates,
         NEW start \in NexioTermStart(term_start, events)
  PROVE  CalendarDate(start)
<1>1. CASE ~(term_start = {} /\ \E i \in DOMAIN events : events[i].label >= 1)
  <2>1. start \in TermStartFromDates(term_start, events)
    BY <1>1 DEF NexioTermStart
  <2> QED
    BY <2>1, TermStartDate
<1>2. CASE term_start = {} /\ \E i \in DOMAIN events : events[i].label >= 1
  <2> DEFINE labelled == {i \in DOMAIN events : events[i].label >= 1}
             first == FirstLabelled(events)
  <2>1. DOMAIN events \subseteq 1 .. Len(text) /\ \A i \in DOMAIN events : ReadEvent(events[i])
    BY EventsRead
  <2>2. labelled \subseteq Nat /\ labelled # {}
    BY <1>2, <2>1
  <2>3. PICK i \in labelled : \A j \in labelled : i <= j
    <3> HIDE DEF labelled
    <3> QED
      BY <2>2, LeastNat
  <2>4. i \in DOMAIN events /\ events[i].label >= 1
    OBVIOUS
  <2>5. ASSUME NEW j \in DOMAIN events, j < i
        PROVE  events[j].label < 1
    <3>1. j \in Nat /\ i \in Nat /\ events[j].label \in Nat
      BY <2>1, <2>4 DEF ReadEvent
    <3>2. j \notin labelled
      BY <2>3, <2>5, <3>1
    <3> QED
      BY <3>1, <3>2
  <2>6. first \in DOMAIN events
    BY <2>4, <2>5 DEF FirstLabelled
  <2> HIDE DEF first
  <2> DEFINE e == events[first]
             back == -((e.label - 1) * 7)
             monday == MondayOfWeek(e.start.date)
  <2>7. start = AddDays(monday, back)
    BY <1>2 DEF NexioTermStart, first
  <2>8. CalendarDate(e.start.date) /\ e.label \in Nat
    BY <2>1, <2>6 DEF ReadEvent, Moment
  <2>9. back \in Int
    BY <2>8
  <2>10. CalendarDate(monday)
    BY <2>8, MondayDate
  <2> HIDE DEF back, monday, e
  <2> QED
    BY <2>7, <2>9, <2>10, AddDaysCounts
<1> QED
  BY <1>1, <1>2

RealRules(e) == \A r \in e.rrule : \A s \in r.until : RealDate(s.date)

\* The day of a repetition: whole weeks after the first of its weekday.
LEMMA RepetitionDay ==
  ASSUME NEW e, ReadEvent(e), RealRules(e), NEW weekday \in 1..7, NEW k \in Nat
  PROVE  LET delta == (weekday - WeekdayIso(e.start.date)) % 7
         IN  /\ CalendarDate(Repetition(e, weekday, k))
             /\ GregorianDay(Repetition(e, weekday, k)) =
                    GregorianDay(e.start.date) + delta + 7 * RuleOf(e).interval * k
<1> DEFINE a == e.start.date
           own == WeekdayIso(a)
           delta == (weekday - own) % 7
           interval == RuleOf(e).interval
           further == 7 * interval * k
<1>1. CalendarDate(a)
  BY DEF ReadEvent, Moment
<1>2. own \in 1..7
  BY <1>1, WeekdayOfDay
<1>3. interval \in Nat
  BY RuleType DEF RealRules
<1>4. Repetition(e, weekday, k) = AddDays(AddDays(a, delta), further)
  BY DEF Repetition
<1> HIDE DEF own, interval
<1>5. delta \in Int /\ further \in Int
  BY <1>2, <1>3
<1> HIDE DEF a, delta, further
<1>6. CalendarDate(AddDays(a, delta)) /\ GregorianDay(AddDays(a, delta)) = GregorianDay(a) + delta
  BY <1>1, <1>5, AddDaysCounts
<1>7. /\ CalendarDate(AddDays(AddDays(a, delta), further))
      /\ GregorianDay(AddDays(AddDays(a, delta), further)) = GregorianDay(AddDays(a, delta)) + further
  BY <1>5, <1>6, AddDaysCounts
<1>8. GregorianDay(Repetition(e, weekday, k)) = GregorianDay(a) + delta + further
  BY <1>4, <1>6, <1>7
<1> QED
  BY <1>4, <1>7, <1>8 DEF a, delta, further, own, interval

\* The weeks of a rule, on one of its weekdays.
LEMMA WeeksExpanded ==
  ASSUME NEW e, ReadEvent(e), RealRules(e), NEW weekday \in 1..7, NEW start, CalendarDate(start)
  PROVE  ExpandWeeks(e, weekday, start) \subseteq Nat /\ IsFiniteSet(ExpandWeeks(e, weekday, start))
<1> DEFINE R == Repeats(e, weekday)
           f == [k \in R |-> Repetition(e, weekday, k)]
           dates == {f[k] : k \in R}
           kept == dates \ e.exdates
           g == [d \in kept |-> WeekIndex(start, d)]
<1>1. R \in SUBSET (0 .. MaxOccurrences - 1)
  BY DEF Repeats
<1>2. IsFiniteSet(R)
  <2>1. MaxOccurrences - 1 \in Int
    BY OccurrencesAssumption
  <2>2. IsFiniteSet(0 .. MaxOccurrences - 1)
    BY <2>1, FS_Interval
  <2> HIDE DEF R
  <2> QED
    BY <1>1, <2>2, FS_Subset
<1>3. \A k \in R : k \in Nat
  BY <1>1, OccurrencesAssumption
<1>4. ExpandWeeks(e, weekday, start) = {WeekIndex(start, d) : d \in kept}
  BY DEF ExpandWeeks
<1> HIDE DEF R
<1>5. \A k \in R : CalendarDate(f[k])
  <2>1. \A k \in R : CalendarDate(Repetition(e, weekday, k))
    BY <1>3, RepetitionDay
  <2> QED
    BY <2>1
<1>6. IsFiniteSet(dates)
  <2>1. DOMAIN f = R /\ f = [k \in R |-> f[k]]
    OBVIOUS
  <2> HIDE DEF f
  <2> QED
    BY <1>2, <2>1, FiniteValues
<1>7. \A d \in dates : CalendarDate(d)
  <2> HIDE DEF f
  <2> QED
    BY <1>5
<1>8. kept \in SUBSET dates
  OBVIOUS
<1> HIDE DEF dates
<1>9. IsFiniteSet(kept)
  <2> HIDE DEF kept
  <2> QED
    BY <1>6, <1>8, FS_Subset
<1>10. \A d \in kept : WeekIndex(start, d) \in Nat
  BY <1>7, <1>8, SameWeek
<1> HIDE DEF kept
<1>11. {WeekIndex(start, d) : d \in kept} = {g[d] : d \in kept} /\ DOMAIN g = kept /\ g = [d \in kept |-> g[d]]
  OBVIOUS
<1>12. IsFiniteSet({g[d] : d \in kept})
  <2> HIDE DEF g
  <2> QED
    BY <1>9, <1>11, FiniteValues
<1>13. IsFiniteSet(ExpandWeeks(e, weekday, start))
  BY <1>4, <1>11, <1>12
<1>14. ExpandWeeks(e, weekday, start) \subseteq Nat
  BY <1>4, <1>10
<1> QED
  BY <1>13, <1>14

\* What a dialect finds for one event, and for all events of a file.
FoundBy(source, e, start) ==
    IF source = "WakeUp" THEN {Found(e, d, ExpandWeeks(e, d, start)) : d \in WeekdaysForEvent(e)}
    ELSE IF source = "WeekDown" THEN {InWeek(e, WeekIndex(start, e.start.date))}
    ELSE {InWeek(e, LabelledWeek(e, start))}
AllFound(source, events, start) == UNION {FoundBy(source, e, start) : e \in Elements(events)}

\* The weekdays of a rule.
LEMMA EventWeekdays ==
  ASSUME NEW e, ReadEvent(e), RealRules(e)
  PROVE  WeekdaysForEvent(e) \subseteq 1..7 /\ IsFiniteSet(WeekdaysForEvent(e))
<1>1. WeekdayIso(e.start.date) \in 1..7
  BY WeekdayOfDay DEF ReadEvent, Moment
<1>2. RuleOf(e).byday \subseteq 1..7
  BY RuleType DEF RealRules
<1>3. WeekdaysForEvent(e) \in SUBSET (1..7)
  BY <1>1, <1>2 DEF WeekdaysForEvent
<1> DEFINE week == 1..7
           W == WeekdaysForEvent(e)
<1>4. IsFiniteSet(week)
  <2>1. PICK a \in Int, b \in Int : a = 1 /\ b = 7
    OBVIOUS
  <2>2. IsFiniteSet(a..b)
    BY FS_Interval
  <2>3. week = a..b
    BY <2>1
  <2> QED
    BY <2>2, <2>3
<1>5. W \in SUBSET week
  BY <1>3
<1> HIDE DEF week, W
<1>6. IsFiniteSet(W)
  BY <1>4, <1>5, FS_Subset
<1> QED
  BY <1>5, <1>6 DEF week, W

\* Every dialect finds weekdays and weeks that can be merged.
LEMMA FoundByGood ==
  ASSUME NEW e, ReadEvent(e), NEW source, source = "WakeUp" => RealRules(e), NEW start, CalendarDate(start)
  PROVE  GoodFinds(FoundBy(source, e, start)) /\ \A f \in FoundBy(source, e, start) : f.event = e
<1>1. CalendarDate(e.start.date) /\ e.label \in Nat
  BY DEF ReadEvent, Moment
<1>2. ASSUME NEW w \in Nat
      PROVE  GoodFinds({InWeek(e, w)}) /\ \A f \in {InWeek(e, w)} : f.event = e
  <2> DEFINE f == InWeek(e, w)
  <2>1. f.event = e /\ f.weekday = WeekdayIso(e.start.date) /\ f.weeks = {w}
    BY DEF InWeek, Found
  <2> HIDE DEF f
  <2>2. f.weekday \in 1..7
    BY <1>1, <2>1, WeekdayOfDay
  <2>3. IsFiniteSet(f.weeks) /\ IsFiniteSet({f})
    BY <2>1, FS_Singleton
  <2>4. f.weeks \subseteq Nat
    BY <2>1
  <2>5. GoodFind(f)
    BY <2>1, <2>2, <2>3, <2>4 DEF GoodFind
  <2>6. \A h \in {f} : h = f
    OBVIOUS
  <2>7. GoodFinds({f})
    BY <2>3, <2>5, <2>6 DEF GoodFinds
  <2> QED
    BY <2>1, <2>6, <2>7 DEF f
<1>3. CASE source = "WakeUp"
  <2> DEFINE W == WeekdaysForEvent(e)
             h == [d \in W |-> Found(e, d, ExpandWeeks(e, d, start))]
             found == FoundBy(source, e, start)
  <2>1. W \subseteq 1..7 /\ IsFiniteSet(W)
    BY <1>3, EventWeekdays
  <2>2. found = {Found(e, d, ExpandWeeks(e, d, start)) : d \in W}
    BY <1>3 DEF FoundBy
  <2> HIDE DEF found, W
  <2>3. IsFiniteSet(found)
    <3>1. found = {h[d] : d \in W} /\ DOMAIN h = W /\ h = [d \in W |-> h[d]]
      BY <2>2
    <3> HIDE DEF h
    <3> QED
      BY <2>1, <3>1, FiniteValues
  <2>4. ASSUME NEW f \in found
        PROVE  GoodFind(f) /\ f.event = e
    <3>1. PICK d \in W : f = Found(e, d, ExpandWeeks(e, d, start))
      BY <2>2
    <3>2. f.event = e /\ f.weekday = d /\ f.weeks = ExpandWeeks(e, d, start)
      BY <3>1 DEF Found
    <3>3. d \in 1..7 /\ ExpandWeeks(e, d, start) \subseteq Nat /\ IsFiniteSet(ExpandWeeks(e, d, start))
      BY <1>3, <2>1, WeeksExpanded
    <3> QED
      BY <3>2, <3>3 DEF GoodFind
  <2> QED
    BY <2>3, <2>4 DEF GoodFinds, found
<1>4. CASE source = "WeekDown"
  <2>1. FoundBy(source, e, start) = {InWeek(e, WeekIndex(start, e.start.date))}
    BY <1>4 DEF FoundBy
  <2>2. WeekIndex(start, e.start.date) \in Nat
    BY <1>1, SameWeek
  <2> QED
    BY <1>2, <2>1, <2>2
<1>5. CASE source # "WakeUp" /\ source # "WeekDown"
  <2>1. FoundBy(source, e, start) = {InWeek(e, LabelledWeek(e, start))}
    BY <1>5 DEF FoundBy
  <2>2. LabelledWeek(e, start) \in Nat
    <3>1. WeekIndex(start, e.start.date) \in Nat
      BY <1>1, SameWeek
    <3> QED
      BY <1>1, <3>1 DEF LabelledWeek
  <2> QED
    BY <1>2, <2>1, <2>2
<1> QED
  BY <1>3, <1>4, <1>5

LEMMA AllFoundGood ==
  ASSUME NEW text \in Seq(EventTexts), NEW events \in ParseVevents(text), NEW start, CalendarDate(start),
         NEW source, source = "WakeUp" => RulesParse(events)
  PROVE  GoodFinds(AllFound(source, events, start))
<1> DEFINE E == Elements(events)
           F == [e \in E |-> FoundBy(source, e, start)]
           found == AllFound(source, events, start)
<1>1. IsFiniteSet(E) /\ \A e \in E : ReadEvent(e) /\ (source = "WakeUp" => RealRules(e))
  <2>1. /\ IsFiniteSet(DOMAIN events) /\ events = [i \in DOMAIN events |-> events[i]]
        /\ \A i \in DOMAIN events : ReadEvent(events[i])
    BY EventsRead
  <2>2. IsFiniteSet(E) /\ \A e : e \in E <=> \E i \in DOMAIN events : e = events[i]
    BY <2>1, ElementsFinite
  <2> HIDE DEF E
  <2>3. ASSUME source = "WakeUp", NEW i \in DOMAIN events
        PROVE  RealRules(events[i])
    BY <2>3 DEF RulesParse, RealRules
  <2> QED
    BY <2>1, <2>2, <2>3
<1> HIDE DEF E
<1>2. \A e \in E : GoodFinds(FoundBy(source, e, start))
  BY <1>1, FoundByGood
<1>3. found = UNION {FoundBy(source, e, start) : e \in E}
  BY DEF AllFound, E
<1> HIDE DEF found
<1>4. {FoundBy(source, e, start) : e \in E} = {F[e] : e \in E} /\ DOMAIN F = E /\ F = [e \in E |-> F[e]]
  OBVIOUS
<1>5. IsFiniteSet({F[e] : e \in E})
  <2> HIDE DEF F
  <2> QED
    BY <1>1, <1>4, FiniteValues
<1>6. \A S \in {FoundBy(source, e, start) : e \in E} : IsFiniteSet(S)
  BY <1>2 DEF GoodFinds
<1>7. IsFiniteSet(found)
  <2>1. IsFiniteSet({FoundBy(source, e, start) : e \in E})
    BY <1>4, <1>5
  <2> QED
    BY <1>3, <1>6, <2>1, FS_UNION
<1>8. \A f \in found : GoodFind(f)
  BY <1>2, <1>3 DEF GoodFinds
<1>9. GoodFinds(found)
  BY <1>7, <1>8 DEF GoodFinds
<1> QED
  BY <1>9 DEF found

\* A schedule that is sent was emitted from what its dialect found, for a
\* term that starts on a date.
Converted(s, source, events, start) ==
    /\ CalendarDate(start)
    /\ source = "WakeUp" => RulesParse(events)
    /\ s \in EmitSchedule(Groups(AllFound(source, events, start)), start)

\* A conversion that does not fail emits what one dialect found in the file.
LEMMA ConvertedFile ==
  ASSUME NEW text \in Seq(EventTexts), NEW source \in Sources, NEW term_start, term_start \subseteq Dates,
         NEW s \in ConvertIcsText(text, source, term_start)
  PROVE  \E events \in ParseVevents(text) : \E start : Converted(s, source, events, start)
<1>1. CASE source = "WakeUp"
  <2>1. PICK events \in ParseVevents(text) : s \in WakeUp(events, term_start)
    BY <1>1 DEF ConvertIcsText
  <2>2. PICK start \in {t \in TermStartFromDates(term_start, events) : RulesParse(events)} :
            s \in EmitSchedule(Groups(UNION {{Found(e, d, ExpandWeeks(e, d, start)) : d \in WeekdaysForEvent(e)}
                                             : e \in Elements(events)}), start)
    BY <2>1 DEF WakeUp
  <2>3. AllFound(source, events, start) =
            UNION {{Found(e, d, ExpandWeeks(e, d, start)) : d \in WeekdaysForEvent(e)} : e \in Elements(events)}
    BY <1>1 DEF AllFound, FoundBy
  <2>4. CalendarDate(start) /\ RulesParse(events)
    BY <2>2, TermStartDate
  <2> QED
    BY <2>2, <2>3, <2>4 DEF Converted
<1>2. CASE source = "WeekDown"
  <2>1. PICK events \in ParseVevents(text) : s \in WeekDown(events, term_start)
    BY <1>2 DEF ConvertIcsText
  <2>2. PICK start \in TermStartFromDates(term_start, events) :
            s \in EmitSchedule(Groups({InWeek(e, WeekIndex(start, e.start.date)) : e \in Elements(events)}), start)
    BY <2>1 DEF WeekDown
  <2>3. AllFound(source, events, start) = {InWeek(e, WeekIndex(start, e.start.date)) : e \in Elements(events)}
    BY <1>2 DEF AllFound, FoundBy
  <2>4. CalendarDate(start)
    BY <2>2, TermStartDate
  <2> QED
    BY <1>2, <2>2, <2>3, <2>4 DEF Converted
<1>3. CASE source = "Nexio"
  <2>1. PICK events \in ParseVevents(text) : s \in Nexio(events, term_start)
    BY <1>3 DEF ConvertIcsText
  <2>2. PICK start \in NexioTermStart(term_start, events) :
            s \in EmitSchedule(Groups({InWeek(e, LabelledWeek(e, start)) : e \in Elements(events)}), start)
    BY <2>1 DEF Nexio
  <2>3. AllFound(source, events, start) = {InWeek(e, LabelledWeek(e, start)) : e \in Elements(events)}
    BY <1>3 DEF AllFound, FoundBy
  <2>4. CalendarDate(start)
    BY <2>2, NexioStartDate
  <2> QED
    BY <1>3, <2>2, <2>3, <2>4 DEF Converted
<1> QED
  BY <1>1, <1>2, <1>3 DEF Sources

\* What every schedule is that the plugin may send.
LEMMA SentSchedule ==
  ASSUME NEW text \in Seq(EventTexts), NEW source \in Sources, NEW term_start, term_start \subseteq Dates,
         NEW s \in ConvertIcsText(text, source, term_start)
  PROVE  /\ CalendarDate(s.start_date)
         /\ \E n \in Nat : DOMAIN s.courses = 1..n
         /\ \A i \in DOMAIN s.courses :
                LET c == s.courses[i]
                IN  /\ c.id \in Nat \ {0} /\ c.weekday \in 1..7
                    /\ c.start_min \in Nat /\ c.end_min \in Nat
                    /\ c.weeks_start \in Nat \ {0} /\ c.weeks_end \in Nat /\ c.weeks_start <= c.weeks_end
                    /\ c.week_interval \in 1 .. c.weeks_end
<1>0. PICK events \in ParseVevents(text) : \E start : Converted(s, source, events, start)
  BY ConvertedFile
<1>1. PICK start : Converted(s, source, events, start)
  BY <1>0
<1> DEFINE groups == Groups(AllFound(source, events, start))
<1>2. Merging(groups) /\ s \in EmitSchedule(groups, start) /\ CalendarDate(start)
  BY <1>1, AllFoundGood, GroupsMerging DEF Converted
<1> HIDE DEF groups
<1>3. /\ s.start_date = start /\ \E n \in Nat : DOMAIN s.courses = 1..n
      /\ \A i \in DOMAIN s.courses : i \in Nat \ {0} /\ \E key, range :
             RangeOf(groups, key, range) /\ MadeOf(s.courses[i], i, key, range)
  BY <1>2, Emitted
<1>4. ASSUME NEW i \in DOMAIN s.courses
      PROVE  LET c == s.courses[i]
             IN  /\ c.id \in Nat \ {0} /\ c.weekday \in 1..7
                 /\ c.start_min \in Nat /\ c.end_min \in Nat
                 /\ c.weeks_start \in Nat \ {0} /\ c.weeks_end \in Nat /\ c.weeks_start <= c.weeks_end
                 /\ c.week_interval \in 1 .. c.weeks_end
  <2> DEFINE c == s.courses[i]
  <2>1. PICK key, range : RangeOf(groups, key, range) /\ MadeOf(c, i, key, range)
    BY <1>3
  <2>2. /\ Key(key) /\ range.weeks_start \in Nat \ {0} /\ range.weeks_end \in Nat
        /\ range.weeks_start <= range.weeks_end /\ range.week_interval \in 1 .. range.weeks_end
    BY <1>2, <2>1, RangeType
  <2>3. i \in Nat \ {0}
    BY <1>3
  <2> HIDE DEF c
  <2>4. /\ c.id \in Nat \ {0} /\ c.weekday \in 1..7 /\ c.start_min \in Nat /\ c.end_min \in Nat
        /\ c.weeks_start \in Nat \ {0} /\ c.weeks_end \in Nat /\ c.weeks_start <= c.weeks_end
        /\ c.week_interval \in 1 .. c.weeks_end
    BY <2>1, <2>2, <2>3 DEF MadeOf, Key
  <2> QED
    BY <2>4 DEF c
<1> QED
  BY <1>2, <1>3, <1>4

---------------------------------------------------------------------------
(* What is on the wrist                                                    *)

\* Only a schedule that the plugin made of the file gets onto the wrist.
MadeOfFile ==
    \/ schedule = NoSchedule
    \/ ValidImport(schedule) /\ schedule \in ConvertIcsText(import.text, import.source, import.term_start)

\* Nothing but the import changes the schedule.
LEMMA MadeStep == MadeOfFile /\ [Next]_vars => MadeOfFile'
<1> SUFFICES ASSUME MadeOfFile, [Next]_vars
             PROVE  MadeOfFile'
  OBVIOUS
<1>1. CASE Import
  <2>1. PICK s \in ConvertIcsText(import.text, import.source, import.term_start) :
            ValidImport(s) /\ schedule' = s
    BY <1>1 DEF Import
  <2>2. import' = import
    BY <1>1 DEF Import
  <2>3. ValidImport(schedule')
    BY <2>1
  <2>4. schedule' \in ConvertIcsText(import'.text, import'.source, import'.term_start)
    BY <2>1, <2>2
  <2> QED
    BY <2>3, <2>4 DEF MadeOfFile
<1>2. ASSUME UNCHANGED <<schedule, import>>
      PROVE  MadeOfFile'
  BY <1>2 DEF MadeOfFile
<1>3. CASE \E m \in Minutes : Pass(m)
  BY <1>2, <1>3 DEF Pass
<1>4. CASE Midnight
  BY <1>2, <1>4 DEF Midnight
<1>5. CASE UNCHANGED vars
  BY <1>2, <1>5 DEF vars
<1> QED
  BY <1>1, <1>3, <1>4, <1>5 DEF Next

\* The invariant: the wall shows a date that exists with its day number, and the
\* schedule is empty or what the plugin made of the file and the wristband
\* accepts.
THEOREM TimetableInvariant == Spec => [](WallAgrees /\ MadeOfFile)
<1>1. Init => MadeOfFile
  BY DEF Init, MadeOfFile
<1> QED
  BY <1>1, WallStart, WallStep, MadeStep, PTL DEF Spec

LEMMA ImportedFile ==
  ASSUME WallAgrees
  PROVE  import.source \in Sources /\ import.text \in Seq(EventTexts) /\ import.term_start \subseteq Dates
BY FilesAssumption DEF WallAgrees

\* The wristband's list is numbered, and its courses are valid.
LEMMA MadeIsWorn == WallAgrees /\ MadeOfFile => OnTheWrist
<1> SUFFICES ASSUME WallAgrees, schedule # NoSchedule, ValidImport(schedule),
                    schedule \in ConvertIcsText(import.text, import.source, import.term_start)
             PROVE  OnTheWrist
  BY DEF MadeOfFile, OnTheWrist
<1>1. \E n \in Nat : DOMAIN schedule.courses = 1..n
  BY ImportedFile, SentSchedule
<1> QED
  BY <1>1 DEF OnTheWrist

\* The lesson announced as next is the present one when its time has come,
\* none begins before it, and lessons are left exactly when one is announced:
\* for every file and every minute of every day.
THEOREM NextAlwaysComes == Spec => NextComes
<1>1. WallAgrees /\ MadeOfFile /\ (WallAgrees /\ MadeOfFile)' /\ [Next]_vars => [NextFollows]_vars
  <2> SUFFICES ASSUME WallAgrees, MadeOfFile, WallAgrees', [Next]_vars, day' = day, schedule' = schedule,
                      Disjoint(schedule.courses, TodaysCourses(schedule, Clock))
               PROVE  NextFollows
    BY DEF NextFollows
  <2>1. OnTheWrist
    BY MadeIsWorn
  <2> QED
    BY <2>1, NextStep DEF NextFollows
<1> QED
  BY <1>1, TimetableInvariant, PTL DEF Spec, NextComes

\* What a schedule that was sent still has to satisfy.
LEMMA SentIsValid ==
  ASSUME NEW text \in Seq(EventTexts), NEW source \in Sources, NEW term_start, term_start \subseteq Dates,
         NEW s \in ConvertIcsText(text, source, term_start),
         \A i \in DOMAIN s.courses : /\ s.courses[i].name # 0
                                     /\ s.courses[i].start_min < s.courses[i].end_min
                                     /\ s.courses[i].end_min <= MinutesPerDay
                                     /\ s.courses[i].weeks_end <= 255
  PROVE  ValidImport(s)
<1>1. CalendarDate(s.start_date)
  BY SentSchedule
<1>2. ParsesAsDate(s.start_date) /\ s.start_date.d <= DaysInMonth(s.start_date.y, s.start_date.m)
  <2> DEFINE a == s.start_date
  <2>1. CalendarDate(a)
    BY <1>1
  <2> HIDE DEF a
  <2>2. a.m \in 1..12 /\ a.d \in 1 .. DaysInMonth(a.y, a.m) /\ a.y \in Int
    BY <2>1 DEF CalendarDate, RealDate
  <2>3. DaysInMonth(a.y, a.m) \in Nat /\ DaysInMonth(a.y, a.m) <= 31
    BY <2>2 DEF DaysInMonth
  <2> DEFINE m == a.m
             d == a.d
             last == DaysInMonth(a.y, a.m)
  <2>4. m \in 1..12 /\ d \in 1..31 /\ d <= last
    <3>1. m \in 1..12 /\ d \in 1..last /\ last \in Nat /\ last <= 31
      BY <2>2, <2>3
    <3> HIDE DEF m, d, last
    <3> QED
      BY <3>1
  <2>5. ParsesAsDate(a) /\ a.d <= DaysInMonth(a.y, a.m)
    BY <2>4 DEF ParsesAsDate
  <2> QED
    BY <2>5 DEF a
<1>3. ASSUME NEW i \in DOMAIN s.courses
      PROVE  FitsTypes(s.courses[i]) /\ ValidCourse(s.courses[i])
  <2> DEFINE c == s.courses[i]
  <2>1. /\ c.id \in Nat \ {0} /\ c.weekday \in 1..7
        /\ c.start_min \in Nat /\ c.end_min \in Nat
        /\ c.weeks_start \in Nat \ {0} /\ c.weeks_end \in Nat /\ c.weeks_start <= c.weeks_end
        /\ c.week_interval \in 1 .. c.weeks_end
    BY SentSchedule
  <2>2. c.name # 0 /\ c.start_min < c.end_min /\ c.end_min <= MinutesPerDay /\ c.weeks_end <= 255
    OBVIOUS
  <2> HIDE DEF c
  <2>3. {c.weekday, c.weeks_start, c.weeks_end, c.week_interval} \subseteq Byte
    <3> DEFINE w == c.weekday
               a == c.weeks_start
               b == c.weeks_end
               r == c.week_interval
    <3>1. w \in 1..7 /\ a \in Nat /\ b \in Nat /\ a <= b /\ b <= 255 /\ r \in 1..b
      BY <2>1, <2>2
    <3> HIDE DEF w, a, b, r
    <3>2. w \in Byte /\ a \in Byte /\ b \in Byte /\ r \in Byte
      BY <3>1 DEF Byte
    <3> QED
      BY <3>2 DEF w, a, b, r
  <2>4. {c.start_min, c.end_min} \subseteq Halfword
    <3> DEFINE x == c.start_min
               y == c.end_min
    <3>1. x \in Nat /\ y \in Nat /\ x < y /\ y <= MinutesPerDay
      BY <2>1, <2>2
    <3> HIDE DEF x, y
    <3>2. x \in Halfword /\ y \in Halfword
      BY <3>1 DEF Halfword, MinutesPerDay
    <3> QED
      BY <3>2 DEF x, y
  <2>5. c.id # 0 /\ c.weeks_start > 0 /\ c.week_interval > 0
    BY <2>1
  <2>6. FitsTypes(c) /\ ValidCourse(c)
    BY <2>1, <2>2, <2>3, <2>4, <2>5 DEF FitsTypes, ValidCourse
  <2> QED
    BY <2>6 DEF c
<1> QED
  BY <1>2, <1>3 DEF ValidImport

\* Whatever file is imported, read by whatever dialect: the wristband accepts
\* the schedule the plugin sends, unless a lesson has no name, does not end on
\* its own day or lies beyond 255 weeks.
THEOREM SentIsAlwaysAccepted == Spec => []SentIsAccepted
<1>1. WallAgrees => SentIsAccepted
  <2> SUFFICES ASSUME WallAgrees,
                      NEW s \in ConvertIcsText(import.text, import.source, import.term_start),
                      \A i \in DOMAIN s.courses : /\ s.courses[i].name # 0
                                                  /\ s.courses[i].start_min < s.courses[i].end_min
                                                  /\ s.courses[i].end_min <= MinutesPerDay
                                                  /\ s.courses[i].weeks_end <= 255
               PROVE  ValidImport(s)
    BY DEF SentIsAccepted
  <2> QED
    BY ImportedFile, SentIsValid
<1> QED
  BY <1>1, TimetableInvariant, PTL

---------------------------------------------------------------------------
(* Weekly repetitions                                                      *)

\* Multiples and remainders, where the factor is a variable.
LEMMA Products ==
  ASSUME NEW i \in Nat, NEW k \in Int, NEW q \in Int, k < q
  PROVE  i * k + i <= i * q /\ i * k \in Int /\ i * q \in Int
<1>1. i * k \in Int /\ i * q \in Int /\ i * (q - k - 1) \in Int
  OBVIOUS
<1>2. i * (q - k - 1) >= 0
  OBVIOUS
<1>3. i * (q - k - 1) = i * q - i * k - i
  OBVIOUS
<1> QED
  BY <1>1, <1>2, <1>3

LEMMA DivMod ==
  ASSUME NEW i \in Int, i > 0, NEW j \in Int
  PROVE  j = i * (j \div i) + (j % i) /\ j % i \in 0 .. i - 1 /\ (j >= 0 => j \div i \in Nat)
<1>1. j - i * (j \div i) = j % i
  OBVIOUS
<1>2. j % i \in 0 .. i - 1
  OBVIOUS
<1>3. j \div i \in Int /\ (j >= 0 => j \div i >= 0)
  OBVIOUS
<1>4. i * (j \div i) \in Int
  BY <1>3
<1> DEFINE p == i * (j \div i)
           r == j % i
<1>5. j = p + r
  <2>1. p \in Int /\ r \in Int /\ j - p = r
    BY <1>1, <1>2, <1>4
  <2> HIDE DEF p, r
  <2> QED
    BY <2>1
<1>6. j = i * (j \div i) + (j % i)
  BY <1>5
<1>7. j >= 0 => j \div i \in Nat
  BY <1>3
<1> QED
  BY <1>2, <1>6, <1>7, Zenon

LEMMA Multiples ==
  ASSUME NEW i \in Nat \ {0}, NEW j \in Nat
  PROVE  j % i = 0 <=> \E k \in Nat : j = i * k
<1>0. i \in Int /\ i > 0 /\ j \in Int /\ j >= 0
  OBVIOUS
<1>1. j = i * (j \div i) + (j % i) /\ j % i \in 0 .. i - 1 /\ j \div i \in Nat
  BY <1>0, DivMod
<1>2. ASSUME j % i = 0
      PROVE  \E k \in Nat : j = i * k
  <2>1. j = i * (j \div i)
    <3> DEFINE p == i * (j \div i)
               r == j % i
    <3>1. j = p + r /\ r = 0 /\ p \in Int
      BY <1>1, <1>2
    <3> HIDE DEF p, r
    <3>2. j = p
      BY <3>1
    <3> QED
      BY <3>2 DEF p
  <2> QED
    BY <1>1, <2>1
<1>3. ASSUME NEW k \in Nat, j = i * k
      PROVE  j % i = 0
  <2> DEFINE q == j \div i
             r == j % i
  <2>1. j = i * q + r /\ r \in 0 .. i - 1 /\ q \in Nat /\ j = i * k
    BY <1>1, <1>3
  <2> HIDE DEF q, r
  <2>2. ~(k < q)
    <3>1. SUFFICES ASSUME k < q
                   PROVE  FALSE
      OBVIOUS
    <3>2. i * k + i <= i * q /\ i * k \in Int /\ i * q \in Int
      BY <2>1, <3>1, Products
    <3> DEFINE a == i * k
               b == i * q
    <3>3. a + i <= b /\ a \in Int /\ b \in Int /\ a = b + r /\ r \in 0 .. i - 1
      BY <2>1, <3>2
    <3> HIDE DEF a, b
    <3> QED
      BY <3>3
  <2>3. ~(q < k)
    <3>1. SUFFICES ASSUME q < k
                   PROVE  FALSE
      OBVIOUS
    <3>2. i * q + i <= i * k /\ i * k \in Int /\ i * q \in Int
      BY <2>1, <3>1, Products
    <3> DEFINE a == i * k
               b == i * q
    <3>3. b + i <= a /\ a \in Int /\ b \in Int /\ a = b + r /\ r \in 0 .. i - 1
      BY <2>1, <3>2
    <3> HIDE DEF a, b
    <3> QED
      BY <3>3
  <2>4. k = q
    BY <2>1, <2>2, <2>3
  <2> DEFINE a == i * k
  <2>5. a = a + r /\ a \in Int /\ r \in 0 .. i - 1
    BY <2>1, <2>4
  <2>6. r = 0
    <3> HIDE DEF a
    <3> QED
      BY <2>5
  <2> QED
    BY <2>6 DEF r
<1> QED
  BY <1>2, <1>3

\* Mondays are whole weeks apart.
LEMMA WeeksApart ==
  ASSUME NEW first \in Int, NEW n \in Int
  PROVE  LET j == (MondayBefore(n) - MondayBefore(first)) \div 7
             own == WeekdayOf(first)
             w == WeekdayOf(n)
         IN  /\ j \in Int /\ own \in 1..7 /\ w \in 1..7
             /\ n = first + (w - own) + 7 * j
             /\ (w - own) % 7 = IF w >= own THEN w - own ELSE w - own + 7
<1> DEFINE a == (first + 3) % 7
           b == (n + 3) % 7
<1>1. a \in 0..6 /\ b \in 0..6 /\ (n - b - (first - a)) % 7 = 0
  OBVIOUS
<1>2. WeekdayOf(first) = a + 1 /\ WeekdayOf(n) = b + 1
  BY DEF WeekdayOf
<1>3. MondayBefore(n) - MondayBefore(first) = n - b - (first - a)
  BY <1>1, <1>2 DEF MondayBefore
<1> HIDE DEF a, b
<1>4. (n - b - (first - a)) \div 7 \in Int /\ n - b - (first - a) = 7 * ((n - b - (first - a)) \div 7)
  BY <1>1
<1>5. (b - a) % 7 = IF b >= a THEN b - a ELSE b - a + 7
  BY <1>1
<1>6. b + 1 - (a + 1) = b - a
  BY <1>1
<1> QED
  BY <1>1, <1>2, <1>3, <1>4, <1>5, <1>6

\* The days of a weekly rule, counted by its weeks as RFC 5545 does and by
\* its repetitions as the plugin does.
InWeeks(first, n, interval) ==
    n >= first /\ ((MondayBefore(n) - MondayBefore(first)) \div 7) % interval = 0
InRepetitions(first, n, interval) ==
    \E k \in Nat : n = first + ((WeekdayOf(n) - WeekdayOf(first)) % 7) + 7 * (interval * k)

\* Whole intervals of weeks between two Mondays (RFC 5545) are whole
\* intervals after the first day of that weekday (expand_weeks).
LEMMA RuleDays ==
  ASSUME NEW first \in Int, NEW n \in Int, NEW interval \in Nat \ {0},
         interval > 1 => WeekdayOf(n) >= WeekdayOf(first)
  PROVE  InWeeks(first, n, interval) <=> InRepetitions(first, n, interval)
<1> DEFINE own == WeekdayOf(first)
           w == WeekdayOf(n)
           delta == (w - own) % 7
           j == (MondayBefore(n) - MondayBefore(first)) \div 7
<1>1. /\ j \in Int /\ own \in 1..7 /\ w \in 1..7 /\ n = first + (w - own) + 7 * j
      /\ delta = IF w >= own THEN w - own ELSE w - own + 7
  BY WeeksApart
<1>2. interval > 1 => w >= own
  OBVIOUS
<1> SUFFICES (n >= first /\ j % interval = 0) <=> \E k \in Nat : n = first + delta + 7 * (interval * k)
  BY DEF InWeeks, InRepetitions
<1> HIDE DEF own, w, delta, j
<1>3. \A k \in Nat : interval * k \in Int
  OBVIOUS
<1>4. CASE w >= own
  <2>1. n >= first <=> j \in Nat
    BY <1>1, <1>4
  <2>2. \A m \in Int : n = first + delta + 7 * m <=> m = j
    <3>1. delta = w - own /\ delta \in Int /\ j \in Int
      BY <1>1, <1>4
    <3>2. n = first + delta + 7 * j
      BY <1>1, <3>1
    <3> QED
      BY <3>1, <3>2
  <2>3. (\E k \in Nat : n = first + delta + 7 * (interval * k)) <=> \E k \in Nat : j = interval * k
    BY <1>3, <2>2
  <2>4. ASSUME NEW k \in Nat, j = interval * k
        PROVE  j \in Nat
    BY <2>4
  <2>5. j \in Nat => (j % interval = 0 <=> \E k \in Nat : j = interval * k)
    BY Multiples
  <2>6. (n >= first /\ j % interval = 0) <=> \E k \in Nat : j = interval * k
    BY <2>1, <2>4, <2>5
  <2> QED
    BY <2>3, <2>6
<1>5. CASE w < own
  <2>1. interval = 1
    BY <1>1, <1>2, <1>5
  <2>2. n >= first <=> j - 1 \in Nat
    BY <1>1, <1>5
  <2>3. \A m \in Int : n = first + delta + 7 * m <=> m = j - 1
    BY <1>1, <1>5
  <2>4. \A k \in Nat : interval * k = k
    BY <2>1
  <2>5. (\E k \in Nat : n = first + delta + 7 * (interval * k)) <=> j - 1 \in Nat
    <3>1. \A k \in Nat : n = first + delta + 7 * (interval * k) <=> k = j - 1
      BY <1>3, <2>3, <2>4
    <3> QED
      BY <3>1
  <2>6. j % interval = 0
    BY <1>1, <2>1
  <2> QED
    BY <2>2, <2>5, <2>6
<1> QED
  BY <1>1, <1>4, <1>5

\* A repetition falls on the weekday it was made for.
LEMMA RepetitionWeekday ==
  ASSUME NEW first \in Int, NEW w \in 1..7, NEW m \in Int, NEW delta, delta = (w - WeekdayOf(first)) % 7
  PROVE  WeekdayOf(first + delta + 7 * m) = w
<1> DEFINE a == (first + 3) % 7
<1>1. a \in 0..6 /\ (first + 3 - a) % 7 = 0
  OBVIOUS
<1>2. WeekdayOf(first) = a + 1
  BY DEF WeekdayOf
<1> HIDE DEF a
<1>3. delta \in 0..6 /\ (delta = w - (a + 1) \/ delta = w - (a + 1) + 7)
  BY <1>1, <1>2
<1>4. (first + delta + 7 * m + 3) % 7 = w - 1
  BY <1>1, <1>3
<1>5. WeekdayOf(first + delta + 7 * m) = w
  BY <1>3, <1>4 DEF WeekdayOf
<1> QED
  BY <1>5

---------------------------------------------------------------------------
(* An event of WakeUp's on a day                                           *)

\* The day of the k-th repetition on a weekday.
NthDay(e, w, k) ==
    GregorianDay(e.start.date) + ((w - WeekdayIso(e.start.date)) % 7) + 7 * (RuleOf(e).interval * k)

\* The day of an event's beginning, and those of its repetitions.
LEMMA EventDay ==
  ASSUME NEW e, ReadEvent(e), RealRules(e)
  PROVE  /\ CalendarDate(e.start.date) /\ GregorianDay(e.start.date) \in Int
         /\ WeekdayIso(e.start.date) = WeekdayOf(GregorianDay(e.start.date)) /\ WeekdayIso(e.start.date) \in 1..7
         /\ RuleOf(e).interval \in Nat \ {0} /\ e.start.minute \in Nat
<1>1. CalendarDate(e.start.date) /\ e.start.minute \in Nat
  BY DEF ReadEvent, Moment
<1>2. RuleOf(e).interval \in Nat \ {0}
  BY RuleType DEF RealRules
<1> QED
  BY <1>1, <1>2, CalendarDay, WeekdayOfDay

LEMMA NthDays ==
  ASSUME NEW e, ReadEvent(e), RealRules(e), NEW w \in 1..7, NEW k \in Nat
  PROVE  /\ NthDay(e, w, k) \in Int /\ NthDay(e, w, k) >= GregorianDay(e.start.date)
         /\ WeekdayOf(NthDay(e, w, k)) = w
         /\ CalendarDate(Repetition(e, w, k)) /\ GregorianDay(Repetition(e, w, k)) = NthDay(e, w, k)
         /\ \A m \in Nat : k < m => NthDay(e, w, k) < NthDay(e, w, m)
<1> DEFINE first == GregorianDay(e.start.date)
           own == WeekdayIso(e.start.date)
           interval == RuleOf(e).interval
           delta == (w - own) % 7
<1>1. first \in Int /\ own = WeekdayOf(first) /\ own \in 1..7 /\ interval \in Nat \ {0}
  BY EventDay
<1>2. \A m : NthDay(e, w, m) = first + delta + 7 * (interval * m)
  BY DEF NthDay
<1>3. CalendarDate(Repetition(e, w, k)) /\ GregorianDay(Repetition(e, w, k)) = first + delta + 7 * interval * k
  BY RepetitionDay
<1> HIDE DEF first, interval
<1>4. delta = (w - WeekdayOf(first)) % 7 /\ delta \in 0..6
  BY <1>1
<1> HIDE DEF own, delta
<1>5. interval * k \in Nat /\ 7 * interval * k = 7 * (interval * k)
  BY <1>1
<1>6. WeekdayOf(first + delta + 7 * (interval * k)) = w
  BY <1>1, <1>4, <1>5, RepetitionWeekday
<1>7. NthDay(e, w, k) \in Int /\ NthDay(e, w, k) >= first
  <2> DEFINE p == interval * k
  <2>1. p \in Nat /\ NthDay(e, w, k) = first + delta + 7 * p
    BY <1>2, <1>5
  <2> HIDE DEF p
  <2> QED
    BY <1>1, <1>4, <2>1
<1>8. ASSUME NEW m \in Nat, k < m
      PROVE  NthDay(e, w, k) < NthDay(e, w, m)
  <2> DEFINE p == interval * k
             q == interval * m
  <2>1. p + interval <= q /\ p \in Int /\ q \in Int
    BY <1>1, <1>8, Products
  <2>2. NthDay(e, w, k) = first + delta + 7 * p /\ NthDay(e, w, m) = first + delta + 7 * q
    BY <1>2
  <2> HIDE DEF p, q
  <2> QED
    BY <1>1, <1>4, <2>1, <2>2
<1>9. GregorianDay(Repetition(e, w, k)) = NthDay(e, w, k)
  BY <1>2, <1>3, <1>5
<1>10. WeekdayOf(NthDay(e, w, k)) = w
  BY <1>2, <1>6
<1> QED
  BY <1>3, <1>7, <1>8, <1>9, <1>10 DEF first

\* What FollowsRfc asks of an event of WakeUp's, of the rule as the plugin
\* reads it.
WellRuled(e) ==
    LET rule == RuleOf(e)
        own == WeekdayIso(e.start.date)
    IN  /\ e.rrule # {} => \A w \in WeekdaysForEvent(e) : Reached(e, w)
        /\ rule.count # {} => rule.byday \subseteq {own}
        /\ rule.interval > 1 => \A w \in rule.byday : w >= own

\* The rule has not ended before the event's time on date d.
Open(e, d) == \A u \in RuleOf(e).until : ~Before(u, At(d, e.start.minute))

\* Falls and TakesPlace of the rule as the plugin reads it.
FallsAsRead(e, n, d) ==
    LET first == GregorianDay(e.start.date)
        rule == RuleOf(e)
    IN  /\ n >= first
        /\ WeekdayOf(n) \in (IF rule.byday = {} THEN {WeekdayOf(first)} ELSE rule.byday)
        /\ ((MondayBefore(n) - MondayBefore(first)) \div 7) % rule.interval = 0
        /\ Open(e, d)
        /\ e.rrule = {} => n = first
TakesPlaceAsRead(e, n, d) ==
    /\ FallsAsRead(e, n, d)
    /\ d \notin e.exdates
    /\ \A limit \in RuleOf(e).count :
           Cardinality({k \in GregorianDay(e.start.date) .. n - 1 : FallsAsRead(e, k, d)}) < limit

\* A rule falls on a day exactly when the day is one of the repetitions.
LEMMA FallsWhen ==
  ASSUME NEW e, ReadEvent(e), RealRules(e), WellRuled(e), NEW n \in Int, NEW d
  PROVE  FallsAsRead(e, n, d) <=>
             /\ WeekdayOf(n) \in WeekdaysForEvent(e)
             /\ \E k \in Nat : n = NthDay(e, WeekdayOf(n), k)
             /\ Open(e, d)
             /\ e.rrule = {} => n = GregorianDay(e.start.date)
<1> DEFINE first == GregorianDay(e.start.date)
           own == WeekdayIso(e.start.date)
           w == WeekdayOf(n)
           interval == RuleOf(e).interval
           j == (MondayBefore(n) - MondayBefore(first)) \div 7
           days == IF RuleOf(e).byday = {} THEN {WeekdayOf(first)} ELSE RuleOf(e).byday
<1>1. first \in Int /\ own = WeekdayOf(first) /\ own \in 1..7 /\ interval \in Nat \ {0}
  BY EventDay
<1>2. days = WeekdaysForEvent(e)
  BY <1>1 DEF WeekdaysForEvent
<1>3. FallsAsRead(e, n, d) <=> /\ n >= first /\ w \in days /\ j % interval = 0
                               /\ Open(e, d) /\ (e.rrule = {} => n = first)
  BY DEF FallsAsRead
<1>4. ASSUME w \in days
      PROVE  (n >= first /\ j % interval = 0) <=> \E k \in Nat : n = NthDay(e, w, k)
  <2>1. interval > 1 => w >= own
    <3>1. CASE RuleOf(e).byday = {}
      <4>1. w = WeekdayOf(first)
        BY <1>4, <3>1
      <4> QED
        BY <1>1, <4>1
    <3>2. CASE RuleOf(e).byday # {}
      <4>1. w \in RuleOf(e).byday
        BY <1>4, <3>2
      <4> QED
        BY <4>1 DEF WellRuled
    <3> QED
      BY <3>1, <3>2
  <2>2. InRepetitions(first, n, interval) <=> \E k \in Nat : n = NthDay(e, w, k)
    BY <1>1 DEF InRepetitions, NthDay
  <2>3. InWeeks(first, n, interval) <=> n >= first /\ j % interval = 0
    BY DEF InWeeks
  <2>4. interval > 1 => WeekdayOf(n) >= WeekdayOf(first)
    BY <1>1, <2>1
  <2> HIDE DEF first, own, interval, j, days, w
  <2>5. InWeeks(first, n, interval) <=> InRepetitions(first, n, interval)
    BY <1>1, <2>4, RuleDays
  <2> QED
    BY <2>2, <2>3, <2>5
<1> HIDE DEF days, j, interval
<1> QED
  BY <1>2, <1>3, <1>4

\* A day of the rule is one of the repetitions the plugin makes, exactly when
\* the rule is still open and not used up.
LEMMA RepeatsWhen ==
  ASSUME NEW e, ReadEvent(e), RealRules(e), WellRuled(e), NEW w \in WeekdaysForEvent(e), NEW k \in Nat,
         NEW d, CalendarDate(d), GregorianDay(d) = NthDay(e, w, k)
  PROVE  /\ Repetition(e, w, k) = d
         /\ k \in Repeats(e, w) <=>
                Open(e, d) /\ (\A n \in RuleOf(e).count : k < n) /\ (e.rrule = {} => k = 0)
<1>1. w \in 1..7
  BY EventWeekdays
<1>2. CalendarDate(Repetition(e, w, k)) /\ GregorianDay(Repetition(e, w, k)) = NthDay(e, w, k)
  BY <1>1, NthDays
<1>3. Repetition(e, w, k) = d
  BY <1>2, DayOrder
<1>4. k \in Repeats(e, w) <=> /\ k \in 0 .. MaxOccurrences - 1 /\ Open(e, d)
                              /\ \A n \in RuleOf(e).count : k < n
                              /\ RuleOf(e).until = {} /\ RuleOf(e).count = {} => k = 0
  BY <1>3 DEF Repeats, Open
<1>5. e.rrule = {} => RuleOf(e).until = {} /\ RuleOf(e).count = {}
  BY DEF RuleOf, WeeklyRule
<1>6. MaxOccurrences \in Nat \ {0}
  BY OccurrencesAssumption
<1>7. ASSUME e.rrule # {}, Open(e, d), \A n \in RuleOf(e).count : k < n
      PROVE  k < MaxOccurrences /\ ~(RuleOf(e).until = {} /\ RuleOf(e).count = {})
  <2>1. Reached(e, w)
    BY <1>7 DEF WellRuled
  <2>2. CASE \E n \in RuleOf(e).count : n <= MaxOccurrences
    <3>1. PICK n \in RuleOf(e).count : n <= MaxOccurrences
      BY <2>2
    <3>2. n \in Nat
      BY RuleType DEF RealRules
    <3> QED
      BY <1>6, <1>7, <3>1, <3>2
  <2>3. CASE \E u \in RuleOf(e).until : Before(u, At(Repetition(e, w, MaxOccurrences), e.start.minute))
    <3>1. PICK u \in RuleOf(e).until : Before(u, At(Repetition(e, w, MaxOccurrences), e.start.minute))
      BY <2>3
    <3> DEFINE a == Repetition(e, w, MaxOccurrences)
    <3>2. CalendarDate(a) /\ GregorianDay(a) = NthDay(e, w, MaxOccurrences)
      BY <1>1, <1>6, NthDays
    <3>3. CalendarDate(u.date)
      BY RuleType DEF RealRules, Moment
    <3> HIDE DEF a
    <3>4. ~Before(u, At(d, e.start.minute))
      BY <1>7 DEF Open
    <3>5. ~(GregorianDay(a) <= GregorianDay(d))
      <4>1. SUFFICES ASSUME GregorianDay(a) <= GregorianDay(d)
                     PROVE  FALSE
        OBVIOUS
      <4>2. GregorianDay(u.date) \in Int /\ GregorianDay(a) \in Int /\ GregorianDay(d) \in Int
        BY <3>2, <3>3, CalendarDay
      <4>3. ~DateBefore(u.date, d) /\ ~(u.date = d /\ u.minute < e.start.minute)
        BY <3>4 DEF Before, At
      <4>4. DateBefore(u.date, a) \/ (u.date = a /\ u.minute < e.start.minute)
        BY <3>1 DEF Before, At, a
      <4>5. GregorianDay(d) <= GregorianDay(u.date)
        BY <3>3, <4>2, <4>3, DayOrder
      <4>6. CASE DateBefore(u.date, a)
        <5>1. GregorianDay(u.date) < GregorianDay(a)
          BY <3>2, <3>3, <4>6, DayOrder
        <5> QED
          BY <4>1, <4>2, <4>5, <5>1
      <4>7. CASE u.date = a /\ u.minute < e.start.minute
        <5>1. GregorianDay(d) = GregorianDay(u.date)
          BY <4>1, <4>2, <4>5, <4>7
        <5>2. d = u.date
          BY <3>3, <5>1, DayOrder
        <5> QED
          BY <4>3, <4>7, <5>2
      <4> QED
        BY <4>4, <4>6, <4>7
    <3>6. ~(MaxOccurrences <= k)
      <4>1. SUFFICES ASSUME MaxOccurrences <= k
                     PROVE  FALSE
        OBVIOUS
      <4>2. CASE MaxOccurrences = k
        <5>1. GregorianDay(a) = GregorianDay(d) /\ GregorianDay(a) \in Int
          BY <3>2, <4>2, CalendarDay
        <5> QED
          BY <3>5, <5>1
      <4>3. CASE MaxOccurrences < k
        <5>1. NthDay(e, w, MaxOccurrences) < NthDay(e, w, k)
          BY <1>1, <1>6, <4>3, NthDays
        <5>2. GregorianDay(a) \in Int /\ GregorianDay(d) \in Int
          BY <3>2, CalendarDay
        <5> QED
          BY <3>2, <3>5, <5>1, <5>2
      <4> QED
        BY <1>6, <4>1, <4>2, <4>3
    <3> QED
      BY <1>6, <3>1, <3>6
  <2> QED
    BY <2>1, <2>2, <2>3 DEF Reached
<1>8. ASSUME Open(e, d), \A n \in RuleOf(e).count : k < n, e.rrule = {} => k = 0
      PROVE  k \in Repeats(e, w)
  <2>1. CASE e.rrule = {}
    <3>1. k = 0 /\ 0 \in 0 .. MaxOccurrences - 1
      BY <1>6, <1>8, <2>1
    <3> QED
      BY <1>4, <1>8, <3>1
  <2>2. CASE e.rrule # {}
    <3>1. k < MaxOccurrences /\ ~(RuleOf(e).until = {} /\ RuleOf(e).count = {})
      BY <1>7, <1>8, <2>2
    <3>2. k \in 0 .. MaxOccurrences - 1
      BY <1>6, <3>1
    <3> QED
      BY <1>4, <1>8, <3>1, <3>2
  <2> QED
    BY <2>1, <2>2
<1> QED
  BY <1>3, <1>4, <1>5, <1>8

\* Before the k-th repetition of a counted rule there are k others.
LEMMA CountedBefore ==
  ASSUME NEW e, ReadEvent(e), RealRules(e), WellRuled(e), RuleOf(e).count # {}, NEW d, Open(e, d),
         NEW w \in WeekdaysForEvent(e), NEW k \in Nat
  PROVE  Cardinality({x \in GregorianDay(e.start.date) .. NthDay(e, w, k) - 1 : FallsAsRead(e, x, d)}) = k
<1> DEFINE first == GregorianDay(e.start.date)
           own == WeekdayIso(e.start.date)
           last == NthDay(e, w, k)
           earlier == {x \in first .. last - 1 : FallsAsRead(e, x, d)}
           f == [m \in 0 .. k - 1 |-> NthDay(e, w, m)]
<1>1. WeekdaysForEvent(e) = {own}
  BY DEF WellRuled, WeekdaysForEvent
<1>2. e.rrule # {}
  BY DEF RuleOf, WeeklyRule
<1>3. w = own /\ w \in 1..7 /\ first \in Int
  BY <1>1, EventDay
<1>4. \A m \in Nat : /\ NthDay(e, w, m) \in Int /\ NthDay(e, w, m) >= first /\ WeekdayOf(NthDay(e, w, m)) = w
                     /\ \A l \in Nat : m < l => NthDay(e, w, m) < NthDay(e, w, l)
  BY <1>3, NthDays
<1>5. \A x \in Int : FallsAsRead(e, x, d) <=>
          WeekdayOf(x) = w /\ \E m \in Nat : x = NthDay(e, WeekdayOf(x), m)
  <2>1. ASSUME NEW x \in Int
        PROVE  FallsAsRead(e, x, d) <=> WeekdayOf(x) = w /\ \E m \in Nat : x = NthDay(e, WeekdayOf(x), m)
    <3>1. FallsAsRead(e, x, d) <=> /\ WeekdayOf(x) \in WeekdaysForEvent(e)
                                   /\ \E m \in Nat : x = NthDay(e, WeekdayOf(x), m)
                                   /\ Open(e, d)
                                   /\ e.rrule = {} => x = GregorianDay(e.start.date)
      BY FallsWhen
    <3> QED
      BY <1>1, <1>2, <1>3, <3>1
  <2> QED
    BY <2>1
<1> HIDE DEF own
<1>6. \A x : x \in earlier <=> \E m \in 0 .. k - 1 : x = NthDay(e, w, m)
  <2>1. ASSUME NEW m \in 0 .. k - 1
        PROVE  NthDay(e, w, m) \in earlier
    <3>1. m \in Nat /\ m < k
      OBVIOUS
    <3>2. NthDay(e, w, m) \in Int /\ NthDay(e, w, m) >= first /\ NthDay(e, w, m) < last /\ last \in Int
      BY <1>4, <3>1
    <3>3. FallsAsRead(e, NthDay(e, w, m), d)
      BY <1>4, <1>5, <3>1
    <3> HIDE DEF last, first
    <3>4. NthDay(e, w, m) \in first .. last - 1
      BY <1>3, <3>2
    <3> QED
      BY <3>3, <3>4
  <2>2. ASSUME NEW x \in earlier
        PROVE  \E m \in 0 .. k - 1 : x = NthDay(e, w, m)
    <3>1. x \in Int /\ x < last /\ FallsAsRead(e, x, d)
      BY <1>3, <1>4
    <3>2. PICK m \in Nat : x = NthDay(e, w, m)
      BY <1>5, <3>1
    <3>3. ~(k < m) /\ k # m
      BY <1>4, <3>1, <3>2
    <3>4. m \in 0 .. k - 1
      BY <3>3
    <3> QED
      BY <3>2, <3>4
  <2> QED
    BY <2>1, <2>2
<1> HIDE DEF earlier
<1>7. f \in Bijection(0 .. k - 1, earlier)
  <2>1. f \in [0 .. k - 1 -> earlier]
    BY <1>6
  <2>2. \A x \in earlier : \E m \in 0 .. k - 1 : f[m] = x
    BY <1>6
  <2>3. \A m, l \in 0 .. k - 1 : f[m] = f[l] => m = l
    <3>1. ASSUME NEW m \in 0 .. k - 1, NEW l \in 0 .. k - 1, f[m] = f[l]
          PROVE  m = l
      <4>1. m \in Nat /\ l \in Nat /\ NthDay(e, w, m) = NthDay(e, w, l) /\ NthDay(e, w, m) \in Int
        BY <1>4, <3>1
      <4>2. ~(m < l) /\ ~(l < m)
        BY <1>4, <4>1
      <4> QED
        BY <4>1, <4>2
    <3> QED
      BY <3>1
  <2> DEFINE S == 0 .. k - 1
  <2>4. /\ f \in [S -> earlier] /\ DOMAIN f = S
        /\ \A x \in earlier : \E m \in S : f[m] = x
        /\ \A m, l \in S : f[m] = f[l] => m = l
    BY <2>1, <2>2, <2>3
  <2> HIDE DEF S, f
  <2>5. f \in Injection(S, earlier)
    BY <2>4 DEF Injection, IsInjective
  <2>6. f \in Surjection(S, earlier)
    BY <2>4 DEF Surjection
  <2>7. f \in Bijection(S, earlier)
    BY <2>5, <2>6 DEF Bijection
  <2> QED
    BY <2>7 DEF S
<1>8. IsFiniteSet(0 .. k - 1) /\ Cardinality(0 .. k - 1) = k
  <2> DEFINE b == k - 1
  <2>1. b \in Int /\ k = b + 1 /\ b >= -1
    OBVIOUS
  <2> HIDE DEF b
  <2>2. PICK a \in Int : a = 0
    OBVIOUS
  <2>3. IsFiniteSet(a..b) /\ Cardinality(a..b) = IF a > b THEN 0 ELSE b - a + 1
    BY <2>1, FS_Interval
  <2>4. IsFiniteSet(0..b) /\ Cardinality(0..b) = k
    BY <2>1, <2>2, <2>3
  <2> QED
    BY <2>4 DEF b
<1>9. Cardinality(earlier) = k
  <2> DEFINE S == 0 .. k - 1
  <2>1. ExistsBijection(S, earlier) /\ IsFiniteSet(S) /\ Cardinality(S) = k
    BY <1>7, <1>8 DEF ExistsBijection
  <2> HIDE DEF S
  <2> QED
    BY <2>1, FS_Bijection
<1> QED
  BY <1>9 DEF earlier

\* By the rule as it is read, an event takes place on a date exactly when the
\* plugin repeats it on that date and no EXDATE names it.
LEMMA RepeatedWhen ==
  ASSUME NEW e, ReadEvent(e), RealRules(e), WellRuled(e), NEW d, CalendarDate(d)
  PROVE  TakesPlaceAsRead(e, GregorianDay(d), d) <=>
             /\ d \notin e.exdates /\ WeekdayIso(d) \in WeekdaysForEvent(e)
             /\ \E k \in Repeats(e, WeekdayIso(d)) : Repetition(e, WeekdayIso(d), k) = d
<1> DEFINE n == GregorianDay(d)
           w == WeekdayIso(d)
           first == GregorianDay(e.start.date)
<1>1. n \in Int /\ w = WeekdayOf(n) /\ w \in 1..7
  BY CalendarDay, WeekdayOfDay
<1>2. FallsAsRead(e, n, d) <=> /\ w \in WeekdaysForEvent(e) /\ \E k \in Nat : n = NthDay(e, w, k)
                               /\ Open(e, d) /\ (e.rrule = {} => n = first)
  BY <1>1, FallsWhen
<1>3. TakesPlaceAsRead(e, n, d) <=>
          /\ FallsAsRead(e, n, d) /\ d \notin e.exdates
          /\ \A limit \in RuleOf(e).count : Cardinality({x \in first .. n - 1 : FallsAsRead(e, x, d)}) < limit
  BY DEF TakesPlaceAsRead
<1>4. ASSUME NEW k \in Nat, n = NthDay(e, w, k), w \in WeekdaysForEvent(e)
      PROVE  /\ Repetition(e, w, k) = d
             /\ k \in Repeats(e, w) <=>
                    Open(e, d) /\ (\A limit \in RuleOf(e).count : k < limit) /\ (e.rrule = {} => k = 0)
  BY <1>4, RepeatsWhen
<1>5. ASSUME NEW k \in Nat, n = NthDay(e, w, k), w \in WeekdaysForEvent(e), e.rrule = {}
      PROVE  n = first <=> k = 0
  <2>1. RuleOf(e).byday = {}
    BY <1>5 DEF RuleOf, WeeklyRule
  <2>2. w = WeekdayIso(e.start.date)
    BY <1>5, <2>1 DEF WeekdaysForEvent
  <2>3. NthDay(e, w, 0) = first
    <3>1. RuleOf(e).interval * 0 = 0 /\ (w - w) % 7 = 0 /\ first \in Int
      BY <1>1, EventDay
    <3> QED
      BY <2>2, <3>1 DEF NthDay
  <2>4. 0 < k => NthDay(e, w, 0) < NthDay(e, w, k)
    BY <1>1, NthDays
  <2>5. first \in Int
    BY EventDay
  <2> HIDE DEF first, n
  <2> QED
    BY <1>1, <1>5, <2>3, <2>4, <2>5
<1>6. ASSUME NEW k \in Nat, n = NthDay(e, w, k), w \in WeekdaysForEvent(e), Open(e, d), NEW limit \in RuleOf(e).count
      PROVE  Cardinality({x \in first .. n - 1 : FallsAsRead(e, x, d)}) = k
  BY <1>6, CountedBefore
<1>7. ASSUME TakesPlaceAsRead(e, n, d)
      PROVE  /\ d \notin e.exdates /\ w \in WeekdaysForEvent(e)
             /\ \E k \in Repeats(e, w) : Repetition(e, w, k) = d
  <2>1. PICK k \in Nat : n = NthDay(e, w, k)
    BY <1>2, <1>3, <1>7
  <2>2. Open(e, d) /\ (e.rrule = {} => n = first) /\ w \in WeekdaysForEvent(e) /\ d \notin e.exdates
    BY <1>2, <1>3, <1>7
  <2>3. \A limit \in RuleOf(e).count : k < limit
    BY <1>3, <1>6, <1>7, <2>1, <2>2
  <2>4. e.rrule = {} => k = 0
    BY <1>5, <2>1, <2>2
  <2>5. k \in Repeats(e, w) /\ Repetition(e, w, k) = d
    BY <1>4, <2>1, <2>2, <2>3, <2>4
  <2> QED
    BY <2>2, <2>5
<1>8. ASSUME d \notin e.exdates, w \in WeekdaysForEvent(e), NEW k \in Repeats(e, w), Repetition(e, w, k) = d
      PROVE  TakesPlaceAsRead(e, n, d)
  <2>1. k \in Nat
    BY OccurrencesAssumption DEF Repeats
  <2>2. n = NthDay(e, w, k)
    BY <1>1, <1>8, <2>1, NthDays
  <2>3. Open(e, d) /\ (\A limit \in RuleOf(e).count : k < limit) /\ (e.rrule = {} => k = 0)
    BY <1>4, <1>8, <2>1, <2>2
  <2>4. e.rrule = {} => n = first
    BY <1>5, <1>8, <2>1, <2>2, <2>3
  <2>5. FallsAsRead(e, n, d)
    BY <1>2, <1>8, <2>1, <2>2, <2>3, <2>4
  <2>6. \A limit \in RuleOf(e).count : Cardinality({x \in first .. n - 1 : FallsAsRead(e, x, d)}) < limit
    BY <1>6, <1>8, <2>1, <2>2, <2>3
  <2> QED
    BY <1>3, <1>8, <2>5, <2>6
<1> QED
  BY <1>7, <1>8

---------------------------------------------------------------------------
(* The rule as it is written                                               *)

\* A written rule's parts.
LEMMA WrittenRule ==
  ASSUME NEW e, ReadEvent(e), Valid(e), NEW r \in e.rrule
  PROVE  /\ Given(r.interval, 1) \in Nat \ {0} /\ r.until \subseteq Stamps /\ r.byday \subseteq 1..7
         /\ r.count \subseteq Nat \ {0} /\ r.freq \in {"DAILY", "WEEKLY"}
         /\ e.rrule # {} /\ (CHOOSE q \in e.rrule : TRUE) = r
<1>1. r.interval \subseteq Nat /\ r.until \subseteq Stamps /\ r.byday \subseteq 1..7 /\ r.count \subseteq Nat
  BY DEF ReadEvent, RuleTexts
<1>2. 0 \notin r.interval /\ 0 \notin r.count /\ r.freq \in {"DAILY", "WEEKLY"}
  BY DEF Valid
<1>3. (CHOOSE q \in e.rrule : TRUE) \in e.rrule
  OBVIOUS
<1>4. (CHOOSE q \in e.rrule : TRUE) = r
  BY <1>3 DEF Valid
<1>5. Given(r.interval, 1) \in Nat \ {0}
  <2>1. CASE r.interval = {}
    BY <2>1 DEF Given
  <2>2. CASE r.interval # {}
    <3>1. (CHOOSE v \in r.interval : TRUE) \in r.interval
      BY <2>2
    <3> QED
      BY <1>1, <1>2, <2>2, <3>1 DEF Given
  <2> QED
    BY <2>1, <2>2
<1> QED
  BY <1>1, <1>2, <1>4, <1>5

\* Of a set of days that has the first one, only that one has none before it.
LEMMA OnlyFirst ==
  ASSUME NEW first \in Int, NEW n \in Int, n >= first, NEW S, first \in S
  PROVE  Cardinality({k \in first .. n - 1 : k \in S}) < 1 <=> n = first
<1> DEFINE b == n - 1
           earlier == {k \in first .. b : k \in S}
<1>1. b \in Int
  OBVIOUS
<1>2. IsFiniteSet(earlier)
  <2> HIDE DEF b
  <2>1. IsFiniteSet(first .. b)
    BY <1>1, FS_Interval
  <2> QED
    BY <2>1, FS_Subset
<1>3. Cardinality(earlier) \in Nat /\ (Cardinality(earlier) = 0 <=> earlier = {})
  BY <1>2, FS_CardinalityType, FS_EmptySet
<1>4. earlier = {} <=> n = first
  <2>1. n # first => first \in earlier
    OBVIOUS
  <2>2. n = first => earlier = {}
    OBVIOUS
  <2> QED
    BY <2>1, <2>2
<1>5. Cardinality(earlier) < 1 <=> Cardinality(earlier) = 0
  <2> HIDE DEF earlier
  <2> QED
    BY <1>3
<1> QED
  BY <1>3, <1>4, <1>5

\* A rule falls on the day it begins on.
LEMMA FallsFirst ==
  ASSUME NEW e, ReadEvent(e), Valid(e), \A r \in e.rrule : OneLesson(r)
  PROVE  Falls(e, GregorianDay(e.start.date))
<1> DEFINE first == GregorianDay(e.start.date)
<1>1. CalendarDate(e.start.date)
  BY DEF ReadEvent, Moment
<1>2. first \in Int /\ WeekdayIso(e.start.date) = WeekdayOf(first) /\ MondayBefore(first) \in Int
  BY <1>1, CalendarDay, WeekdayOfDay DEF WeekdayOf, MondayBefore
<1>3. ASSUME NEW r \in e.rrule
      PROVE  /\ r.byday # {} => WeekdayOf(first) \in r.byday
             /\ (first - first) % Given(r.interval, 1) = 0
             /\ ((MondayBefore(first) - MondayBefore(first)) \div 7) % Given(r.interval, 1) = 0
             /\ r.until = {}
  <2>1. Given(r.interval, 1) \in Nat \ {0}
    BY WrittenRule
  <2>2. r.byday # {} => WeekdayOf(first) \in r.byday
    BY <1>2 DEF Valid
  <2>3. first - first = 0 /\ MondayBefore(first) - MondayBefore(first) = 0 /\ 0 \div 7 = 0
    BY <1>2
  <2>4. 0 % Given(r.interval, 1) = 0
    BY <2>1
  <2>5. r.until = {}
    BY DEF OneLesson
  <2> QED
    BY <2>2, <2>3, <2>4, <2>5
<1> HIDE DEF first
<1>4. first >= first
  BY <1>2
<1> QED
  BY <1>3, <1>4 DEF Falls, first

\* An event without a rule, or with a rule of one lesson, takes place on the
\* date it begins on.
LEMMA OnceWhen ==
  ASSUME NEW e, ReadEvent(e), Valid(e), \A r \in e.rrule : OneLesson(r), NEW d, CalendarDate(d)
  PROVE  TakesPlace(e, GregorianDay(d), d) <=> d = e.start.date /\ d \notin e.exdates
<1> DEFINE n == GregorianDay(d)
           first == GregorianDay(e.start.date)
           S == {k \in Int : Falls(e, k)}
           earlier == {k \in first .. n - 1 : Falls(e, k)}
<1>1. CalendarDate(e.start.date)
  BY DEF ReadEvent, Moment
<1>2. n \in Int /\ first \in Int /\ (n = first <=> d = e.start.date)
  BY <1>1, CalendarDay, DayOrder
<1>3. Falls(e, first)
  BY FallsFirst
<1>4. Falls(e, n) => n >= first /\ (e.rrule = {} => n = first)
  BY DEF Falls
<1>5. earlier = {k \in first .. n - 1 : k \in S}
  BY <1>2
<1>6. n >= first => (Cardinality(earlier) < 1 <=> n = first)
  <2> HIDE DEF n, first
  <2>1. first \in S
    BY <1>2, <1>3
  <2> HIDE DEF S, earlier
  <2> QED
    BY <1>2, <1>5, <2>1, OnlyFirst
<1>7. \A r \in e.rrule : r.count = {1}
  BY DEF OneLesson
<1>8. TakesPlace(e, n, d) <=>
          Falls(e, n) /\ d \notin e.exdates /\ \A r \in e.rrule : \A limit \in r.count : Cardinality(earlier) < limit
  BY DEF TakesPlace
<1> HIDE DEF n, first, earlier
<1>9. (\A r \in e.rrule : \A limit \in r.count : Cardinality(earlier) < limit) <=>
          (e.rrule # {} => Cardinality(earlier) < 1)
  BY <1>7
<1>10. n = first => n >= first
  BY <1>2
<1>11. TakesPlace(e, n, d) <=> d = e.start.date /\ d \notin e.exdates
  <2>1. CASE n = first
    BY <1>2, <1>3, <1>6, <1>8, <1>9, <1>10, <2>1
  <2>2. CASE n # first
    BY <1>2, <1>4, <1>6, <1>8, <1>9, <2>2
  <2> QED
    BY <2>1, <2>2
<1> QED
  BY <1>11 DEF n

\* parse_dt of a time in local time or in UTC gives the minute that is
\* written, though UTC may carry it over midnight.
LEMMA InstantRead ==
  ASSUME NEW u \in Stamps, RealDate(u.date), u.timed, u.minute < MinutesPerDay
  PROVE  LET t == ParseDt(u)
         IN  /\ CalendarDate(t.date) /\ t.minute \in 0 .. MinutesPerDay - 1
             /\ GregorianDay(t.date) * MinutesPerDay + t.minute = Instant(u)
<1> DEFINE a == u.date
           m == u.minute
           g == GregorianDay(a)
<1>1. a \in Dates /\ u.minute \in 0 .. 100 * 60 - 1 /\ u.utc \in BOOLEAN
  BY Zenon DEF Stamps
<1>2. CalendarDate(a) /\ g \in Int
  <2>1. CalendarDate(a)
    BY <1>1, DateRead
  <2> QED
    BY <2>1, CalendarDay
<1>3. m \in Nat /\ m < MinutesPerDay
  <2>1. m \in 0 .. 100 * 60 - 1 /\ m < MinutesPerDay
    BY <1>1
  <2> HIDE DEF m
  <2> QED
    BY <2>1
<1>4. Instant(u) = g * MinutesPerDay + m + (IF u.utc THEN UtcOffset * 60 ELSE 0)
  BY DEF Instant
<1>5. CASE u.utc
  <2> DEFINE total == m + UtcOffset * 60
             q == total \div MinutesPerDay
             rest == total % MinutesPerDay
             b == AddDays(a, q)
  <2>1. ParseDt(u) = [date |-> b, minute |-> rest]
    BY <1>5 DEF ParseDt, ShiftHours, Carried, At
  <2>2. total \in Int
    <3> HIDE DEF m
    <3> QED
      BY <1>3, OffsetAssumption
  <2>3. q \in Int /\ rest \in 0 .. MinutesPerDay - 1 /\ total = q * MinutesPerDay + rest
    <3> HIDE DEF total
    <3> QED
      BY <2>2 DEF MinutesPerDay
  <2> HIDE DEF q, rest
  <2>4. CalendarDate(b) /\ GregorianDay(b) = g + q
    BY <1>2, <2>3, AddDaysCounts
  <2> HIDE DEF b, a, g
  <2>5. ParseDt(u).date = b /\ ParseDt(u).minute = rest
    BY <2>1
  <2>6. (g + q) * MinutesPerDay + rest = g * MinutesPerDay + total
    <3> HIDE DEF total
    <3> QED
      BY <1>2, <2>2, <2>3 DEF MinutesPerDay
  <2>7. Instant(u) = g * MinutesPerDay + total
    <3> DEFINE p == g * MinutesPerDay
               v == UtcOffset * 60
    <3>1. Instant(u) = p + m + v /\ p \in Int /\ v \in Int /\ m \in Int /\ total = m + v
      BY <1>2, <1>3, <1>4, <1>5, OffsetAssumption DEF MinutesPerDay
    <3> HIDE DEF p, v, m, total
    <3>2. Instant(u) = p + total
      BY <3>1
    <3> QED
      BY <3>2 DEF p
  <2> QED
    BY <2>3, <2>4, <2>5, <2>6, <2>7
<1>6. CASE ~u.utc
  <2>1. ParseDt(u) = [date |-> a, minute |-> m]
    BY <1>6 DEF ParseDt, At
  <2>2. ParseDt(u).date = a /\ ParseDt(u).minute = m
    BY <2>1
  <2>3. m \in 0 .. MinutesPerDay - 1 /\ Instant(u) = g * MinutesPerDay + m
    <3> HIDE DEF m, g, a
    <3>1. m \in 0 .. MinutesPerDay - 1 /\ g * MinutesPerDay \in Int
      BY <1>2, <1>3 DEF MinutesPerDay
    <3> DEFINE p == g * MinutesPerDay
    <3>2. Instant(u) = p + m + 0 /\ p \in Int /\ m \in Int
      BY <1>3, <1>4, <1>6, <3>1
    <3> HIDE DEF p
    <3>3. Instant(u) = p + m
      BY <3>2
    <3> QED
      BY <3>1, <3>3 DEF p
  <2> QED
    BY <1>2, <2>2, <2>3
<1> QED
  BY <1>1, <1>5, <1>6

\* cmp_key orders times as their minutes do.
LEMMA InstantOrder ==
  ASSUME NEW t, CalendarDate(t.date), t.minute \in 0 .. MinutesPerDay - 1,
         NEW d, CalendarDate(d), NEW m \in Nat, m < MinutesPerDay
  PROVE  ~Before(t, At(d, m)) <=>
             GregorianDay(d) * MinutesPerDay + m <= GregorianDay(t.date) * MinutesPerDay + t.minute
<1> DEFINE a == GregorianDay(t.date)
           b == GregorianDay(d)
           l == t.minute
<1>1. a \in Int /\ b \in Int /\ (DateBefore(t.date, d) <=> a < b) /\ (t.date = d <=> a = b)
  BY CalendarDay, DayOrder
<1>2. Before(t, At(d, m)) <=> DateBefore(t.date, d) \/ (t.date = d /\ l < m)
  BY DEF Before, At
<1>3. l \in 0 .. MinutesPerDay - 1
  OBVIOUS
<1> HIDE DEF a, b, l
<1>4. Before(t, At(d, m)) <=> a < b \/ (a = b /\ l < m)
  BY <1>1, <1>2
<1>5. a < b \/ (a = b /\ l < m) <=> ~(b * MinutesPerDay + m <= a * MinutesPerDay + l)
  BY <1>1, <1>3 DEF MinutesPerDay
<1> QED
  BY <1>4, <1>5 DEF a, b, l

\* parse_weekly_rule keeps what a weekly rule says.
LEMMA WeeklyRead ==
  ASSUME NEW e, ReadEvent(e), Valid(e), NEW r \in e.rrule, r.freq = "WEEKLY"
  PROVE  /\ RuleOf(e).interval = Given(r.interval, 1) /\ RuleOf(e).byday = r.byday
         /\ RuleOf(e).count = r.count /\ RuleOf(e).until = {ParseDt(s) : s \in r.until}
<1> DEFINE interval == Given(r.interval, 1)
<1>1. /\ interval \in Nat \ {0} /\ r.count \subseteq Nat \ {0}
      /\ e.rrule # {} /\ (CHOOSE q \in e.rrule : TRUE) = r
  BY WrittenRule
<1> HIDE DEF interval
<1>2. AtLeastOne(interval) = interval /\ \A n \in r.count : AtLeastOne(n) = n
  BY <1>1 DEF AtLeastOne
<1>3. {AtLeastOne(n) : n \in r.count} = r.count
  BY <1>2
<1>4. RuleOf(e) = WeeklyRule(interval, {ParseDt(s) : s \in r.until}, r.count, r.byday)
  BY <1>1, <1>2, <1>3 DEF RuleOf, ParseWeeklyRule, interval
<1> QED
  BY <1>4 DEF WeeklyRule, interval

\* It takes any other rule for one of one lesson.
LEMMA OtherRead ==
  ASSUME NEW e, ReadEvent(e), Valid(e), WeeklyAsRead(e), \A r \in e.rrule : r.freq # "WEEKLY"
  PROVE  /\ \A r \in e.rrule : OneLesson(r)
         /\ RuleOf(e).interval = 1 /\ RuleOf(e).byday = {} /\ RuleOf(e).until = {}
         /\ RuleOf(e).count \subseteq {1} /\ (e.rrule # {} => RuleOf(e).count = {1})
<1>1. \A r \in e.rrule : OneLesson(r)
  BY DEF WeeklyAsRead
<1>2. CASE e.rrule = {}
  <2>1. RuleOf(e) = WeeklyRule(1, {}, {}, {})
    BY <1>2 DEF RuleOf
  <2> QED
    BY <1>2, <2>1 DEF WeeklyRule
<1>3. CASE e.rrule # {}
  <2>1. (CHOOSE r \in e.rrule : TRUE) \in e.rrule
    BY <1>3
  <2>2. RuleOf(e) = WeeklyRule(1, {}, {1}, {})
    BY <1>3, <2>1 DEF RuleOf, ParseWeeklyRule
  <2> QED
    BY <1>1, <2>2 DEF WeeklyRule
<1> QED
  BY <1>1, <1>2, <1>3

LEMMA WellRuledAsRead ==
  ASSUME NEW e, ReadEvent(e), Valid(e), WeeklyAsRead(e)
  PROVE  WellRuled(e)
<1> DEFINE own == WeekdayIso(e.start.date)
<1>1. e.rrule # {} => \A w \in WeekdaysForEvent(e) : Reached(e, w)
  BY DEF WeeklyAsRead
<1>2. CASE \E r \in e.rrule : r.freq = "WEEKLY"
  <2>1. PICK r \in e.rrule : r.freq = "WEEKLY"
    BY <1>2
  <2>2. RuleOf(e).interval = Given(r.interval, 1) /\ RuleOf(e).byday = r.byday /\ RuleOf(e).count = r.count
    BY <2>1, WeeklyRead
  <2>3. (r.count # {} => r.byday \subseteq {own}) /\ (Given(r.interval, 1) > 1 => \A w \in r.byday : w >= own)
    BY DEF WeeklyAsRead
  <2> QED
    BY <1>1, <2>2, <2>3 DEF WellRuled
<1>3. CASE \A r \in e.rrule : r.freq # "WEEKLY"
  <2>1. RuleOf(e).byday = {}
    BY <1>3, OtherRead
  <2> QED
    BY <1>1, <2>1 DEF WellRuled
<1> QED
  BY <1>2, <1>3

\* The rule has not ended before the event's time on day n.
StillOn(e, r, n) == \A u \in r.until : n * MinutesPerDay + e.start.minute <= Instant(u)

\* UNTIL, compared in minutes, is the plugin's comparison of dates and times.
LEMMA OpenWhen ==
  ASSUME NEW e, ReadEvent(e), RealRules(e), Valid(e), NEW r \in e.rrule, r.freq = "WEEKLY", NEW d, CalendarDate(d)
  PROVE  Open(e, d) <=> StillOn(e, r, GregorianDay(d))
<1> DEFINE m == e.start.minute
<1>1. m \in Nat /\ m < MinutesPerDay
  BY DEF ReadEvent, Moment, Valid
<1>2. RuleOf(e).until = {ParseDt(s) : s \in r.until} /\ r.until \subseteq Stamps
  BY WeeklyRead, WrittenRule
<1>3. ASSUME NEW u \in r.until
      PROVE  ~Before(ParseDt(u), At(d, m)) <=> GregorianDay(d) * MinutesPerDay + m <= Instant(u)
  <2>1. u \in Stamps /\ RealDate(u.date) /\ u.timed /\ u.minute < MinutesPerDay
    BY <1>2 DEF RealRules, Valid
  <2> DEFINE t == ParseDt(u)
  <2>2. CalendarDate(t.date) /\ t.minute \in 0 .. MinutesPerDay - 1
        /\ GregorianDay(t.date) * MinutesPerDay + t.minute = Instant(u)
    BY <2>1, InstantRead
  <2> HIDE DEF t, m
  <2>3. ~Before(t, At(d, m)) <=>
            GregorianDay(d) * MinutesPerDay + m <= GregorianDay(t.date) * MinutesPerDay + t.minute
    BY <1>1, <2>2, InstantOrder
  <2> QED
    BY <2>2, <2>3 DEF t
<1>4. Open(e, d) <=> \A u \in r.until : ~Before(ParseDt(u), At(d, m))
  BY <1>2 DEF Open
<1> QED
  BY <1>3, <1>4 DEF StillOn

\* A weekly rule's days, its end left aside.
OnDays(e, r, n) ==
    LET first == GregorianDay(e.start.date)
    IN  /\ n >= first
        /\ WeekdayOf(n) \in (IF r.byday = {} THEN {WeekdayOf(first)} ELSE r.byday)
        /\ ((MondayBefore(n) - MondayBefore(first)) \div 7) % Given(r.interval, 1) = 0

LEMMA WeeklyFalls ==
  ASSUME NEW e, ReadEvent(e), Valid(e), NEW r \in e.rrule, r.freq = "WEEKLY", NEW n
  PROVE  /\ Falls(e, n) <=> OnDays(e, r, n) /\ StillOn(e, r, n)
         /\ \A d : FallsAsRead(e, n, d) <=> OnDays(e, r, n) /\ Open(e, d)
<1>1. e.rrule # {} /\ \A q \in e.rrule : q = r
  BY DEF Valid
<1>2. RuleOf(e).interval = Given(r.interval, 1) /\ RuleOf(e).byday = r.byday
  BY WeeklyRead
<1>3. Falls(e, n) <=> OnDays(e, r, n) /\ StillOn(e, r, n)
  <2> DEFINE first == GregorianDay(e.start.date)
             even == ((MondayBefore(n) - MondayBefore(first)) \div 7) % Given(r.interval, 1) = 0
             on == n * MinutesPerDay + e.start.minute
  <2>1. Falls(e, n) <=>
            /\ n >= first
            /\ (r.byday # {} => WeekdayOf(n) \in r.byday) /\ even
            /\ (r.byday = {} => WeekdayOf(n) = WeekdayOf(first))
            /\ \A u \in r.until : on <= Instant(u)
    BY <1>1 DEF Falls
  <2>2. OnDays(e, r, n) <=>
            /\ n >= first /\ WeekdayOf(n) \in (IF r.byday = {} THEN {WeekdayOf(first)} ELSE r.byday) /\ even
    BY DEF OnDays
  <2>3. StillOn(e, r, n) <=> \A u \in r.until : on <= Instant(u)
    BY DEF StillOn
  <2> HIDE DEF first, even, on
  <2> QED
    BY <2>1, <2>2, <2>3
<1>4. \A d : FallsAsRead(e, n, d) <=> OnDays(e, r, n) /\ Open(e, d)
  BY <1>1, <1>2 DEF FallsAsRead, OnDays
<1> QED
  BY <1>3, <1>4

\* So the plugin's reading of a weekly rule is what the rule says.
LEMMA WeeklyTakesPlace ==
  ASSUME NEW e, ReadEvent(e), RealRules(e), Valid(e), NEW r \in e.rrule, r.freq = "WEEKLY",
         NEW d, CalendarDate(d)
  PROVE  TakesPlace(e, GregorianDay(d), d) <=> TakesPlaceAsRead(e, GregorianDay(d), d)
<1> DEFINE n == GregorianDay(d)
           first == GregorianDay(e.start.date)
           m == e.start.minute
           earlier == {k \in first .. n - 1 : Falls(e, k)}
           read == {k \in first .. n - 1 : FallsAsRead(e, k, d)}
<1>1. n \in Int /\ first \in Int /\ m \in Nat
  <2>1. CalendarDate(e.start.date) /\ m \in Nat
    BY DEF ReadEvent, Moment
  <2> QED
    BY <2>1, CalendarDay
<1>2. Open(e, d) <=> StillOn(e, r, n)
  BY OpenWhen
<1>3. \A k : /\ Falls(e, k) <=> OnDays(e, r, k) /\ StillOn(e, r, k)
             /\ FallsAsRead(e, k, d) <=> OnDays(e, r, k) /\ Open(e, d)
  BY WeeklyFalls
<1>4. Falls(e, n) <=> FallsAsRead(e, n, d)
  BY <1>2, <1>3
<1>5. ASSUME StillOn(e, r, n), NEW k \in first .. n - 1
      PROVE  StillOn(e, r, k)
  <2>1. ASSUME NEW u \in r.until
        PROVE  k * MinutesPerDay + m <= Instant(u)
    <3>1. n * MinutesPerDay + m <= Instant(u)
      BY <1>5 DEF StillOn
    <3>2. Instant(u) \in Int
      <4>1. u \in Stamps /\ RealDate(u.date)
        BY WrittenRule DEF RealRules
      <4>2. u.date \in Dates /\ u.minute \in 0 .. 100 * 60 - 1
        BY <4>1, Zenon DEF Stamps
      <4>3. GregorianDay(u.date) \in Int
        BY <4>1, <4>2, DateRead, CalendarDay
      <4> DEFINE g == GregorianDay(u.date)
                 l == u.minute
      <4>4. Instant(u) = g * MinutesPerDay + l + (IF u.utc THEN UtcOffset * 60 ELSE 0)
        BY DEF Instant
      <4>5. g \in Int /\ l \in 0 .. 100 * 60 - 1
        BY <4>2, <4>3
      <4> HIDE DEF g, l
      <4> QED
        BY <4>4, <4>5, OffsetAssumption DEF MinutesPerDay
    <3> DEFINE i == Instant(u)
    <3>3. k \in Int /\ k < n
      BY <1>1, <1>5
    <3>4. n * MinutesPerDay + m <= i /\ i \in Int
      BY <3>1, <3>2
    <3> HIDE DEF i, m, n
    <3>5. k * MinutesPerDay + m <= i
      BY <1>1, <3>3, <3>4 DEF MinutesPerDay
    <3> QED
      BY <3>5 DEF i
  <2> QED
    BY <2>1 DEF StillOn
<1>6. StillOn(e, r, n) => earlier = read
  <2>1. ASSUME StillOn(e, r, n), NEW k \in first .. n - 1
        PROVE  Falls(e, k) <=> FallsAsRead(e, k, d)
    BY <1>2, <1>3, <1>5, <2>1
  <2> QED
    BY <2>1
<1>7. RuleOf(e).count = r.count /\ \A q \in e.rrule : q = r
  BY WeeklyRead DEF Valid
<1>8. TakesPlace(e, n, d) <=>
          Falls(e, n) /\ d \notin e.exdates /\ \A limit \in r.count : Cardinality(earlier) < limit
  BY <1>7 DEF TakesPlace
<1>9. TakesPlaceAsRead(e, n, d) <=>
          FallsAsRead(e, n, d) /\ d \notin e.exdates /\ \A limit \in r.count : Cardinality(read) < limit
  BY <1>7 DEF TakesPlaceAsRead
<1>10. Falls(e, n) => StillOn(e, r, n)
  BY <1>3
<1> HIDE DEF n, earlier, read
<1>11. TakesPlace(e, n, d) <=> TakesPlaceAsRead(e, n, d)
  BY <1>4, <1>6, <1>8, <1>9, <1>10
<1> QED
  BY <1>11 DEF n

\* And a rule of one lesson, or none, has the plugin repeat nothing.
LEMMA OnceAsRead ==
  ASSUME NEW e, ReadEvent(e), Valid(e), WeeklyAsRead(e), \A r \in e.rrule : r.freq # "WEEKLY",
         NEW d, CalendarDate(d)
  PROVE  TakesPlaceAsRead(e, GregorianDay(d), d) <=> d = e.start.date /\ d \notin e.exdates
<1> DEFINE n == GregorianDay(d)
           first == GregorianDay(e.start.date)
           S == {k \in Int : FallsAsRead(e, k, d)}
           read == {k \in first .. n - 1 : FallsAsRead(e, k, d)}
<1>1. CalendarDate(e.start.date)
  BY DEF ReadEvent, Moment
<1>2. n \in Int /\ first \in Int /\ (n = first <=> d = e.start.date)
  BY <1>1, CalendarDay, DayOrder
<1>3. /\ RuleOf(e).interval = 1 /\ RuleOf(e).byday = {} /\ RuleOf(e).until = {}
      /\ RuleOf(e).count \subseteq {1} /\ (e.rrule # {} => RuleOf(e).count = {1})
  BY OtherRead
<1>4. FallsAsRead(e, first, d)
  <2>1. MondayBefore(first) - MondayBefore(first) = 0
    BY <1>2 DEF MondayBefore, WeekdayOf
  <2>2. ((MondayBefore(first) - MondayBefore(first)) \div 7) % 1 = 0
    BY <2>1
  <2>3. Open(e, d)
    BY <1>3 DEF Open
  <2>4. first >= first
    BY <1>2
  <2> HIDE DEF first
  <2> QED
    BY <1>3, <2>2, <2>3, <2>4 DEF FallsAsRead, first
<1>5. FallsAsRead(e, n, d) => n >= first /\ (e.rrule = {} => n = first)
  BY DEF FallsAsRead
<1>6. n >= first => (Cardinality(read) < 1 <=> n = first)
  <2>1. read = {k \in first .. n - 1 : k \in S}
    BY <1>2
  <2>2. first \in S
    BY <1>2, <1>4
  <2> HIDE DEF n, first, S, read
  <2> QED
    BY <1>2, <2>1, <2>2, OnlyFirst
<1>7. TakesPlaceAsRead(e, n, d) <=>
          FallsAsRead(e, n, d) /\ d \notin e.exdates /\ \A limit \in RuleOf(e).count : Cardinality(read) < limit
  BY DEF TakesPlaceAsRead
<1> HIDE DEF n, first, read
<1>8. n = first => n >= first
  BY <1>2
<1>9. TakesPlaceAsRead(e, n, d) <=> d = e.start.date /\ d \notin e.exdates
  <2>1. CASE n = first
    BY <1>2, <1>3, <1>4, <1>6, <1>7, <1>8, <2>1
  <2>2. CASE n # first
    BY <1>2, <1>3, <1>5, <1>6, <1>7, <2>2
  <2> QED
    BY <2>1, <2>2
<1> QED
  BY <1>9 DEF n

\* expand_weeks of WakeUp: an event takes place on a date, as its rule says by
\* RFC 5545, exactly when the plugin repeats it on that date and no EXDATE
\* names it.
THEOREM TakesPlaceWhen ==
  ASSUME NEW e, ReadEvent(e), RealRules(e), Valid(e), WeeklyAsRead(e), NEW d, CalendarDate(d)
  PROVE  TakesPlace(e, GregorianDay(d), d) <=>
             /\ d \notin e.exdates /\ WeekdayIso(d) \in WeekdaysForEvent(e)
             /\ \E k \in Repeats(e, WeekdayIso(d)) : Repetition(e, WeekdayIso(d), k) = d
<1>1. TakesPlaceAsRead(e, GregorianDay(d), d) <=>
             /\ d \notin e.exdates /\ WeekdayIso(d) \in WeekdaysForEvent(e)
             /\ \E k \in Repeats(e, WeekdayIso(d)) : Repetition(e, WeekdayIso(d), k) = d
  BY WellRuledAsRead, RepeatedWhen
<1>2. TakesPlace(e, GregorianDay(d), d) <=> TakesPlaceAsRead(e, GregorianDay(d), d)
  <2>1. CASE \E r \in e.rrule : r.freq = "WEEKLY"
    BY <2>1, WeeklyTakesPlace
  <2>2. CASE \A r \in e.rrule : r.freq # "WEEKLY"
    <3>1. \A r \in e.rrule : OneLesson(r)
      BY <2>2, OtherRead
    <3> QED
      BY <2>2, <3>1, OnceWhen, OnceAsRead
  <2> QED
    BY <2>1, <2>2
<1> QED
  BY <1>1, <1>2

\* A date's week is among an event's weeks exactly when the event is repeated
\* on that date.
LEMMA WeeksWhen ==
  ASSUME NEW e, ReadEvent(e), RealRules(e), NEW start, CalendarDate(start), NEW d, CalendarDate(d),
         ~DateBefore(d, start)
  PROVE  WeekIndex(start, d) \in ExpandWeeks(e, WeekdayIso(d), start) <=>
             d \notin e.exdates /\ \E k \in Repeats(e, WeekdayIso(d)) : Repetition(e, WeekdayIso(d), k) = d
<1> DEFINE n == GregorianDay(d)
           s == GregorianDay(start)
           w == WeekdayIso(d)
           dates == {Repetition(e, w, k) : k \in Repeats(e, w)} \ e.exdates
<1>1. n \in Int /\ s \in Int /\ w = WeekdayOf(n) /\ w \in 1..7 /\ s <= n
  <2>1. n \in Int /\ s \in Int /\ w = WeekdayOf(n) /\ w \in 1..7
    BY CalendarDay, WeekdayOfDay
  <2>2. ~(n < s)
    BY DayOrder
  <2> QED
    BY <2>1, <2>2
<1>2. WeekIndex(start, d) = (n - s) \div 7 + 1
  <2>1. WeekIndex(start, d) = IF n < s THEN 0 ELSE (n - s) \div 7 + 1
    BY SameWeek
  <2> HIDE DEF n, s
  <2> QED
    BY <1>1, <2>1
<1>3. ExpandWeeks(e, w, start) = {WeekIndex(start, a) : a \in dates}
  BY DEF ExpandWeeks
<1>4. ASSUME NEW a \in dates, WeekIndex(start, a) = WeekIndex(start, d)
      PROVE  a = d
  <2>1. PICK k \in Repeats(e, w) : a = Repetition(e, w, k)
    OBVIOUS
  <2>2. k \in Nat
    BY OccurrencesAssumption DEF Repeats
  <2>3. CalendarDate(a) /\ WeekdayOf(GregorianDay(a)) = w
    BY <1>1, <2>1, <2>2, NthDays
  <2> DEFINE m == GregorianDay(a)
  <2>4. m \in Int /\ WeekIndex(start, a) = IF m < s THEN 0 ELSE (m - s) \div 7 + 1
    BY <2>3, CalendarDay, SameWeek
  <2>5. WeekdayOf(m) = WeekdayOf(n)
    BY <1>1, <2>3
  <2> HIDE DEF m, n, s
  <2>6. (n - s) \div 7 >= 0
    BY <1>1
  <2>7. s <= m /\ (n - s) \div 7 = (m - s) \div 7
    BY <1>1, <1>2, <1>4, <2>4, <2>6
  <2>8. n = m
    BY <1>1, <2>4, <2>5, <2>7, OneDay
  <2> QED
    BY <2>3, <2>8, DayOrder DEF m, n
<1>5. ASSUME WeekIndex(start, d) \in ExpandWeeks(e, w, start)
      PROVE  d \notin e.exdates /\ \E k \in Repeats(e, w) : Repetition(e, w, k) = d
  <2>1. PICK a \in dates : WeekIndex(start, a) = WeekIndex(start, d)
    BY <1>3, <1>5
  <2>2. d \in dates
    BY <1>4, <2>1
  <2> QED
    BY <2>2
<1>6. ASSUME d \notin e.exdates, NEW k \in Repeats(e, w), Repetition(e, w, k) = d
      PROVE  WeekIndex(start, d) \in ExpandWeeks(e, w, start)
  <2>1. d \in dates
    BY <1>6
  <2> QED
    BY <1>3, <2>1
<1> QED
  BY <1>5, <1>6

\* An event of its own, as WeekDown and Nexio list them.
LEMMA LoneEventWhen ==
  ASSUME NEW e, ReadEvent(e), Valid(e), NEW start, CalendarDate(start), NEW source, LoneAsRead(e, start, source),
         NEW d, CalendarDate(d), ~DateBefore(d, start)
  PROVE  TakesPlace(e, GregorianDay(d), d) <=>
             WeekdayIso(e.start.date) = WeekdayIso(d) /\ WeekIndex(start, e.start.date) = WeekIndex(start, d)
<1> DEFINE n == GregorianDay(d)
           s == GregorianDay(start)
           a == e.start.date
           m == GregorianDay(a)
<1>1. CalendarDate(a)
  BY DEF ReadEvent, Moment
<1>2. n \in Int /\ s \in Int /\ m \in Int /\ WeekdayIso(d) = WeekdayOf(n) /\ WeekdayIso(a) = WeekdayOf(m)
  BY <1>1, CalendarDay, WeekdayOfDay
<1>3. s <= n
  BY <1>2, DayOrder
<1>4. /\ WeekIndex(start, d) = IF n < s THEN 0 ELSE (n - s) \div 7 + 1
      /\ WeekIndex(start, a) = IF m < s THEN 0 ELSE (m - s) \div 7 + 1
  BY <1>1, SameWeek
<1>5. a \notin e.exdates /\ \A r \in e.rrule : OneLesson(r)
  BY DEF LoneAsRead
<1>6. TakesPlace(e, n, d) <=> d = a
  BY <1>5, OnceWhen
<1>7. ASSUME WeekdayIso(a) = WeekdayIso(d), WeekIndex(start, a) = WeekIndex(start, d)
      PROVE  d = a
  <2>1. n = m
    <3>1. WeekdayOf(n) = WeekdayOf(m)
      BY <1>2, <1>7
    <3> HIDE DEF n, m, s
    <3>2. (n - s) \div 7 >= 0
      BY <1>2, <1>3
    <3>3. s <= m /\ (n - s) \div 7 = (m - s) \div 7
      BY <1>2, <1>3, <1>4, <1>7, <3>2
    <3> QED
      BY <1>2, <1>3, <3>1, <3>3, OneDay
  <2> QED
    BY <1>1, <2>1, DayOrder
<1> QED
  BY <1>6, <1>7

FoundOn(source, e, start, d) ==
    \E f \in FoundBy(source, e, start) : f.weekday = WeekdayIso(d) /\ WeekIndex(start, d) \in f.weeks

\* The dialect finds an event in the week and on the weekday of a date of the
\* term exactly when the event takes place on that date.
LEMMA FoundWhen ==
  ASSUME NEW e, ReadEvent(e), NEW source \in Sources, source = "WakeUp" => RealRules(e),
         NEW start, CalendarDate(start), FollowsRfc(source, e, start),
         NEW d, CalendarDate(d), ~DateBefore(d, start)
  PROVE  FoundOn(source, e, start, d) <=> TakesPlace(e, GregorianDay(d), d)
<1> DEFINE w == WeekdayIso(d)
           week == WeekIndex(start, d)
<1>1. CASE source = "WakeUp"
  <2>1. FoundBy(source, e, start) = {Found(e, v, ExpandWeeks(e, v, start)) : v \in WeekdaysForEvent(e)}
    BY <1>1 DEF FoundBy
  <2>2. FoundOn(source, e, start, d) <=> w \in WeekdaysForEvent(e) /\ week \in ExpandWeeks(e, w, start)
    <3>1. \A v : /\ Found(e, v, ExpandWeeks(e, v, start)).weekday = v
                /\ Found(e, v, ExpandWeeks(e, v, start)).weeks = ExpandWeeks(e, v, start)
      BY DEF Found
    <3>2. FoundOn(source, e, start, d) <=>
              \E v \in WeekdaysForEvent(e) : v = w /\ week \in ExpandWeeks(e, v, start)
      BY <2>1, <3>1, Zenon DEF FoundOn
    <3> HIDE DEF w, week
    <3> QED
      BY <3>2
  <2>3. week \in ExpandWeeks(e, w, start) <=>
            d \notin e.exdates /\ \E k \in Repeats(e, w) : Repetition(e, w, k) = d
    BY <1>1, WeeksWhen
  <2>4. TakesPlace(e, GregorianDay(d), d) <=>
            /\ d \notin e.exdates /\ w \in WeekdaysForEvent(e)
            /\ \E k \in Repeats(e, w) : Repetition(e, w, k) = d
    BY <1>1, TakesPlaceWhen DEF FollowsRfc
  <2> QED
    BY <2>2, <2>3, <2>4
<1>2. CASE source # "WakeUp"
  <2> DEFINE own == WeekdayIso(e.start.date)
             first == WeekIndex(start, e.start.date)
  <2>1. Valid(e) /\ LoneAsRead(e, start, source)
    BY <1>2 DEF FollowsRfc
  <2>2. TakesPlace(e, GregorianDay(d), d) <=> own = w /\ first = week
    BY <2>1, LoneEventWhen
  <2>3. FoundBy(source, e, start) = {Found(e, own, {first})}
    <3>1. CASE source = "WeekDown"
      BY <1>2, <3>1 DEF FoundBy, InWeek
    <3>2. CASE source = "Nexio"
      <4>1. e.label \in Nat
        BY DEF ReadEvent
      <4>2. LabelledWeek(e, start) = first
        BY <2>1, <3>2, <4>1 DEF LabelledWeek, LoneAsRead
      <4> QED
        BY <1>2, <3>2, <4>2 DEF FoundBy, InWeek
    <3> QED
      BY <1>2, <3>1, <3>2 DEF Sources
  <2>4. FoundOn(source, e, start, d) <=> own = w /\ week = first
    BY <2>3 DEF FoundOn, Found
  <2> QED
    BY <2>2, <2>4
<1> QED
  BY <1>1, <1>2

\* The lessons of a date, as the file has them.
TaughtOn(events, d) ==
    {EventLesson(events[i]) : i \in {k \in DOMAIN events : TakesPlace(events[k], GregorianDay(d), d)}}

\* The lessons a dialect finds for a date are those the file has for it.
LEMMA FoundIsTaught ==
  ASSUME NEW text \in Seq(EventTexts), NEW events \in ParseVevents(text), NEW source \in Sources,
         source = "WakeUp" => RulesParse(events), NEW start, CalendarDate(start),
         \A i \in DOMAIN events : FollowsRfc(source, events[i], start),
         NEW d, CalendarDate(d), ~DateBefore(d, start)
  PROVE  LessonsFound(AllFound(source, events, start), WeekIndex(start, d), WeekdayIso(d)) = TaughtOn(events, d)
<1> DEFINE found == AllFound(source, events, start)
           shown == LessonsFound(found, WeekIndex(start, d), WeekdayIso(d))
<1>1. \A e : e \in Elements(events) <=> \E i \in DOMAIN events : e = events[i]
  BY EventsRead, ElementsFinite
<1>2. ASSUME NEW i \in DOMAIN events
      PROVE  /\ ReadEvent(events[i]) /\ (source = "WakeUp" => RealRules(events[i]))
             /\ FoundOn(source, events[i], start, d) <=> TakesPlace(events[i], GregorianDay(d), d)
  <2>1. ReadEvent(events[i])
    BY EventsRead
  <2>2. source = "WakeUp" => RealRules(events[i])
    BY DEF RulesParse, RealRules
  <2>3. FollowsRfc(source, events[i], start)
    OBVIOUS
  <2> DEFINE e == events[i]
  <2> HIDE DEF e
  <2>4. ReadEvent(e) /\ (source = "WakeUp" => RealRules(e)) /\ FollowsRfc(source, e, start)
    BY <2>1, <2>2, <2>3 DEF e
  <2>5. FoundOn(source, e, start, d) <=> TakesPlace(e, GregorianDay(d), d)
    BY <2>4, FoundWhen
  <2> QED
    BY <2>1, <2>2, <2>5 DEF e
<1>3. ASSUME NEW x \in shown
      PROVE  x \in TaughtOn(events, d)
  <2>1. PICK f \in found : f.weekday = WeekdayIso(d) /\ WeekIndex(start, d) \in f.weeks /\ x = EventLesson(f.event)
    BY DEF LessonsFound
  <2>2. PICK i \in DOMAIN events : f \in FoundBy(source, events[i], start)
    BY <1>1, <2>1 DEF AllFound
  <2>3. f.event = events[i]
    BY <1>2, <2>2, FoundByGood
  <2>4. TakesPlace(events[i], GregorianDay(d), d)
    BY <1>2, <2>1, <2>2 DEF FoundOn
  <2> QED
    BY <2>1, <2>3, <2>4 DEF TaughtOn
<1>4. ASSUME NEW x \in TaughtOn(events, d)
      PROVE  x \in shown
  <2>1. PICK i \in DOMAIN events : TakesPlace(events[i], GregorianDay(d), d) /\ x = EventLesson(events[i])
    BY DEF TaughtOn
  <2>2. PICK f \in FoundBy(source, events[i], start) : f.weekday = WeekdayIso(d) /\ WeekIndex(start, d) \in f.weeks
    BY <1>2, <2>1 DEF FoundOn
  <2>3. f.event = events[i]
    BY <1>2, <2>2, FoundByGood
  <2>4. f \in found
    BY <1>1, <2>2 DEF AllFound
  <2> QED
    BY <2>1, <2>2, <2>3, <2>4 DEF LessonsFound
<1> QED
  BY <1>3, <1>4

\* The courses the wristband looks at are those of the wall's weekday, in the
\* week the plugin would count.
LEMMA ShownLessons ==
  ASSUME WallAgrees, NEW s, CalendarDate(s.start_date), WeekIndex(s.start_date, date) <= 255
  PROVE  /\ CalendarDate(date)
         /\ TodaysCourses(s, Clock) = CoursesOnDay(s.courses, WeekIndex(s.start_date, date), WeekdayIso(date))
<1>1. CalendarDate(date)
  BY DEF WallAgrees, CalendarDate
<1>2. GregorianDay(date) = day /\ Clock = [local_day |-> day, minute_of_day |-> minute, weekday |-> WeekdayIso(date)]
  BY WallShows DEF CalendarsAgree
<1>3. Clock.local_day = GregorianDay(date) /\ Clock.weekday = WeekdayIso(date)
  BY <1>2
<1>4. TermWeek(s.start_date, GregorianDay(date)) = WeekIndex(s.start_date, date)
  BY <1>1, SameWeek
<1> QED
  BY <1>1, <1>3, <1>4 DEF TodaysCourses

\* So the wrist shows them, and none before the term.
LEMMA WornIsTaught ==
  ASSUME WallAgrees, schedule # NoSchedule, MadeOfFile, Plain, WeekIndex(schedule.start_date, date) <= 255
  PROVE  Shown = IF DateBefore(date, schedule.start_date) THEN {} ELSE Taught
<1> DEFINE start == schedule.start_date
           week == WeekIndex(start, date)
           weekday == WeekdayIso(date)
<1>1. schedule \in ConvertIcsText(import.text, import.source, import.term_start)
  BY DEF MadeOfFile
<1>2. import.source \in Sources /\ import.text \in Seq(EventTexts) /\ import.term_start \subseteq Dates
  BY ImportedFile
<1>3. CalendarDate(start) /\ \A i \in DOMAIN schedule.courses : schedule.courses[i].weeks_start \in Nat \ {0}
  BY <1>1, <1>2, SentSchedule
<1>4. CalendarDate(date) /\ TodaysCourses(schedule, Clock) = CoursesOnDay(schedule.courses, week, weekday)
  BY <1>3, ShownLessons
<1>5. Shown = LessonsIn(schedule, week, weekday)
  BY <1>4 DEF Shown, LessonsIn, Lesson
<1>6. CASE DateBefore(date, start)
  <2>1. week = 0
    BY <1>3, <1>4, <1>6, SameWeek, DayOrder
  <2>2. ASSUME NEW i \in CoursesOnDay(schedule.courses, week, weekday)
        PROVE  FALSE
    <3> DEFINE a == schedule.courses[i].weeks_start
    <3>1. i \in DOMAIN schedule.courses /\ week \in a .. schedule.courses[i].weeks_end
      BY DEF CoursesOnDay, ActiveInWeek
    <3>2. a \in Nat \ {0}
      BY <1>3, <3>1
    <3> HIDE DEF a, week
    <3> QED
      BY <2>1, <3>1, <3>2
  <2>3. LessonsIn(schedule, week, weekday) = {}
    BY <2>2 DEF LessonsIn
  <2> QED
    BY <1>5, <1>6, <2>3
<1>7. CASE ~DateBefore(date, start)
  <2>1. PICK events \in ParseVevents(import.text) :
            \E t : Converted(schedule, import.source, events, t)
    BY <1>1, <1>2, ConvertedFile
  <2>2. PICK t : Converted(schedule, import.source, events, t)
    BY <2>1
  <2> DEFINE found == AllFound(import.source, events, t)
  <2>3. /\ CalendarDate(t) /\ (import.source = "WakeUp" => RulesParse(events))
        /\ schedule \in EmitSchedule(Groups(found), t)
    BY <2>2 DEF Converted
  <2>4. GoodFinds(found)
    BY <1>2, <2>3, AllFoundGood
  <2>5. t = start
    <3> HIDE DEF found
    <3> QED
      BY <2>3, <2>4, GroupsMerging, Emitted
  <2>6. week \in Nat \ {0} /\ weekday \in 1..7
    <3>1. weekday \in 1..7
      BY <1>4, WeekdayOfDay
    <3> DEFINE n == GregorianDay(date)
               s == GregorianDay(start)
    <3>2. n \in Int /\ s \in Int /\ ~(n < s) /\ week = (n - s) \div 7 + 1
      <4>1. n \in Int /\ s \in Int /\ ~(n < s)
        BY <1>3, <1>4, <1>7, CalendarDay, DayOrder
      <4>2. week = IF n < s THEN 0 ELSE (n - s) \div 7 + 1
        BY <1>3, <1>4, SameWeek
      <4> HIDE DEF n, s, week
      <4> QED
        BY <4>1, <4>2
    <3> HIDE DEF n, s, week
    <3> QED
      BY <3>1, <3>2
  <2>7. LessonsIn(schedule, week, weekday) = LessonsFound(found, week, weekday)
    <3> HIDE DEF found, week, weekday
    <3> QED
      BY <2>3, <2>4, <2>6, ScheduleLessons
  <2>8. \A i \in DOMAIN events : FollowsRfc(import.source, events[i], t)
    BY <2>5 DEF Plain
  <2>9. LessonsFound(found, week, weekday) = TaughtOn(events, date)
    BY <1>2, <1>4, <1>7, <2>3, <2>5, <2>8, FoundIsTaught
  <2>10. Taught = TaughtOn(events, date)
    <3>1. ParseVevents(import.text) = {events}
      BY <1>2, EventsRead
    <3>2. GregorianDay(date) = day
      BY WallShows DEF CalendarsAgree
    <3> QED
      BY <3>1, <3>2 DEF Taught, TaughtOn, EventLesson
  <2> QED
    BY <1>5, <1>7, <2>7, <2>9, <2>10
<1> QED
  BY <1>6, <1>7

\* Whatever file is imported, as long as its rules are of the kinds its
\* dialect reads (Plain): on every day of the 255 weeks the wrist shows the
\* lessons that the file's rules, as they are written, have on that day, at
\* their times, and no other.
THEOREM ShownIsTaught == Spec => []ShowsWhatIsTaught
<1>1. WallAgrees /\ MadeOfFile => ShowsWhatIsTaught
  BY WornIsTaught DEF ShowsWhatIsTaught
<1> QED
  BY <1>1, TimetableInvariant, PTL

=============================================================================
