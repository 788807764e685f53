------------------------------ MODULE Timetable ------------------------------
(***************************************************************************)
(* From the ICS file to the lesson on the wrist: the plugin converts the   *)
(* file (Ics), the wristband accepts the schedule and shows, day by day    *)
(* and minute by minute, what it finds for its clock (Lessons).  The way   *)
(* between the two is the subject of Transfer and Storage.                 *)
(*                                                                         *)
(* The wall tells the time: `date` and `day` move on by the rules of the   *)
(* calendar alone, one day at a time, and are what the formulas of both    *)
(* ends are compared with.                                                 *)
(***************************************************************************)
EXTENDS Lessons, Ics

CONSTANTS
    Imports,                 \* what a user may import: source, text, term_start, and on which day
    Minutes,                 \* minutes of the day at which somebody looks
    Span                     \* days that pass after the import

ASSUME ImportsAssumption ==
    \A i \in Imports : /\ i.on.date = Date(i.on.date.y, i.on.date.m, i.on.date.d)
                       /\ i.on.date.y \in Nat \ {0} /\ RealDate(i.on.date)
                       /\ i.on.day = CivilToDays(i.on.date.y, i.on.date.m, i.on.date.d)
                       /\ i.on.day \in Nat
ASSUME FilesAssumption ==
    \A i \in Imports : i.source \in Sources /\ i.text \in Seq(EventTexts) /\ i.term_start \subseteq Dates
ASSUME SpanAssumption == Span \in Nat /\ Minutes \subseteq 0 .. MinutesPerDay - 1

VARIABLES
    import,                  \* the file and what the user chose for it
    schedule,                \* on the wristband
    date, day, minute        \* on the wall; days are counted from 1970-01-01
wall == <<date, day, minute>>
vars == <<import, schedule, wall>>

NextDate(d) ==
    IF d.d < DaysInMonth(d.y, d.m) THEN Date(d.y, d.m, d.d + 1)
    ELSE IF d.m < 12 THEN Date(d.y, d.m + 1, 1)
    ELSE Date(d.y + 1, 1, 1)

\* read_clock: the wristband is given UTC.
Clock == FromUnixMinutes(day * MinutesPerDay + minute - UtcOffset * 60)
Looks == NowAndNext(schedule, Clock)

Init ==
    /\ import \in Imports
    /\ schedule = NoSchedule
    /\ date = import.on.date
    /\ day = import.on.day
    /\ minute = 0

\* The user imports the file, on any moment of the first day.
Import ==
    /\ schedule = NoSchedule
    /\ day = import.on.day
    /\ \E s \in ConvertIcsText(import.text, import.source, import.term_start) :
           /\ ValidImport(s)
           /\ schedule' = s
    /\ UNCHANGED <<import, wall>>

Pass(m) ==
    /\ minute < m
    /\ minute' = m
    /\ UNCHANGED <<import, schedule, date, day>>

Midnight ==
    /\ day < import.on.day + Span
    /\ minute' = 0
    /\ day' = day + 1
    /\ date' = NextDate(date)
    /\ UNCHANGED <<import, schedule>>

Next == Import \/ (\E m \in Minutes : Pass(m)) \/ Midnight
Spec == Init /\ [][Next]_vars

---------------------------------------------------------------------------
(* What a file says, read as RFC 5545 does: the events that take place on  *)
(* a day by the rules as they are written, whatever the plugin makes of    *)
(* them.                                                                   *)

WeekdayOf(n) == ((n + 3) % 7) + 1
MondayBefore(n) == n - (WeekdayOf(n) - 1)

\* A written time in local minutes since 1970.
Instant(stamp) ==
    GregorianDay(stamp.date) * MinutesPerDay + stamp.minute + (IF stamp.utc THEN UtcOffset * 60 ELSE 0)

\* Event e falls on day n; COUNT and EXDATE left aside.
Falls(e, n) ==
    LET first == GregorianDay(e.start.date)
    IN  /\ n >= first
        /\ e.rrule = {} => n = first
        /\ \A r \in e.rrule :
               LET interval == Given(r.interval, 1)
               IN  /\ r.byday # {} => WeekdayOf(n) \in r.byday
                   /\ r.freq = "DAILY" => (n - first) % interval = 0
                   /\ r.freq = "WEEKLY" =>
                          /\ ((MondayBefore(n) - MondayBefore(first)) \div 7) % interval = 0
                          /\ r.byday = {} => WeekdayOf(n) = WeekdayOf(first)
                   /\ \A u \in r.until : n * MinutesPerDay + e.start.minute <= Instant(u)

\* It takes place on day n, whose date is d.
TakesPlace(e, n, d) ==
    /\ Falls(e, n)
    /\ d \notin e.exdates
    /\ \A r \in e.rrule : \A limit \in r.count :
           Cardinality({k \in GregorianDay(e.start.date) .. n - 1 : Falls(e, k)}) < limit

\* The lessons of the wall's day.
Taught ==
    UNION {{[name |-> es[i].name, location |-> es[i].location, start_min |-> es[i].start.minute,
             end_min |-> es[i].end.minute] : i \in {k \in DOMAIN es : TakesPlace(es[k], day, date)}}
           : es \in ParseVevents(import.text)}
Shown ==
    {[name |-> c.name, location |-> c.location, start_min |-> c.start_min, end_min |-> c.end_min]
     : c \in {schedule.courses[i] : i \in TodaysCourses(schedule, Clock)}}

---------------------------------------------------------------------------
(* The files the plugin means to read.                                     *)

\* What is valid, and what this reading covers: a lesson within a day, at
\* most one rule, of days or of weeks, whose end has a time of day.  Where
\* DTSTART is not one of the rule's days, RFC 5545 leaves the days open.
Valid(e) ==
    /\ e.start.minute < MinutesPerDay /\ e.start.date = e.end.date
    /\ \A r, q \in e.rrule : r = q
    /\ \A r \in e.rrule :
           /\ r.freq \in {"DAILY", "WEEKLY"}
           /\ 0 \notin r.interval \cup r.count
           /\ \A u \in r.until : u.timed /\ u.minute < MinutesPerDay
           /\ r.byday # {} => WeekdayIso(e.start.date) \in r.byday

\* A rule of one lesson, as Nexio writes beside every event.
OneLesson(r) == r.count = {1} /\ r.until = {}

\* WakeUp's rules are of weeks, or of one lesson.  They have an end, and
\* reach it within the repetitions the plugin makes; one that is counted
\* keeps to its first day's weekday, and one that skips weeks names no
\* weekday before that.
Reached(e, weekday) ==
    \/ \E u \in RuleOf(e).until : Before(u, At(Repetition(e, weekday, MaxOccurrences), e.start.minute))
    \/ \E n \in RuleOf(e).count : n <= MaxOccurrences
WeeklyAsRead(e) ==
    LET own == WeekdayIso(e.start.date)
    IN  /\ e.rrule # {} => \A w \in WeekdaysForEvent(e) : Reached(e, w)
        /\ \A r \in e.rrule :
               /\ r.freq = "WEEKLY" \/ OneLesson(r)
               /\ r.count # {} => r.byday \subseteq {own}
               /\ Given(r.interval, 1) > 1 => \A w \in r.byday : w >= own

\* WeekDown's and Nexio's events are lessons of their own; a week that Nexio
\* names in a description is the date's.
LoneAsRead(e, start, source) ==
    /\ e.start.date \notin e.exdates
    /\ \A r \in e.rrule : OneLesson(r)
    /\ source = "Nexio" /\ e.label > 0 => e.label = WeekIndex(start, e.start.date)

FollowsRfc(source, e, start) ==
    /\ Valid(e)
    /\ IF source = "WakeUp" THEN WeeklyAsRead(e) ELSE LoneAsRead(e, start, source)

\* BYDAY goes by the zone of DTSTART, which has to be the local one; an
\* EXDATE is the lesson's time, or only its day.
LocalStamps(text) ==
    \A i \in DOMAIN text : \A s \in text[i].dtstart :
        /\ s.utc => \A r \in text[i].rrule : r.byday = {}
        /\ \A x \in text[i].exdates : x.timed => (Instant(x) - Instant(s)) % MinutesPerDay = 0

Plain ==
    /\ LocalStamps(import.text)
    /\ \A es \in ParseVevents(import.text) :
           \A i \in DOMAIN es : FollowsRfc(import.source, es[i], schedule.start_date)

---------------------------------------------------------------------------
(* Properties                                                              *)

\* Every course on the wrist has a day, a span of its day and weeks that the
\* views can count with, and the wall shows a date that exists.
TimetableTypeOK ==
    /\ \A i \in DOMAIN schedule.courses :
           LET c == schedule.courses[i]
           IN  /\ c.weekday \in 1..7
               /\ c.start_min \in Nat /\ c.end_min \in c.start_min + 1 .. MinutesPerDay
               /\ c.weeks_start \in 1..255 /\ c.weeks_end \in c.weeks_start .. 255
               /\ c.week_interval \in 1..255
    /\ RealDate(date) /\ day \in Nat /\ minute \in 0 .. MinutesPerDay - 1

\* Both day counts and both weekdays are those of the wall: the plugin's
\* (time.rs:46, 105), and the wristband's (schedule.rs:52, clock.rs:24).
CalendarsAgree ==
    /\ CivilToDays(date.y, date.m, date.d) = day
    /\ GregorianDay(date) = day
    /\ Clock = [local_day |-> day, minute_of_day |-> minute, weekday |-> WeekdayIso(date)]

\* On every day of the 255 weeks that the wristband counts, the wrist shows
\* the lessons of the file and no other, at their times; before the term,
\* none.  Rules have been read as weekly ones, weeks counted by the plugin,
\* compressed, and counted again by the wristband.
ShowsWhatIsTaught ==
    schedule # NoSchedule /\ Plain /\ WeekIndex(schedule.start_date, date) <= 255 =>
        Shown = IF DateBefore(date, schedule.start_date) THEN {} ELSE Taught

\* Where lessons of a day do not overlap, the lesson announced as next is the
\* present one while its time lasts, and no lesson begins before the one that
\* was announced; the count of lessons left is zero exactly when none is
\* announced.
Disjoint(courses, S) ==
    \A i, j \in S : i = j \/ courses[i].end_min <= courses[j].start_min
                          \/ courses[j].end_min <= courses[i].start_min
NextFollows ==
    day' = day /\ schedule' = schedule /\ Disjoint(schedule.courses, TodaysCourses(schedule, Clock)) =>
        LET courses == schedule.courses
        IN  /\ Looks.remaining_today = 0 <=> Looks.now \cup Looks.next = {}
            /\ \A i \in Looks.next :
                   minute' \in courses[i].start_min .. courses[i].end_min - 1 => Looks'.now = {i}
            /\ \A j \in Looks'.now \ Looks.now :
                   \E i \in Looks.next : courses[i].start_min <= courses[j].start_min
NextComes == [][NextFollows]_vars

\* What the plugin would send is accepted by the wristband, if every lesson
\* has a name and ends on its own day, and the term has at most 255 weeks.
SentIsAccepted ==
    schedule = NoSchedule =>
    \A s \in ConvertIcsText(import.text, import.source, import.term_start) :
        (\A i \in DOMAIN s.courses : /\ s.courses[i].name # 0
                                     /\ s.courses[i].start_min < s.courses[i].end_min
                                     /\ s.courses[i].end_min <= MinutesPerDay
                                     /\ s.courses[i].weeks_end <= 255)
        => ValidImport(s)

=============================================================================
