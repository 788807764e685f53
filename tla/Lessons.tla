------------------------------- MODULE Lessons -------------------------------
(***************************************************************************)
(* What the wristband makes of a schedule: `loop-core/src/model.rs`,       *)
(* `schedule.rs` and the acceptance rules of `persistence.rs`.  A course   *)
(* is a record as in the code; names are numbers (0 is the blank name)     *)
(* that compare as the strings do.                                         *)
(***************************************************************************)
EXTENDS Calendar, FiniteSets, Sequences

Byte == 0..255
Halfword == {n \in Nat : n < 65536}
NoSchedule == [start_date |-> Date(0, 0, 0), courses |-> << >>]

ActiveInWeek(c, week) ==
    /\ week \in c.weeks_start .. c.weeks_end
    /\ (week - c.weeks_start) % (IF c.week_interval = 0 THEN 1 ELSE c.week_interval) = 0

\* courses_on_day as the set of indices into the list; the sort is stable.
CoursesOnDay(courses, week, weekday) ==
    {i \in DOMAIN courses : courses[i].weekday = weekday /\ ActiveInWeek(courses[i], week)}
Earlier(courses, i, j) ==
    \/ courses[i].start_min < courses[j].start_min
    \/ courses[i].start_min = courses[j].start_min /\ i < j
FirstOf(courses, S) == {i \in S : \A j \in S \ {i} : Earlier(courses, i, j)}
LastOf(courses, S) == {i \in S : \A j \in S \ {i} : Earlier(courses, j, i)}

TodaysCourses(schedule, clock) ==
    CoursesOnDay(schedule.courses, TermWeek(schedule.start_date, clock.local_day), clock.weekday)

\* Mutant: a later course replaces the next one found.
LaterNext(schedule, clock) ==
    LET courses == schedule.courses
        minute == clock.minute_of_day
        today == TodaysCourses(schedule, clock)
        now == LastOf(courses, {i \in today : minute \in courses[i].start_min .. courses[i].end_min - 1})
        later == {i \in today : minute < courses[i].start_min}
    IN  [now |-> now, next |-> LastOf(courses, later),
         remaining_today |-> Cardinality({i \in today : minute < courses[i].end_min})]

\* now and next are sets of at most one index.
NowAndNext(schedule, clock) ==
    LET courses == schedule.courses
        minute == clock.minute_of_day
        today == TodaysCourses(schedule, clock)
        now == LastOf(courses, {i \in today : minute \in courses[i].start_min .. courses[i].end_min - 1})
        later == {i \in today : IF now = {} THEN minute < courses[i].start_min
                                ELSE \A j \in now : courses[i].start_min >= courses[j].end_min}
    IN  [now |-> now, next |-> FirstOf(courses, later),
         remaining_today |-> Cardinality({i \in today : minute < courses[i].end_min})]

\* serde refuses a course whose numbers do not fit their types.
FitsTypes(c) ==
    /\ {c.weekday, c.weeks_start, c.weeks_end, c.week_interval} \subseteq Byte
    /\ {c.start_min, c.end_min} \subseteq Halfword

ValidCourse(c) ==
    /\ c.id # 0
    /\ c.name # 0
    /\ c.weekday \in 1..7
    /\ c.start_min < c.end_min
    /\ c.end_min <= MinutesPerDay
    /\ c.weeks_start > 0
    /\ c.weeks_start <= c.weeks_end
    /\ c.week_interval > 0

\* A term without a name, which the plugin never sends (resolve_term_name makes
\* one of the date), is left out.
ValidImport(schedule) ==
    /\ ParsesAsDate(schedule.start_date)
    /\ schedule.start_date.d <= DaysInMonth(schedule.start_date.y, schedule.start_date.m)
    /\ \A i \in DOMAIN schedule.courses : FitsTypes(schedule.courses[i]) /\ ValidCourse(schedule.courses[i])

=============================================================================
