--------------------------------- MODULE Ics ---------------------------------
(***************************************************************************)
(* The plugin's conversion of an ICS file into a schedule: `ics/parse.rs`, *)
(* `schedule.rs` and the three dialects `wakeup.rs`, `weekdown.rs` and     *)
(* `nexio.rs`.                                                             *)
(*                                                                         *)
(* A file is the sequence of its events' properties, already split:        *)
(*   summary, dtstart, dtend, duration, rrule   at most one value each, as *)
(*             a set that may be empty,                                    *)
(*   location, label (the week in a description, 0 for none), exdates.     *)
(* A time stamp says whether it has a time of day (timed) and a Z (utc).   *)
(* Texts are numbers that compare as the strings do.  An operator that may *)
(* return Err returns a set, empty for the error.                          *)
(***************************************************************************)
EXTENDS Calendar, Sequences, FiniteSets

CONSTANT MaxOccurrences      \* 512 in the code
ASSUME OccurrencesAssumption == MaxOccurrences \in Nat \ {0}

\* What can be read from a file: four digits for a year, two for any other
\* part of a date or time (an hour is not checked), and names for weekdays.
Dates == [y : 1..9999, m : 0..99, d : 0..99]
Stamps == [date : Dates, minute : 0 .. 100 * 60 - 1, timed : BOOLEAN, utc : BOOLEAN]
RuleTexts == [freq : STRING, interval : SUBSET Nat, until : SUBSET Stamps, count : SUBSET Nat,
              byday : SUBSET (1..7)]
EventTexts == [summary : SUBSET Nat, location : Nat, label : Nat, dtstart : SUBSET Stamps,
               dtend : SUBSET Stamps, duration : SUBSET Nat, rrule : SUBSET RuleTexts,
               exdates : SUBSET Stamps]

DefaultMinutes == 45
\* The elements of a set in a total order.
Listed(S, Precedes(_, _)) ==
    [i \in 1 .. Cardinality(S) |-> CHOOSE e \in S : Cardinality({o \in S : Precedes(o, e)}) = i - 1]
Elements(list) == {list[i] : i \in DOMAIN list}
Given(option, default) == IF option = {} THEN default ELSE CHOOSE v \in option : TRUE

---------------------------------------------------------------------------
(* parse.rs                                                                *)

ParseDt(stamp) ==
    IF ~stamp.timed THEN At(stamp.date, 0)
    ELSE IF stamp.utc THEN ShiftHours(At(stamp.date, stamp.minute), UtcOffset)
    ELSE At(stamp.date, stamp.minute)

Used(e) == e.summary # {} /\ \E s \in e.dtstart : s.timed

\* A date that does not exist fails the whole file; those of an event that
\* is skipped are not looked at, except for its EXDATEs.
Malformed(e) ==
    \E s \in e.exdates \cup (IF Used(e) THEN e.dtstart \cup e.dtend ELSE {}) : ~RealDate(s.date)

StartOf(e) == ParseDt(CHOOSE s \in e.dtstart : TRUE)
EndOf(e) ==
    IF e.dtend # {} THEN ParseDt(CHOOSE s \in e.dtend : TRUE)
    ELSE AddMinutes(StartOf(e), Given(e.duration, DefaultMinutes))

RawEvent(e) ==
    [name |-> CHOOSE n \in e.summary : TRUE, location |-> e.location, label |-> e.label,
     start |-> StartOf(e), end |-> EndOf(e), rrule |-> e.rrule,
     exdates |-> {ParseDt(s).date : s \in e.exdates}]

\* Events keep their places in the file, which order them.
ParseVevents(text) ==
    IF \E i \in DOMAIN text : Malformed(text[i]) THEN {}
    ELSE LET kept == {i \in DOMAIN text : Used(text[i]) /\ Before(StartOf(text[i]), EndOf(text[i]))}
         IN  IF kept = {} THEN {} ELSE {[i \in kept |-> RawEvent(text[i])]}

---------------------------------------------------------------------------
(* schedule.rs: what the dialects share                                    *)

\* term_start is the date the user entered, or nothing.
FirstDate(events) ==
    LET dates == {events[i].start.date : i \in DOMAIN events}
    IN  CHOOSE d \in dates : \A o \in dates \ {d} : DateBefore(d, o)
TermStartFromDates(term_start, events) ==
    IF term_start # {} THEN {d \in term_start : RealDate(d)} ELSE {MondayOfWeek(FirstDate(events))}

CourseKey(event, weekday) ==
    [weekday |-> weekday, start_min |-> event.start.minute, end_min |-> event.end.minute,
     name |-> event.name, location |-> event.location]

\* Mutant: days before the term are merged, too.
MergedAll(key, weeks) == {<<key, w>> : w \in weeks}

\* The pairs of a key and a week that merge_into is called with, on the
\* weekdays and in the weeks the dialect finds for each event.
Merged(key, weeks) == {<<key, w>> : w \in {v \in weeks : v >= 1}}
Groups(found) == UNION {Merged(CourseKey(f.event, f.weekday), f.weeks) : f \in found}
Found(event, weekday, weeks) == [event |-> event, weekday |-> weekday, weeks |-> weeks]

WeekRange(a, b, interval) == [weeks_start |-> a, weeks_end |-> b, week_interval |-> interval]
\* Mutant: only the first gap is compared.
FirstGap(weeks) ==
    LET first == CHOOSE w \in weeks : \A v \in weeks : w <= v
        last == CHOOSE w \in weeks : \A v \in weeks : v <= w
        gap == CHOOSE g \in 1 .. last - first :
                   first + g \in weeks /\ \A v \in weeks : v = first \/ v >= first + g
    IN  IF first = last THEN {WeekRange(first, first, 1)} ELSE {WeekRange(first, last, gap)}

CompressWeeks(weeks) ==
    LET first == CHOOSE w \in weeks : \A v \in weeks : w <= v
        last == CHOOSE w \in weeks : \A v \in weeks : v <= w
        gap == CHOOSE g \in 1 .. last - first :
                   first + g \in weeks /\ \A v \in weeks : v = first \/ v >= first + g
        runs == {r \in weeks \X weeks :
                     r[1] <= r[2] /\ r[1]..r[2] \subseteq weeks /\ {r[1] - 1, r[2] + 1} \cap weeks = {}}
    IN  IF first # last /\ gap > 1 /\ weeks = {w \in first..last : (w - first) % gap = 0}
        THEN {WeekRange(first, last, gap)}
        ELSE {WeekRange(r[1], r[2], 1) : r \in runs}

\* The order of the map's keys, and of the ranges within one.
CourseBefore(a, b) ==
    LET rank(c) == <<c.weekday, c.start_min, c.end_min, c.name, c.location, c.weeks_start>>
    IN  \E i \in 1..6 : rank(a)[i] < rank(b)[i] /\ \A k \in 1 .. i - 1 : rank(a)[k] = rank(b)[k]

CourseOf(key, range) ==
    [weekday |-> key.weekday, start_min |-> key.start_min, end_min |-> key.end_min,
     name |-> key.name, location |-> key.location, weeks_start |-> range.weeks_start,
     weeks_end |-> range.weeks_end, week_interval |-> range.week_interval]

Numbered(c, i) == [f \in DOMAIN c \cup {"id"} |-> IF f = "id" THEN i ELSE c[f]]

EmitSchedule(groups, term_start) ==
    LET courses == UNION {{CourseOf(key, range) : range \in CompressWeeks({g[2] : g \in {h \in groups : h[1] = key}})}
                          : key \in {g[1] : g \in groups}}
        list == Listed(courses, CourseBefore)
    IN  IF courses = {} THEN {}
        ELSE {[start_date |-> term_start,
               courses |-> [i \in DOMAIN list |-> Numbered(list[i], i)]]}

---------------------------------------------------------------------------
(* weekdown.rs: every lesson is an event of its own                        *)

InWeek(event, week) == Found(event, WeekdayIso(event.start.date), {week})
WeekDown(events, term_start) ==
    UNION {EmitSchedule(Groups({InWeek(e, WeekIndex(start, e.start.date)) : e \in Elements(events)}), start)
           : start \in TermStartFromDates(term_start, events)}

---------------------------------------------------------------------------
(* nexio.rs: the same, and descriptions may name the week                  *)

FirstLabelled(events) ==
    CHOOSE i \in DOMAIN events :
        events[i].label >= 1 /\ \A j \in DOMAIN events : j < i => events[j].label < 1
NexioTermStart(term_start, events) ==
    IF term_start = {} /\ \E i \in DOMAIN events : events[i].label >= 1
    THEN LET e == events[FirstLabelled(events)]
         IN  {AddDays(MondayOfWeek(e.start.date), -((e.label - 1) * 7))}
    ELSE TermStartFromDates(term_start, events)

LabelledWeek(event, start) ==
    IF event.label >= 1 THEN event.label ELSE WeekIndex(start, event.start.date)
Nexio(events, term_start) ==
    UNION {EmitSchedule(Groups({InWeek(e, LabelledWeek(e, start)) : e \in Elements(events)}), start)
           : start \in NexioTermStart(term_start, events)}

---------------------------------------------------------------------------
(* wakeup.rs: weekly rules                                                 *)

WeeklyRule(interval, until, count, byday) ==
    [interval |-> interval, until |-> until, count |-> count, byday |-> byday]

AtLeastOne(n) == IF n < 1 THEN 1 ELSE n
ParseWeeklyRule(r) ==
    IF r.freq # "WEEKLY" THEN WeeklyRule(1, {}, {1}, {})
    ELSE WeeklyRule(AtLeastOne(Given(r.interval, 1)), {ParseDt(s) : s \in r.until},
                    {AtLeastOne(n) : n \in r.count}, r.byday)

\* An event without a rule takes place once.
RuleOf(event) ==
    IF event.rrule = {} THEN WeeklyRule(1, {}, {}, {}) ELSE ParseWeeklyRule(CHOOSE r \in event.rrule : TRUE)

WeekdaysForEvent(event) ==
    LET byday == RuleOf(event).byday
    IN  IF byday = {} THEN {WeekdayIso(event.start.date)} ELSE byday

\* The k-th repetition on a weekday, from 0; those past the weekday's own
\* end are cut, and without an end there is only one.
Repetition(event, weekday, k) ==
    LET delta == (weekday - WeekdayIso(event.start.date)) % 7
    IN  AddDays(AddDays(event.start.date, delta), 7 * RuleOf(event).interval * k)
Repeats(event, weekday) ==
    LET rule == RuleOf(event)
    IN  {k \in 0 .. MaxOccurrences - 1 :
            /\ \A u \in rule.until : ~Before(u, At(Repetition(event, weekday, k), event.start.minute))
            /\ \A n \in rule.count : k < n
            /\ rule.until = {} /\ rule.count = {} => k = 0}
ExpandWeeks(event, weekday, term_start) ==
    LET dates == {Repetition(event, weekday, k) : k \in Repeats(event, weekday)}
    IN  {WeekIndex(term_start, d) : d \in dates \ event.exdates}

RulesParse(events) ==
    \A i \in DOMAIN events : \A r \in events[i].rrule : \A s \in r.until : RealDate(s.date)

WakeUp(events, term_start) ==
    UNION {EmitSchedule(Groups(UNION {{Found(e, d, ExpandWeeks(e, d, start)) : d \in WeekdaysForEvent(e)}
                                      : e \in Elements(events)}), start)
           : start \in {t \in TermStartFromDates(term_start, events) : RulesParse(events)}}

---------------------------------------------------------------------------
Sources == {"WakeUp", "WeekDown", "Nexio"}

ConvertIcsText(text, source, term_start) ==
    UNION {CASE source = "WakeUp" -> WakeUp(events, term_start)
             [] source = "WeekDown" -> WeekDown(events, term_start)
             [] source = "Nexio" -> Nexio(events, term_start)
           : events \in ParseVevents(text)}
=============================================================================
