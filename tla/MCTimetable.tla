----------------------------- MODULE MCTimetable -----------------------------
\* Files of the three dialects around a leap day and around a new year.
EXTENDS Timetable

Leap == [date |-> Date(2024, 2, 12), day |-> 19765]
NewYear == [date |-> Date(2026, 12, 14), day |-> 20801]

Stamp(on, days, m, utc) ==
    LET dt == AddMinutes(At(AddDays(on.date, days), m), IF utc THEN -(UtcOffset * 60) ELSE 0)
    IN  [date |-> dt.date, minute |-> dt.minute, timed |-> TRUE, utc |-> utc]
AllDay(on, days) == [date |-> AddDays(on.date, days), minute |-> 0, timed |-> FALSE, utc |-> FALSE]

Event(name, start, end) ==
    [summary |-> {name}, location |-> 1, label |-> 0, dtstart |-> {start}, dtend |-> end,
     duration |-> {}, rrule |-> {}, exdates |-> {}]

Starts(on) == {{}, {on.date}, {AddDays(on.date, 2)}, {AddDays(on.date, 9)}}
Chosen(on, source, text, starts) ==
    {[source |-> source, text |-> text, term_start |-> s, on |-> on] : s \in starts}

\* A lesson on Wednesdays in any of five weeks, and one early on a Thursday
\* that is written in UTC, on the day before.
Weekly(on, weeks) ==
    LET list == Listed(weeks, >)
    IN  [i \in DOMAIN list |-> Event(2, Stamp(on, 7 * list[i] + 2, 480, FALSE), {Stamp(on, 7 * list[i] + 2, 580, FALSE)})]
        \o << Event(1, Stamp(on, 10, 450, TRUE), {}), Event(1, Stamp(on, 17, 450, TRUE), {}),
              [Event(1, Stamp(on, 9, 600, FALSE), {}) EXCEPT !.duration = {90}],
              [Event(1, Stamp(on, 10, 500, FALSE), {}) EXCEPT !.duration = {90}],
              [Event(1, Stamp(on, 9, 470, FALSE), {}) EXCEPT !.duration = {30}] >>
WeekDownFiles ==
    UNION {Chosen(NewYear, "WeekDown", Weekly(NewYear, weeks), Starts(NewYear)) : weeks \in SUBSET (0..4) \ {{}}}

\* Every event has a rule of one lesson, as in tests/data/nexio.ics.
Once(freq) == [freq |-> freq, interval |-> {}, until |-> {}, count |-> {1}, byday |-> {}]
Labelled(on, weeks, k, S) ==
    LET list == Listed(weeks, >)
    IN  [i \in DOMAIN list |->
            [Event(3, Stamp(on, 7 * list[i] + 6, 480, FALSE), {Stamp(on, 7 * list[i] + 6, 580, FALSE)})
             EXCEPT !.label = IF list[i] \in S THEN list[i] + k ELSE 0, !.rrule = {Once("WEEKLY")}]]
NexioFiles ==
    UNION {Chosen(Leap, "Nexio", Labelled(Leap, weeks, k, S), {{}, {Leap.date}})
           : weeks \in SUBSET (0..3) \ {{}}, k \in {1, 3}, S \in {{}, {1, 2}, 0..3}}

\* Rules: the end of a rule falls on a lesson, on midnight as in
\* tests/data/wakeup.ics, on a day, a minute before a lesson, or is a count.
Ends(on) == {<<{Stamp(on, 16, 480, TRUE)}, {}>>, <<{Stamp(on, 31, 0, TRUE)}, {}>>, <<{AllDay(on, 30)}, {}>>, <<{}, {3}>>, <<{}, {0}>>,
             <<{Stamp(on, 23, 479, FALSE)}, {5}>>, <<{}, {}>>}
Rules(on) == {[freq |-> "WEEKLY", interval |-> n, until |-> end[1], count |-> end[2], byday |-> byday]
              : n \in {{}, {2}, {3}}, end \in Ends(on), byday \in {{}, {3}, {3, 5}, {1, 3}}}
             \cup {Once("DAILY"), [Once("DAILY") EXCEPT !.count = {7}], [Once("MONTHLY") EXCEPT !.interval = {1}]}
WakeUpFiles ==
    UNION {Chosen(Leap, "WakeUp",
                  << [Event(4, Stamp(Leap, 2, 480, FALSE), {Stamp(Leap, 2, 580, FALSE)})
                      EXCEPT !.rrule = {r}, !.exdates = x],
                     Event(5, Stamp(Leap, 9, 600, FALSE), {}) >>,
                  {{}, {AddDays(Leap.date, 9)}})
           : r \in Rules(Leap), x \in {{}, {AllDay(Leap, 9)}}}

\* What the parser skips or refuses.
OddFiles ==
    LET good == Event(2, Stamp(Leap, 2, 480, FALSE), {Stamp(Leap, 2, 580, FALSE)})
        lost == [good EXCEPT !.dtend = {Stamp(Leap, 2, 480, FALSE)}]
        whole_day == [good EXCEPT !.dtstart = {AllDay(Leap, 2)}]
        late == [good EXCEPT !.dtend = {[Stamp(Leap, 2, 480, FALSE) EXCEPT !.minute = 25 * 60]}]
        no_date == [good EXCEPT !.exdates = {[AllDay(Leap, 2) EXCEPT !.date = Date(2023, 2, 29)]}]
    IN  UNION {Chosen(Leap, source, text, {{}, {Date(2024, 2, 30)}})
               : source \in Sources,
                 text \in {<<good>>, <<lost, good>>, <<whole_day, good>>, <<no_date, good>>, <<lost>>, <<late>>,
                           << [good EXCEPT !.summary = {}] >>, << [good EXCEPT !.summary = {0}] >>,
                           << Event(2, Stamp(Leap, 3, 1420, FALSE), {}), good >>}}

AllFiles == WeekDownFiles \cup NexioFiles \cup WakeUpFiles \cup OddFiles
SomeMinutes == {480, 500, 580}
=============================================================================
