------------------------------ MODULE MCPages ------------------------------
(* Pages with two days, no schedule, and two that exchange their courses:  *)
(* the same row then stands for another course.                             *)
EXTENDS Pages

Course(id, text) == [id |-> id, text |-> text]
Two == 1..2
Changed == <<<<Course(1, "b")>>, <<Course(2, "a")>>>>
NoCourses == <<<<>>, <<>>>>
Other == <<<<Course(2, "b")>>, <<Course(1, "a")>>>>
MCFiles == {NoCourses, Changed, Other}
One == 1..1
OneDayFiles == {<<<<>>>>, <<<<Course(1, "a")>>>>}

BusyOrRefused == {"busy", "refused"}
UnreadableOrRefused == {"unreadable", "refused"}
Busy == {"busy"}
=============================================================================
