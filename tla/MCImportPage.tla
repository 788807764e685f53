----------------------------- MODULE MCImportPage -----------------------------
(***************************************************************************)
(* Two wristbands; two files that share a name, with a content one source  *)
(* only can convert and one whose inferred start depends on the source;    *)
(* texts that are and are not a date.  The newer file's lessons end before *)
(* the date that may be typed.                                             *)
(***************************************************************************)
EXTENDS ImportPage

TwoBands == {[addr |-> "A", name |-> "Band"], [addr |-> "B", name |-> "Watch"]}
TwoSources == {"WakeUp", "Nexio"}
SomeFiles == {[name |-> "a.ics", content |-> "old"], [name |-> "a.ics", content |-> "new"]}

Monday == "08-31"
Starts ==
    [c \in {"old", "new"} |->
        IF c = "old" THEN [s \in TwoSources |-> {IF s = "WakeUp" THEN Monday ELSE "08-24"}]
        ELSE [s \in TwoSources |-> IF s = "WakeUp" THEN {"08-24"} ELSE {}]]
NotTooLate ==
    [c \in {"old", "new"} |-> [s \in TwoSources |-> IF c = "old" THEN {Monday, "08-24"} ELSE {"08-24"}]]
Readings ==
    [t \in {"", "2026", Monday, "08-24"} |-> IF t \in {Monday, "08-24"} THEN {t} ELSE {}]
Autumn == [d \in {Monday, "08-24"} |-> "2026"]
Texts3 == {"", "2026", Monday}

\* Bound: after the user's second act the list of devices is settled.
DevicesSettle ==
    acts > 2 => loaded /\ notices = 0 /\ asking.page = 0 /\ lists = <<>>
=============================================================================
