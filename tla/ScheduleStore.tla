--------------------------- MODULE ScheduleStore ---------------------------
(***************************************************************************)
(* What the wristband's schedule file promises the rest of the program: a  *)
(* save replaces the whole schedule or leaves it alone, and says which; a  *)
(* clear removes it; a crash loses the answer and nothing else.            *)
(***************************************************************************)
EXTENDS Naturals

CONSTANTS
    Contents,     \* what save_schedule may be asked to save
    Valid(_)      \* does it accept that?

VARIABLES
    stored,       \* the schedule on file, at most one
    asked,        \* what the last accepted save was asked to save
    answer,       \* how the last save went; "running" until it returns
    edits         \* how often someone else changed the file

StoreInit == stored = {} /\ asked = <<>> /\ answer = "idle" /\ edits = 0

Ask == /\ answer # "running" /\ answer' = "running"
       /\ asked' \in Contents /\ Valid(asked')
       /\ UNCHANGED <<stored, edits>>

Reject == answer # "running" /\ answer' = "Schedule" /\ UNCHANGED <<stored, asked, edits>>

Replace == /\ answer = "running" /\ answer' = "Ok"
           /\ stored' = {asked}
           /\ UNCHANGED <<asked, edits>>

Fail == answer = "running" /\ answer' = "Io" /\ UNCHANGED <<stored, asked, edits>>

Remove == stored' = {} /\ UNCHANGED <<asked, answer, edits>>

Lose == answer' = "idle" /\ UNCHANGED <<stored, asked, edits>>

\* Someone replaces the file by hand: the only change no call stands for.
Edit == /\ edits' = edits + 1
        /\ stored' \in {{}} \cup {{b} : b \in Contents}
        /\ UNCHANGED <<asked, answer>>

StoreNext == Ask \/ Reject \/ Replace \/ Fail \/ Remove \/ Lose \/ Edit

StoreSpec == StoreInit /\ [][StoreNext]_<<stored, asked, answer, edits>>
=============================================================================
