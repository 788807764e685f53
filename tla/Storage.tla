------------------------------ MODULE Storage ------------------------------
(***************************************************************************)
(* target/storage.rs on the wristband's file system, and the reload of the *)
(* schedule by the UI (target/mod.rs).  save_schedule runs in the message  *)
(* callback, on the Supervisor's thread; clearing and loading run on the   *)
(* UI thread.  Every file operation is an action: between two of them the  *)
(* other thread may run, or the power may fail.                            *)
(*                                                                         *)
(* The file system is external.  An operation may fail; rename and remove  *)
(* take effect at once; what was written and not synced may be lost in a   *)
(* crash, from some byte on; an open file survives its removal.            *)
(***************************************************************************)
EXTENDS Integers, Sequences

CONSTANTS
    Contents,       \* what schedule.json may be asked to hold, as bytes
    Valid(_),       \* parse_schedule_bytes and valid_import accept it
    Parses(_),      \* parse_schedule_bytes accepts it
    MaxSaves,       \* bound: calls of save_schedule
    MaxClears,      \* bound: presses of the clear row
    MaxFailures,    \* bound: failing file operations
    MaxCrashes,     \* bound: power failures
    MaxEdits        \* bound: replacements of the file by hand

ASSUME ContentsAssumption ==
    \A b \in Contents : /\ b \in Seq(Nat)
                        /\ Valid(b) \in BOOLEAN /\ Parses(b) \in BOOLEAN
                        /\ Valid(b) => b # <<>> /\ Parses(b)
ASSUME StoreBounds == /\ MaxSaves \in Nat /\ MaxClears \in Nat
                      /\ MaxFailures \in Nat /\ MaxCrashes \in Nat
                      /\ MaxEdits \in Nat

VARIABLES
    live,        \* schedule.json: its inode, if there is one
    tmp,         \* schedule.json.tmp, likewise
    saving,      \* the next operation of save_schedule
    job,         \* the bytes it saves
    offset,      \* how many of them it has written
    result,      \* result.is_ok(), the outcome of its writes and sync
    answer,      \* what the last save_schedule returned
    dirty,       \* schedule_dirty
    ui,          \* the next operation of the UI thread
    reading,     \* the inode its open descriptor reads
    shown,       \* core.app.schedule: the schedule on the screen, if any
    current,     \* history: nothing went wrong with the last load
    saves, clears, failures, crashes, edits    \* what the bounds count

store == <<live, tmp>>
saver == <<saving, job, offset, result, answer>>
screen == <<ui, reading, shown, current>>
counts == <<saves, clears, failures, crashes, edits>>
vars == <<store, saver, dirty, screen, counts>>

Inodes == [bytes : Seq(Nat), synced : BOOLEAN]
Steps == {"idle", "open", "write", "sync", "close", "rename", "unlink", "mark"}
Answers == {"idle", "running", "Ok", "Schedule", "Io"}

Single(S) == \A x, y \in S : x = y

StorageTypeOK ==
    /\ live \in SUBSET Inodes /\ Single(live)
    /\ tmp \in SUBSET Inodes /\ Single(tmp)
    /\ saving \in Steps
    /\ job \in Contents \cup {<<>>}
    /\ offset \in 0..Len(job)
    /\ result \in BOOLEAN /\ current \in BOOLEAN /\ dirty \in BOOLEAN
    /\ answer \in Answers
    /\ ui \in {"idle", "opening", "reading", "remove", "removetmp"}
    /\ reading \in SUBSET Inodes
    /\ \A b \in shown : Parses(b)
    /\ saves \in 0..MaxSaves /\ clears \in 0..MaxClears
    /\ failures \in 0..MaxFailures /\ crashes \in 0..MaxCrashes
    /\ edits \in 0..MaxEdits

Init ==
    /\ live = {} /\ tmp = {}
    /\ saving = "idle" /\ job = <<>> /\ offset = 0 /\ result = TRUE
    /\ answer = "idle"
    /\ dirty = TRUE
    /\ ui = "idle" /\ reading = {} /\ shown = {} /\ current = TRUE
    /\ saves = 0 /\ clears = 0 /\ failures = 0 /\ crashes = 0 /\ edits = 0

Bytes(f) == {i.bytes : i \in f}

\* An operation of the file system fails, and the calling code goes on.
Fails == /\ failures < MaxFailures
         /\ failures' = failures + 1
         /\ UNCHANGED <<saves, clears, crashes, edits>>
Works == UNCHANGED counts

-----------------------------------------------------------------------------
(* save_schedule                                                           *)

\* Parsing and validation come first and touch no file.
Save(b) ==
    /\ saving = "idle" /\ saves < MaxSaves
    /\ saves' = saves + 1
    /\ IF Valid(b)
       THEN saving' = "open" /\ job' = b /\ answer' = "running"
       ELSE answer' = "Schedule" /\ UNCHANGED <<saving, job>>
    /\ offset' = 0 /\ result' = TRUE
    /\ UNCHANGED <<store, dirty, screen, clears, failures, crashes, edits>>

\* open(schedule.json.tmp, WRITE | CREATE | TRUNC)
Open ==
    /\ saving = "open"
    /\ \/ Works /\ tmp' = {[bytes |-> <<>>, synced |-> FALSE]} /\ saving' = "write"
       \/ Fails /\ saving' = "unlink" /\ UNCHANGED tmp
    /\ UNCHANGED <<live, job, offset, result, answer, dirty, screen>>

\* One turn of the write loop: some of the bytes left, or an error.  Through a
\* descriptor whose file the UI removed the bytes go nowhere.
Write ==
    /\ saving = "write"
    /\ \/ /\ Works
          /\ \E n \in 1..(Len(job) - offset) :
                /\ offset' = offset + n
                /\ tmp' = {[i EXCEPT !.bytes = SubSeq(job, 1, offset + n)] :
                              i \in tmp}
                /\ saving' = IF offset + n = Len(job) THEN "sync" ELSE "write"
          /\ UNCHANGED result
       \/ Fails /\ result' = FALSE /\ saving' = "close" /\ UNCHANGED <<offset, tmp>>
    /\ UNCHANGED <<live, job, answer, dirty, screen>>

\* Mutant: nothing is flushed.
Unsynced(f) == f
Synced(f) == {[i EXCEPT !.synced = TRUE] : i \in f}

Sync ==
    /\ saving = "sync"
    /\ \/ Works /\ tmp' = Synced(tmp) /\ UNCHANGED result
       \/ Fails /\ result' = FALSE /\ UNCHANGED tmp
    /\ saving' = "close"
    /\ UNCHANGED <<live, job, offset, answer, dirty, screen>>

\* Mutant: the error of a write is forgotten.
RenameAnyway == "rename"
AfterClose == IF result THEN "rename" ELSE "unlink"

\* An error of the writes goes before one of close; either keeps it from rename.
Close ==
    /\ saving = "close"
    /\ \/ Works /\ saving' = AfterClose
       \/ Fails /\ saving' = "unlink"
    /\ UNCHANGED <<store, job, offset, result, answer, dirty, screen>>

\* rename replaces schedule.json, or fails because the temporary file is gone or
\* for a reason of its own.
Rename ==
    /\ saving = "rename"
    /\ \/ /\ Works /\ tmp # {}
          /\ live' = tmp /\ tmp' = {}
          /\ saving' = "mark" /\ answer' = "Ok"
       \/ /\ IF tmp = {} THEN Works ELSE Fails
          /\ saving' = "unlink"
          /\ UNCHANGED <<store, answer>>
    /\ UNCHANGED <<job, offset, result, dirty, screen>>

\* Status::Io, after an attempt to remove the temporary file.
Unlink ==
    /\ saving = "unlink"
    /\ \/ Works /\ tmp' = {}
       \/ Fails /\ UNCHANGED tmp
    /\ saving' = "idle" /\ answer' = "Io"
    /\ UNCHANGED <<live, job, offset, result, dirty, screen>>

\* Mutant: the mark is not set.
MarkNothing ==
    /\ saving = "mark"
    /\ saving' = "idle"
    /\ UNCHANGED <<store, job, offset, result, answer, dirty, screen, counts>>
\* on_message sets schedule_dirty once save_schedule returned Ok.
MarkDirty ==
    /\ saving = "mark"
    /\ saving' = "idle" /\ dirty' = TRUE
    /\ UNCHANGED <<store, job, offset, result, answer, screen, counts>>

-----------------------------------------------------------------------------
(* The UI thread                                                           *)

\* Mutant: only the mark makes a tick reload.
TickOfMark ==
    /\ ui = "idle" /\ dirty
    /\ ui' = "opening" /\ dirty' = FALSE
    /\ UNCHANGED <<store, saver, reading, shown, current, counts>>
\* refresh_clock_and_schedule, in a tick that reloads: one that finds the mark,
\* which it takes before it reads the file, or the first or every fiftieth.
Tick ==
    /\ ui = "idle"
    /\ ui' = "opening" /\ dirty' = FALSE
    /\ UNCHANGED <<store, saver, reading, shown, current, counts>>

\* ReloadFromDisk leaves the mark alone.
RefreshRow ==
    /\ ui = "idle"
    /\ ui' = "opening"
    /\ UNCHANGED <<store, saver, dirty, reading, shown, current, counts>>

\* read_bounded's open: no file is an empty schedule, an error changes nothing.
OpenForReading ==
    /\ ui = "opening"
    /\ \/ Works /\ live # {} /\ reading' = live /\ ui' = "reading"
          /\ UNCHANGED <<shown, current>>
       \/ Works /\ live = {} /\ shown' = {} /\ current' = TRUE /\ ui' = "idle"
          /\ UNCHANGED reading
       \/ Fails /\ current' = FALSE /\ ui' = "idle" /\ UNCHANGED <<reading, shown>>
    /\ UNCHANGED <<store, saver, dirty>>

Readable(f) == \A b \in Bytes(f) : Parses(b)

\* The reads, close and parse_schedule_bytes; an error changes nothing.
FinishReading ==
    /\ ui = "reading"
    /\ \/ /\ Works /\ Readable(reading)
          /\ shown' = Bytes(reading) /\ current' = TRUE
       \/ /\ IF Readable(reading) THEN Fails ELSE Works
          /\ current' = FALSE /\ UNCHANGED shown
    /\ ui' = "idle" /\ reading' = {}
    /\ UNCHANGED <<store, saver, dirty>>

\* ClearStoredSchedule, after connect::abort.
Clear ==
    /\ ui = "idle" /\ clears < MaxClears
    /\ clears' = clears + 1
    /\ ui' = "remove"
    /\ UNCHANGED <<store, saver, dirty, reading, shown, current, saves,
                   failures, crashes, edits>>

RemoveLive ==
    /\ ui = "remove"
    /\ \/ Works /\ live' = {} /\ ui' = "removetmp"
       \/ Fails /\ ui' = "idle" /\ UNCHANGED live
    /\ UNCHANGED <<tmp, saver, dirty, reading, shown, current>>

\* The temporary file goes too, if it can, and the screen is emptied.
RemoveTmp ==
    /\ ui = "removetmp"
    /\ \/ Works /\ tmp' = {}
       \/ Fails /\ UNCHANGED tmp
    /\ ui' = "idle" /\ shown' = {} /\ current' = TRUE
    /\ UNCHANGED <<live, saver, dirty, reading>>

-----------------------------------------------------------------------------
\* What a crash may leave of a file: all of it, if it was synced, else a part.
Leftovers(f) ==
    LET kept(i) == IF i.synced THEN {Len(i.bytes)} ELSE 0..Len(i.bytes)
        cut(i) == {[bytes |-> SubSeq(i.bytes, 1, n), synced |-> TRUE] : n \in kept(i)}
    IN  IF f = {} THEN {{}} ELSE {{c} : c \in UNION {cut(i) : i \in f}}

\* The power fails: both threads are gone, activate boots an empty schedule.
Crash ==
    /\ crashes < MaxCrashes
    /\ crashes' = crashes + 1
    /\ live' \in Leftovers(live) /\ tmp' \in Leftovers(tmp)
    /\ saving' = "idle" /\ answer' = "idle"
    /\ ui' = "idle" /\ reading' = {} /\ shown' = {} /\ current' = TRUE
    /\ dirty' = TRUE
    /\ UNCHANGED <<job, offset, result, saves, clears, failures, edits>>

\* Someone replaces or removes schedule.json by hand.
Edit ==
    /\ edits < MaxEdits
    /\ edits' = edits + 1
    /\ live' \in {{}} \cup {{[bytes |-> b, synced |-> TRUE]} : b \in Contents}
    /\ UNCHANGED <<tmp, saver, dirty, screen, saves, clears, failures, crashes>>

SaverNext == Open \/ Write \/ Sync \/ Close \/ Rename \/ Unlink \/ MarkDirty
UiNext == OpenForReading \/ FinishReading \/ RemoveLive \/ RemoveTmp

Next ==
    \/ \E b \in Contents : Save(b)
    \/ SaverNext
    \/ Tick \/ RefreshRow \/ Clear \/ UiNext
    \/ Crash \/ Edit

Spec == Init /\ [][Next]_vars

\* Callbacks run to their end, and the UI's timer keeps ticking.
FairSpec == Spec /\ WF_vars(SaverNext) /\ WF_vars(UiNext) /\ WF_vars(Tick)

-----------------------------------------------------------------------------
\* What makes the steps of save_schedule safe to interrupt.  The temporary file,
\* unless the UI removed it, holds the bytes written so far; only one that is
\* whole and synced comes to be renamed; so schedule.json is always durable.
SafeToStop ==
    /\ answer = "running" <=> saving \notin {"idle", "mark"}
    /\ saving \in {"write", "sync", "close", "rename"} =>
          \A i \in tmp : i.bytes = SubSeq(job, 1, offset)
    /\ saving \notin {"idle", "mark"} => job \in Contents /\ Valid(job)
    /\ saving = "open" => result /\ offset = 0
    /\ saving = "write" => result /\ offset < Len(job)
    /\ saving = "sync" => result /\ offset = Len(job)
    /\ saving = "rename" \/ (saving = "close" /\ result) =>
          offset = Len(job) /\ \A i \in tmp : i.synced
    /\ \A i \in live : i.synced

\* save_schedule, clear_schedule and a crash at any point implement the store's
\* promise: schedule.json never holds part of a schedule, an answer Ok means the
\* whole schedule is there and durable, any other answer that nothing changed.
Abstract == INSTANCE ScheduleStore WITH stored <- Bytes(live), asked <- job
StoreIsAtomic == Abstract!StoreSpec

\* Unless its file was edited or could not be read, the screen shows what the
\* file holds whenever no save is between rename and its reload mark, no mark is
\* set and the UI thread is idle: no save and no clear is ever overlooked, however
\* they interleave with a load (schedule_dirty, refresh_clock_and_schedule).
ScreenIsFresh ==
    saving # "mark" /\ ~dirty /\ ui = "idle" /\ current /\ edits = 0
        => shown = Bytes(live)

\* A schedule that stays on file is shown in the end, after failed loads and
\* edits by hand too: that is what the reload every fiftieth tick is for.
ScreenCatchesUp ==
    \A b \in {{}} \cup {{c} : c \in {d \in Contents : Parses(d)}} :
        <>[](Bytes(live) = b) => <>[](shown = b)
=============================================================================
