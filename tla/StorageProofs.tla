--------------------------- MODULE StorageProofs ---------------------------
(* schedule.json is replaced whole or not at all, for schedules of any size, *)
(* any number of failing operations and crashes, and any interleaving of the *)
(* two threads.                                                              *)
EXTENDS Storage, TLAPS

Inv == StorageTypeOK /\ SafeToStop

LEMMA WholePrefix ==
    ASSUME NEW s \in Seq(Nat)
    PROVE  SubSeq(s, 1, Len(s)) = s
  OBVIOUS

LEMMA Prefix ==
    ASSUME NEW s \in Seq(Nat), NEW n \in 0..Len(s)
    PROVE  SubSeq(s, 1, n) \in Seq(Nat)
  OBVIOUS

\* What save_schedule works on.
LEMMA JobIsSequence ==
    ASSUME Inv
    PROVE  job \in Seq(Nat)
  <1>1. job \in Contents \/ job = <<>>
    BY DEF Inv, StorageTypeOK
  <1>2. <<>> \in Seq(Nat)
    OBVIOUS
  <1> QED BY <1>1, <1>2, ContentsAssumption

\* A crash may cut a file short, but leaves a synced one alone.
LEMMA LeftoversOK ==
    ASSUME NEW f \in SUBSET Inodes, Single(f), NEW g \in Leftovers(f)
    PROVE  /\ g \in SUBSET Inodes /\ Single(g)
           /\ \A i \in g : i.synced
           /\ (\A i \in f : i.synced) => Bytes(g) = Bytes(f)
  <1>1. CASE f = {}
    BY <1>1 DEF Leftovers, Single, Bytes
  <1>2. CASE f # {}
    <2>1. PICK i \in f : TRUE
      BY <1>2
    <2>2. f = {i} /\ i \in Inodes
      BY <2>1 DEF Single
    <2>3. i.bytes \in Seq(Nat) /\ i.synced \in BOOLEAN
      BY <2>2 DEF Inodes
    <2> DEFINE kept(j) == IF j.synced THEN {Len(j.bytes)} ELSE 0..Len(j.bytes)
               cut(j) == {[bytes |-> SubSeq(j.bytes, 1, n), synced |-> TRUE] :
                             n \in kept(j)}
    <2>4. Leftovers(f) = {{c} : c \in UNION {cut(j) : j \in f}}
      BY <1>2 DEF Leftovers
    <2>5. PICK c \in UNION {cut(j) : j \in f} : g = {c}
      BY <2>4
    <2>6. PICK n \in kept(i) :
              c = [bytes |-> SubSeq(i.bytes, 1, n), synced |-> TRUE]
      BY <2>2, <2>5
    <2>7. n \in 0..Len(i.bytes) /\ (i.synced => n = Len(i.bytes))
      BY <2>3, <2>6
    <2>8. c.bytes = SubSeq(i.bytes, 1, n) /\ c.synced = TRUE /\ c \in Inodes
      BY <2>3, <2>6, <2>7, Prefix DEF Inodes
    <2>9. i.synced => c.bytes = i.bytes
      BY <2>3, <2>7, <2>8, WholePrefix
    <2>10. i.synced => Bytes(g) = Bytes(f)
      BY <2>2, <2>5, <2>9 DEF Bytes
    <2> QED BY <2>2, <2>5, <2>8, <2>10 DEF Single
  <1> QED BY <1>1, <1>2

-----------------------------------------------------------------------------
LEMMA InitOK == Init => Inv
  BY StoreBounds DEF Init, Inv, StorageTypeOK, SafeToStop, Steps, Answers, Single

LEMMA SaveOK ==
    ASSUME Inv, NEW b \in Contents, Save(b)
    PROVE  Inv'
  <1>1. b \in Seq(Nat) /\ (Valid(b) => b # <<>>)
    BY ContentsAssumption
  <1>2. StorageTypeOK'
    BY <1>1, StoreBounds, JobIsSequence
    DEF Inv, StorageTypeOK, Save, Steps, Answers, store, screen, Single
  <1>3. SafeToStop'
    BY <1>1 DEF Inv, StorageTypeOK, SafeToStop, Save, Steps, Answers, store, screen
  <1> QED BY <1>2, <1>3 DEF Inv

\* Counting a failing operation, or none, keeps the counters in range.
LEMMA CountsOK ==
    ASSUME Inv, Works \/ Fails
    PROVE  /\ saves' \in 0..MaxSaves /\ clears' \in 0..MaxClears
           /\ failures' \in 0..MaxFailures /\ crashes' \in 0..MaxCrashes
           /\ edits' \in 0..MaxEdits
  BY StoreBounds DEF Inv, StorageTypeOK, Works, Fails, counts

LEMMA OpenOK ==
    ASSUME Inv, Open
    PROVE  Inv'
  <1>1. Works \/ Fails
    BY DEF Open
  <1>2. job \in Seq(Nat) /\ (saving = "open" => job # <<>>)
    BY ContentsAssumption, JobIsSequence DEF Inv, SafeToStop
  <1>3. CASE tmp' = {[bytes |-> <<>>, synced |-> FALSE]} /\ saving' = "write"
    <2> DEFINE empty == [bytes |-> <<>>, synced |-> FALSE]
    <2>1. empty \in Inodes /\ empty.bytes = <<>>
      BY DEF Inodes
    <2>2. StorageTypeOK'
      BY <1>1, <1>3, <2>1, CountsOK
      DEF Inv, StorageTypeOK, Open, Steps, Answers, screen, Single
    <2>3. offset' = 0 /\ job' = job /\ SubSeq(job, 1, 0) = <<>> /\ Len(job) > 0
      BY <1>2 DEF Open, Inv, SafeToStop
    <2>4. SafeToStop'
      BY <1>3, <2>1, <2>3 DEF Inv, SafeToStop, Open
    <2> QED BY <2>2, <2>4 DEF Inv
  <1>4. CASE saving' = "unlink" /\ UNCHANGED tmp
    <2>1. StorageTypeOK'
      BY <1>1, <1>4, CountsOK
      DEF Inv, StorageTypeOK, Open, Steps, Answers, screen, Single
    <2>2. SafeToStop'
      BY <1>4 DEF Inv, SafeToStop, Open
    <2> QED BY <2>1, <2>2 DEF Inv
  <1> QED BY <1>3, <1>4 DEF Open

LEMMA WriteOK ==
    ASSUME Inv, Write
    PROVE  Inv'
  <1>1. Works \/ Fails
    BY DEF Write
  <1>2. job \in Seq(Nat)
    BY JobIsSequence
  <1>3. ASSUME NEW n \in 1..(Len(job) - offset), offset' = offset + n,
               tmp' = {[i EXCEPT !.bytes = SubSeq(job, 1, offset + n)] : i \in tmp},
               saving' = IF offset + n = Len(job) THEN "sync" ELSE "write",
               result' = result
        PROVE  Inv'
    <2>1. offset + n \in 0..Len(job) /\ offset + n \in Nat
      BY <1>2 DEF Inv, StorageTypeOK
    <2>2. SubSeq(job, 1, offset + n) \in Seq(Nat)
      BY <1>2, <2>1, Prefix
    <2>3. \A i \in tmp' : i \in Inodes /\ i.bytes = SubSeq(job, 1, offset + n)
      BY <1>3, <2>2 DEF Inv, StorageTypeOK, Inodes
    <2>4. Single(tmp')
      BY <1>3 DEF Inv, StorageTypeOK, Single
    <2>5. StorageTypeOK'
      BY <1>1, <1>3, <2>1, <2>3, <2>4, CountsOK
      DEF Inv, StorageTypeOK, Write, Steps, Answers, screen
    <2>6. /\ offset' = Len(job) \/ offset' < Len(job)
          /\ saving' = IF offset' = Len(job) THEN "sync" ELSE "write"
          /\ \A i \in tmp' : i.bytes = SubSeq(job, 1, offset')
      BY <1>2, <1>3, <2>1, <2>3
    <2>7. SafeToStop'
      BY <1>3, <2>6 DEF Inv, SafeToStop, Write
    <2> QED BY <2>5, <2>7 DEF Inv
  <1>4. CASE result' = FALSE /\ saving' = "close" /\ UNCHANGED <<offset, tmp>>
    <2>1. StorageTypeOK'
      BY <1>1, <1>4, CountsOK
      DEF Inv, StorageTypeOK, Write, Steps, Answers, screen, Single
    <2>2. SafeToStop'
      BY <1>4 DEF Inv, SafeToStop, Write
    <2> QED BY <2>1, <2>2 DEF Inv
  <1> QED BY <1>3, <1>4 DEF Write

LEMMA SyncOK ==
    ASSUME Inv, Sync
    PROVE  Inv'
  <1>1. Works \/ Fails
    BY DEF Sync
  <1>2. CASE tmp' = Synced(tmp) /\ UNCHANGED result
    <2>1. \A i \in tmp' : /\ i \in Inodes /\ i.synced
                          /\ \E j \in tmp : i.bytes = j.bytes
      BY <1>2 DEF Inv, StorageTypeOK, Inodes, Synced
    <2>2. Single(tmp')
      BY <1>2 DEF Inv, StorageTypeOK, Single, Synced
    <2>3. StorageTypeOK'
      BY <1>1, <1>2, <2>1, <2>2, CountsOK
      DEF Inv, StorageTypeOK, Sync, Steps, Answers, screen
    <2>4. SafeToStop'
      BY <1>2, <2>1 DEF Inv, SafeToStop, Sync
    <2> QED BY <2>3, <2>4 DEF Inv
  <1>3. CASE result' = FALSE /\ UNCHANGED tmp
    <2>1. StorageTypeOK'
      BY <1>1, <1>3, CountsOK
      DEF Inv, StorageTypeOK, Sync, Steps, Answers, screen, Single
    <2>2. SafeToStop'
      BY <1>3 DEF Inv, SafeToStop, Sync
    <2> QED BY <2>1, <2>2 DEF Inv
  <1> QED BY <1>2, <1>3 DEF Sync

LEMMA CloseOK ==
    ASSUME Inv, Close
    PROVE  Inv'
  <1>1. Works \/ Fails
    BY DEF Close
  <1>2. StorageTypeOK'
    BY <1>1, CountsOK
    DEF Inv, StorageTypeOK, Close, AfterClose, Steps, Answers, screen, store, Single
  <1>3. SafeToStop'
    BY DEF Inv, StorageTypeOK, SafeToStop, Close, AfterClose, store
  <1> QED BY <1>2, <1>3 DEF Inv

LEMMA RenameOK ==
    ASSUME Inv, Rename
    PROVE  Inv'
  <1>1. Works \/ Fails
    BY DEF Rename
  <1>2. StorageTypeOK'
    BY <1>1, CountsOK
    DEF Inv, StorageTypeOK, Rename, Steps, Answers, screen, store, Single
  <1>3. SafeToStop'
    BY DEF Inv, StorageTypeOK, SafeToStop, Rename, store
  <1> QED BY <1>2, <1>3 DEF Inv

LEMMA UnlinkOK ==
    ASSUME Inv, Unlink
    PROVE  Inv'
  <1>1. Works \/ Fails
    BY DEF Unlink
  <1>2. StorageTypeOK'
    BY <1>1, CountsOK
    DEF Inv, StorageTypeOK, Unlink, Steps, Answers, screen, Single
  <1>3. SafeToStop'
    BY DEF Inv, StorageTypeOK, SafeToStop, Unlink
  <1> QED BY <1>2, <1>3 DEF Inv

\* The UI thread never touches what save_schedule works on, except that it may
\* remove its temporary file.
LEMMA UiOK ==
    ASSUME Inv, UNCHANGED saver, live' \in {live, {}}, tmp' \in {tmp, {}},
           dirty' \in BOOLEAN, current' \in BOOLEAN,
           ui' \in {"idle", "opening", "reading", "remove", "removetmp"},
           reading' \in SUBSET Inodes, \A b \in shown' : Parses(b),
           /\ saves' \in 0..MaxSaves /\ clears' \in 0..MaxClears
           /\ failures' \in 0..MaxFailures /\ crashes' \in 0..MaxCrashes
           /\ edits' \in 0..MaxEdits
    PROVE  Inv'
  <1>1. StorageTypeOK'
    BY DEF Inv, StorageTypeOK, saver, Single
  <1>2. SafeToStop'
    BY DEF Inv, SafeToStop, saver
  <1> QED BY <1>1, <1>2 DEF Inv

LEMMA CrashOK ==
    ASSUME Inv, Crash
    PROVE  Inv'
  <1>1. /\ live' \in SUBSET Inodes /\ Single(live') /\ \A i \in live' : i.synced
        /\ tmp' \in SUBSET Inodes /\ Single(tmp')
    BY LeftoversOK DEF Crash, Inv, StorageTypeOK
  <1>2. StorageTypeOK'
    BY <1>1, StoreBounds DEF Inv, StorageTypeOK, Crash, Steps, Answers
  <1>3. SafeToStop'
    BY <1>1 DEF SafeToStop, Crash
  <1> QED BY <1>2, <1>3 DEF Inv

LEMMA EditOK ==
    ASSUME Inv, Edit
    PROVE  Inv'
  <1>1. /\ live' \in SUBSET Inodes /\ Single(live') /\ \A i \in live' : i.synced
    <2>1. PICK f \in {{}} \cup {{[bytes |-> b, synced |-> TRUE]} : b \in Contents} :
              live' = f
      BY DEF Edit
    <2>2. CASE f = {}
      BY <2>1, <2>2 DEF Single
    <2>3. ASSUME NEW b \in Contents, f = {[bytes |-> b, synced |-> TRUE]}
          PROVE  /\ f \in SUBSET Inodes /\ Single(f) /\ \A i \in f : i.synced
      <3>1. b \in Seq(Nat)
        BY ContentsAssumption
      <3> QED BY <2>3, <3>1 DEF Inodes, Single
    <2> QED BY <2>1, <2>2, <2>3
  <1>2. StorageTypeOK'
    BY <1>1, StoreBounds
    DEF Inv, StorageTypeOK, Edit, saver, screen, Steps, Answers, Single
  <1>3. SafeToStop'
    BY <1>1 DEF Inv, SafeToStop, Edit, saver
  <1> QED BY <1>2, <1>3 DEF Inv

LEMMA NextOK ==
    ASSUME Inv, [Next]_vars
    PROVE  Inv'
  <1>1. ASSUME NEW b \in Contents, Save(b)
        PROVE  Inv'
    BY <1>1, SaveOK
  <1>2. CASE SaverNext
    <2>1. CASE MarkDirty
      <3>1. StorageTypeOK'
        BY <2>1
        DEF Inv, StorageTypeOK, MarkDirty, Steps, Answers, screen, store, counts, Single
      <3>2. SafeToStop'
        BY <2>1 DEF Inv, SafeToStop, MarkDirty, store
      <3> QED BY <3>1, <3>2 DEF Inv
    <2> QED BY <1>2, <2>1, OpenOK, WriteOK, SyncOK, CloseOK, RenameOK, UnlinkOK
         DEF SaverNext
  <1>3. CASE Tick \/ RefreshRow \/ Clear \/ UNCHANGED vars
    <2>1. UNCHANGED <<saver, live, tmp, reading, shown, current>>
      BY <1>3 DEF Tick, RefreshRow, Clear, store, saver, screen, vars
    <2>3. dirty' \in BOOLEAN
      BY <1>3 DEF Tick, RefreshRow, Clear, Inv, StorageTypeOK, vars
    <2>5. clears' \in 0..MaxClears
      <3>1. \/ clears' = clears
            \/ clears < MaxClears /\ clears' = clears + 1
        BY <1>3 DEF Tick, RefreshRow, Clear, counts, vars
      <3> QED BY <3>1, StoreBounds DEF Inv, StorageTypeOK
    <2>4. ui' \in {"idle", "opening", "reading", "remove", "removetmp"}
      BY <1>3 DEF Tick, RefreshRow, Clear, Inv, StorageTypeOK, screen, vars
    <2>2. UNCHANGED <<saves, failures, crashes, edits>>
      BY <1>3 DEF Tick, RefreshRow, Clear, counts, vars
    <2> QED BY <2>1, <2>2, <2>3, <2>4, <2>5, UiOK DEF Inv, StorageTypeOK
  <1>4. CASE UiNext
    <2>1. Works \/ Fails
      BY <1>4
      DEF UiNext, OpenForReading, FinishReading, RemoveLive, RemoveTmp
    <2>2. /\ saves' \in 0..MaxSaves /\ clears' \in 0..MaxClears
          /\ failures' \in 0..MaxFailures /\ crashes' \in 0..MaxCrashes
          /\ edits' \in 0..MaxEdits
      BY <2>1, CountsOK
    <2>3. CASE OpenForReading
      BY <2>2, <2>3, UiOK DEF OpenForReading, Inv, StorageTypeOK, store
    <2>4. CASE FinishReading
      BY <2>2, <2>4, UiOK DEF FinishReading, Readable, Inv, StorageTypeOK, store
    <2>5. CASE RemoveLive
      BY <2>2, <2>5, UiOK DEF RemoveLive, Inv, StorageTypeOK
    <2>6. CASE RemoveTmp
      BY <2>2, <2>6, UiOK DEF RemoveTmp, Inv, StorageTypeOK
    <2> QED BY <1>4, <2>3, <2>4, <2>5, <2>6 DEF UiNext
  <1> QED BY <1>1, <1>2, <1>3, <1>4, CrashOK, EditOK DEF Next

\* Whatever fails, and wherever the power goes, the steps of save_schedule stay
\* safe to interrupt.
THEOREM SavesAreSafe == Spec => [](StorageTypeOK /\ SafeToStop)
  <1>1. Init => Inv
    BY InitOK
  <1>2. Inv /\ [Next]_vars => Inv'
    BY NextOK
  <1> QED BY <1>1, <1>2, PTL DEF Spec, Inv

-----------------------------------------------------------------------------
(* Refinement                                                              *)

\* Only an edit by hand is counted as one.
LEMMA OnlyEditsCount ==
    ASSUME [Next]_vars, ~Edit
    PROVE  edits' = edits
  <1>1. Works \/ Fails => edits' = edits
    BY DEF Works, Fails, counts
  <1>2. ASSUME NEW b \in Contents, Save(b)
        PROVE  edits' = edits
    BY <1>2 DEF Save
  <1>3. CASE SaverNext
    BY <1>1, <1>3 DEF SaverNext, Open, Write, Sync, Close, Rename, Unlink, MarkDirty, counts
  <1>4. CASE UiNext
    BY <1>1, <1>4 DEF UiNext, OpenForReading, FinishReading, RemoveLive, RemoveTmp
  <1>5. CASE Tick \/ RefreshRow \/ Clear \/ Crash \/ UNCHANGED vars
    BY <1>5 DEF Tick, RefreshRow, Clear, Crash, counts, vars
  <1> QED BY <1>2, <1>3, <1>4, <1>5 DEF Next

\* Each step of the two threads, a crash and an edit is a step of the store or
\* changes nothing the store shows.
LEMMA StepImplements ==
    ASSUME Inv, [Next]_vars
    PROVE  [Abstract!StoreNext]_<<Bytes(live), job, answer, edits>>
  <1>1. ASSUME NEW b \in Contents, Save(b)
        PROVE  Abstract!Ask \/ Abstract!Reject
    BY <1>1 DEF Save, Inv, SafeToStop, store, Abstract!Ask, Abstract!Reject
  <1>2. CASE Edit
    <2>1. \/ live' = {}
          \/ \E b \in Contents : live' = {[bytes |-> b, synced |-> TRUE]}
      BY <1>2 DEF Edit
    <2>2. Bytes(live') \in {{}} \cup {{b} : b \in Contents}
      BY <2>1 DEF Bytes
    <2>3. Abstract!Edit
      BY <1>2, <2>2 DEF Edit, saver, Abstract!Edit, Bytes
    <2> QED BY <2>3 DEF Abstract!StoreNext
  <1>3. SUFFICES ASSUME ~Edit
                 PROVE  [Abstract!StoreNext]_<<Bytes(live), job, answer, edits>>
    BY <1>2
  <1>4. edits' = edits
    BY <1>3, OnlyEditsCount
  <1>5. CASE Open \/ Write \/ Sync \/ Close \/ MarkDirty
    <2>1. UNCHANGED <<live, job, answer>>
      BY <1>5 DEF Open, Write, Sync, Close, MarkDirty, store
    <2> QED BY <1>4, <2>1
  <1>6. CASE Rename
    <2>1. CASE live' = tmp /\ tmp # {} /\ answer' = "Ok"
      <3>1. offset = Len(job) /\ \A i \in tmp : i.bytes = SubSeq(job, 1, offset)
        BY <1>6 DEF Rename, Inv, SafeToStop
      <3>2. \A i \in tmp : i.bytes = job
        BY <3>1, JobIsSequence, WholePrefix
      <3>3. Bytes(live') = {job}
        BY <2>1, <3>2 DEF Bytes
      <3>4. answer = "running" /\ job' = job
        BY <1>6 DEF Rename, Inv, SafeToStop
      <3>5. Abstract!Replace
        BY <1>4, <2>1, <3>3, <3>4 DEF Abstract!Replace, Bytes
      <3> QED BY <3>5 DEF Abstract!StoreNext
    <2>2. CASE UNCHANGED <<live, job, answer>>
      BY <1>4, <2>2
    <2> QED BY <1>6, <2>1, <2>2 DEF Rename, store
  <1>7. CASE Unlink
    <2>1. Abstract!Fail
      BY <1>4, <1>7 DEF Unlink, Inv, SafeToStop, Abstract!Fail
    <2> QED BY <2>1 DEF Abstract!StoreNext
  <1>8. CASE Tick \/ RefreshRow \/ Clear \/ OpenForReading \/ FinishReading
             \/ RemoveTmp \/ UNCHANGED vars
    <2>1. UNCHANGED <<live, job, answer>>
      BY <1>8 DEF Tick, RefreshRow, Clear, OpenForReading, FinishReading,
                  RemoveTmp, store, saver, vars
    <2> QED BY <1>4, <2>1
  <1>9. CASE RemoveLive
    <2>1. UNCHANGED <<job, answer>>
      BY <1>9 DEF RemoveLive, saver
    <2>2. CASE live' = {}
      <3>1. Bytes(live') = {}
        BY <2>2 DEF Bytes
      <3>2. Abstract!Remove
        BY <1>4, <2>1, <3>1 DEF Abstract!Remove, Bytes
      <3> QED BY <3>2 DEF Abstract!StoreNext
    <2>3. CASE live' = live
      BY <1>4, <2>1, <2>3
    <2> QED BY <1>9, <2>2, <2>3 DEF RemoveLive
  <1>10. CASE Crash
    <2>1. live' \in Leftovers(live) /\ job' = job /\ answer' = "idle"
      BY <1>10 DEF Crash
    <2>2. Bytes(live') = Bytes(live)
      BY <2>1, LeftoversOK DEF Inv, StorageTypeOK, SafeToStop
    <2>3. Abstract!Lose
      BY <1>4, <2>1, <2>2 DEF Abstract!Lose, Bytes
    <2> QED BY <2>3 DEF Abstract!StoreNext
  <1> QED BY <1>1, <1>3, <1>5, <1>6, <1>7, <1>8, <1>9, <1>10
       DEF Next, SaverNext, UiNext, Abstract!StoreNext

\* storage.rs implements the store: but for an edit by hand, schedule.json changes
\* whole or not at all, and an answer says which.
THEOREM StorageImplementsStore == Spec => StoreIsAtomic
  <1>1. Init => Abstract!StoreInit
    BY DEF Init, Bytes, Abstract!StoreInit
  <1>2. Inv /\ [Next]_vars =>
            [Abstract!StoreNext]_<<Bytes(live), job, answer, edits>>
    BY StepImplements
  <1> QED BY <1>1, <1>2, SavesAreSafe, PTL DEF Spec, Inv, StoreIsAtomic, Abstract!StoreSpec

-----------------------------------------------------------------------------
(* The screen                                                              *)

\* ScreenIsFresh for every step of the UI thread: while it reads, what it reads
\* is what the file holds; once it removed the file, there is none.
Fresh ==
    edits = 0 /\ saving # "mark" /\ ~dirty =>
        /\ ui \in {"idle", "remove"} /\ current => shown = Bytes(live)
        /\ ui = "reading" => reading = live
        /\ ui = "removetmp" => live = {}

LEMMA EmptyBytes == Bytes({}) = {}
  BY DEF Bytes

LEMMA FreshStep ==
    ASSUME Inv, Fresh, [Next]_vars
    PROVE  Fresh'
  <1>1. ASSUME NEW b \in Contents, Save(b)
        PROVE  Fresh'
    BY <1>1 DEF Save, Fresh, store, screen, Bytes
  <1>2. CASE Open \/ Write \/ Sync \/ Close \/ Unlink
    <2>1. UNCHANGED <<live, dirty, ui, reading, shown, current>> /\ saving # "mark"
      BY <1>2 DEF Open, Write, Sync, Close, Unlink, store, screen
    <2>2. edits' = edits
      BY <1>2 DEF Open, Write, Sync, Close, Unlink, Works, Fails, counts
    <2> QED BY <2>1, <2>2 DEF Fresh, Bytes
  <1>3. CASE Rename
    <2>1. CASE saving' = "mark"
      BY <2>1 DEF Fresh
    <2>2. CASE saving' = "unlink" /\ UNCHANGED store
      <3>1. UNCHANGED <<live, dirty, ui, reading, shown, current>> /\ saving # "mark"
        BY <1>3, <2>2 DEF Rename, store, screen
      <3>2. edits' = edits
        BY <1>3 DEF Rename, Works, Fails, counts
      <3> QED BY <3>1, <3>2 DEF Fresh, Bytes
    <2> QED BY <1>3, <2>1, <2>2 DEF Rename, store
  <1>4. CASE MarkDirty \/ Crash
    BY <1>4 DEF MarkDirty, Crash, Fresh
  <1>5. CASE Tick \/ RefreshRow
    BY <1>5 DEF Tick, RefreshRow, Fresh
  <1>6. CASE Clear
    BY <1>6 DEF Clear, Fresh, store, saver, Bytes
  <1>7. CASE OpenForReading
    <2>1. UNCHANGED <<live, saving, dirty, edits>>
      BY <1>7 DEF OpenForReading, Works, Fails, counts, store, saver
    <2>2. \/ ui' = "reading" /\ reading' = live
          \/ ui' = "idle" /\ current' = FALSE
          \/ ui' = "idle" /\ live = {} /\ shown' = {}
      BY <1>7 DEF OpenForReading
    <2> QED BY <2>1, <2>2, EmptyBytes DEF Fresh, Bytes
  <1>8. CASE FinishReading
    <2>1. UNCHANGED <<live, saving, dirty, edits>> /\ ui = "reading" /\ ui' = "idle"
      BY <1>8 DEF FinishReading, Works, Fails, counts, store, saver
    <2>2. shown' = Bytes(reading) \/ current' = FALSE
      BY <1>8 DEF FinishReading
    <2> QED BY <2>1, <2>2 DEF Fresh, Bytes
  <1>9. CASE RemoveLive
    <2>1. UNCHANGED <<saving, dirty, edits, shown, current>> /\ ui = "remove"
      BY <1>9 DEF RemoveLive, Works, Fails, counts, saver
    <2>2. \/ ui' = "removetmp" /\ live' = {}
          \/ ui' = "idle" /\ live' = live
      BY <1>9 DEF RemoveLive
    <2> QED BY <2>1, <2>2 DEF Fresh, Bytes
  <1>10. CASE RemoveTmp
    <2>1. /\ UNCHANGED <<live, saving, dirty, edits>>
          /\ ui = "removetmp" /\ ui' = "idle" /\ shown' = {}
      BY <1>10 DEF RemoveTmp, Works, Fails, counts, saver
    <2> QED BY <2>1, EmptyBytes DEF Fresh, Bytes
  <1>11. CASE Edit
    <2>1. edits' # 0
      BY <1>11 DEF Edit, Inv, StorageTypeOK
    <2> QED BY <2>1 DEF Fresh
  <1>12. CASE UNCHANGED vars
    BY <1>12 DEF vars, store, saver, screen, counts, Fresh, Bytes
  <1> QED BY <1>1, <1>2, <1>3, <1>4, <1>5, <1>6, <1>7, <1>8, <1>9, <1>10,
             <1>11, <1>12 DEF Next, SaverNext, UiNext

\* No save and no clear is overlooked by the screen, whatever the two threads'
\* file operations interleave with (on_message's schedule_dirty,
\* refresh_clock_and_schedule).
THEOREM ScreenStaysFresh == Spec => []ScreenIsFresh
  <1>1. Init => Fresh
    BY DEF Init, Fresh
  <1>2. Inv /\ Fresh /\ [Next]_vars => Fresh'
    BY FreshStep
  <1>3. Fresh => ScreenIsFresh
    BY DEF Fresh, ScreenIsFresh
  <1> QED BY <1>1, <1>2, <1>3, SavesAreSafe, PTL DEF Spec, Inv
=============================================================================
