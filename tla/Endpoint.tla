------------------------------ MODULE Endpoint ------------------------------
(***************************************************************************)
(* The wristband's end of a transfer: the Endpoint of target/connect.rs    *)
(* (receiver, one unsent reply, idle timeout), the schedule file its       *)
(* commits replace and the reload mark they leave for the UI.              *)
(*                                                                         *)
(* Message and timer callbacks run on the Supervisor's thread, one at a    *)
(* time, each to its end: one action each.  Clearing the schedule runs on  *)
(* the UI thread and calls connect::abort and storage::clear_schedule one  *)
(* after the other: two actions, between which callbacks may run.          *)
(***************************************************************************)
EXTENDS LoopProtocol, FiniteSets

CONSTANTS
    ValidImport(_),   \* does save_schedule accept these bytes?
    CourseCount(_),   \* how many courses they hold
    Inputs,           \* the frames the Endpoint may receive when run alone
    MaxSaves,         \* bound: commits in a run of the Endpoint alone
    MaxAnswers        \* bound: answers unsent or on their way in such a run

ASSUME CountAssumption == \A b \in Schedules : CourseCount(b) \in Word
ASSUME InputAssumption == \A f \in Inputs : f \in Frames
ASSUME BoundAssumption == MaxSaves \in Nat /\ MaxAnswers \in Nat

VARIABLES
    up,          \* ENDPOINT is Some and the module listens
    receiver,    \* Endpoint.receiver
    reply,       \* Endpoint.reply: the frame not yet queued, at most one
    sent,        \* frames queued for the phone and not yet received by it
    file,        \* schedule.json: its bytes, if it exists
    dirty,       \* schedule_dirty
    clearing,    \* the UI thread is between abort and clear_schedule
    saves        \* history: every commit, in order, as [id, bytes]

endpointVars == <<up, receiver, reply, sent, file, dirty, clearing, saves>>

Saves == [id : Word, bytes : Schedules]

EndpointTypeOK ==
    /\ up \in BOOLEAN
    /\ receiver \in Receivers
    /\ Single(receiver.transfer) /\ Single(receiver.committed)
    /\ reply \in SUBSET Frames
    /\ sent \in SUBSET Frames
    /\ file \in SUBSET Schedules
    /\ dirty \in BOOLEAN
    /\ clearing \in BOOLEAN
    /\ saves \in Seq(Saves)

EndpointInit ==
    /\ up = FALSE
    /\ receiver = ReceiverDefault
    /\ reply = {} /\ sent = {}
    /\ file = {}
    /\ dirty = TRUE
    /\ clearing = FALSE
    /\ saves = <<>>

-----------------------------------------------------------------------------
\* start: a failed timer or listen undoes everything, so only success counts.
Start ==
    /\ ~up
    /\ up' = TRUE
    /\ receiver' = ReceiverDefault
    /\ reply' = {}
    /\ UNCHANGED <<sent, file, dirty, clearing, saves>>

\* The wristband restarts: statics are lost, the file is not.
Reboot ==
    /\ up
    /\ up' = FALSE
    /\ receiver' = ReceiverDefault
    /\ reply' = {}
    /\ dirty' = TRUE
    /\ clearing' = FALSE
    /\ UNCHANGED <<sent, file, saves>>

\* send_binary queues the frame, finds the queue full (-16), or fails.
Deliveries == {"Queued", "Full", "Failed"}

\* flush, called on receiver r with the unsent reply p (no frame: no send).
Flush(r, p, delivery) ==
    /\ receiver' = IF p # {} /\ delivery = "Failed" THEN Reset(r) ELSE r
    /\ reply' = IF delivery = "Full" THEN p ELSE {}
    /\ sent' = IF delivery = "Queued" THEN sent \cup p ELSE sent

\* The commit callback.  io is "Ok", or "Io" when a file operation fails.
Commit(io) ==
    LET bytes == The(receiver.transfer).bytes
    IN  IF ValidImport(bytes)
        THEN [status |-> io, count |-> CourseCount(bytes)]
        ELSE [status |-> "Schedule", count |-> 0]

\* The file, the reload mark and the history after saving s (at most one).
Keep(s) ==
    /\ file' = IF s = {} THEN file ELSE {The(s).bytes}
    /\ dirty' = (dirty \/ s # {})
    /\ saves' = IF s = {} THEN saves ELSE Append(saves, The(s))

\* on_message.  A new answer takes the place of one still unsent.
OnMessage(f, io, delivery) ==
    LET o == Apply(receiver, f, Commit(io))
    IN  /\ up
        /\ Handles(f)
        /\ Flush(o.receiver, {Response(f, o.status, o.value)}, delivery)
        /\ Keep(o.saved)
        /\ UNCHANGED <<up, clearing>>

\* tick, every 100 ms; idle when no frame was handled for a minute.
Tick(idle, delivery) ==
    /\ up
    /\ IF idle THEN Flush(Reset(receiver), {}, delivery)
               ELSE Flush(receiver, reply, delivery)
    /\ UNCHANGED <<up, file, dirty, clearing, saves>>

\* connect::abort, the first half of ClearStoredSchedule.
Abort ==
    /\ ~clearing
    /\ clearing' = TRUE
    /\ receiver' = Reset(receiver)
    /\ reply' = {}
    /\ UNCHANGED <<up, sent, file, dirty, saves>>

\* storage::clear_schedule, the second half; it may fail to remove the file.
ClearSchedule ==
    /\ clearing
    /\ clearing' = FALSE
    /\ file' \in {file, {}}
    /\ UNCHANGED <<up, receiver, reply, sent, dirty, saves>>

\* The phone takes an answer, or it is lost.
Arrive(r) ==
    /\ r \in sent
    /\ sent' = sent \ {r}
    /\ UNCHANGED <<up, receiver, reply, file, dirty, clearing, saves>>

InBounds == Len(saves') <= MaxSaves /\ Cardinality(reply' \cup sent') <= MaxAnswers

EndpointNext ==
    \/ Start
    \/ Reboot
    \/ \E f \in Inputs, d \in Deliveries :
          \E io \in IF f.op = "COMMIT" THEN {"Ok", "Io"} ELSE {"Ok"} :
             OnMessage(f, io, d) /\ InBounds
    \/ \E idle \in BOOLEAN, d \in Deliveries : Tick(idle, d) /\ InBounds
    \/ Abort
    \/ ClearSchedule
    \/ \E r \in sent : Arrive(r)

EndpointSpec == EndpointInit /\ [][EndpointNext]_endpointVars

-----------------------------------------------------------------------------
\* Every answer that confirms a COMMIT, sent or about to be, stands for a commit
\* that did happen under its id, and carries that commit's course count, however
\* often the request is repeated and whatever was lost since (connect.rs
\* on_message, Receiver::apply).
ConfirmedIsSaved ==
    \A r \in reply \cup sent :
        r.op = "COMMIT" /\ r.status = "Ok" =>
            \E i \in DOMAIN saves : /\ saves[i].id = r.id
                                    /\ CourseCount(saves[i].bytes) = r.value

\* The file holds what the last commit saved, or was cleared: a refused, corrupt
\* or failed commit leaves it alone (save_schedule, clear_schedule).
FileIsLastSave ==
    file # {} => saves # <<>> /\ file = {saves[Len(saves)].bytes}

\* A commit saves under an id other than the cached one: the Receiver does not
\* commit the transaction it answered for last a second time.
LastIdNotSavedAgain ==
    [][saves' # saves =>
          \A c \in receiver.committed : c.id # saves'[Len(saves')].id]_endpointVars

\* While the wristband holds a transfer no frame, of whatever id, turns it into
\* another one or takes back bytes: it only grows until it ends.
TransferOnlyGrows ==
    [][\A t \in receiver.transfer, u \in receiver'.transfer :
          /\ u.id = t.id /\ u.size = t.size /\ u.crc = t.crc
          /\ Len(u.bytes) >= Len(t.bytes)
          /\ SubSeq(u.bytes, 1, Len(t.bytes)) = t.bytes]_endpointVars

\* A transfer never outgrows the size its BEGIN announced, and nothing that
\* save_schedule refuses is ever saved.
TransferFits ==
    /\ \A t \in receiver.transfer : Len(t.bytes) <= t.size
    /\ \A i \in DOMAIN saves : ValidImport(saves[i].bytes)

\* The answer cached for a repeated COMMIT is about the last commit: a later
\* commit, a cleared file or an aborted transfer never leaves an older one there.
CachedIsLastSave ==
    \A c \in receiver.committed :
        /\ saves # <<>>
        /\ c.id = saves[Len(saves)].id
        /\ c.count = CourseCount(saves[Len(saves)].bytes)

EndpointInv == /\ EndpointTypeOK /\ TransferFits /\ CachedIsLastSave
               /\ ConfirmedIsSaved /\ FileIsLastSave
=============================================================================
