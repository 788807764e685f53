------------------------------- MODULE Plugin -------------------------------
(***************************************************************************)
(* The phone's end of a transfer: plugins/astrobox-loop-import/src/        *)
(* transfer.rs and the push button of ui/mod.rs.  The plugin is a single-  *)
(* threaded component: a handler runs from one await to the next without   *)
(* being interrupted, and there the host may run any other handler.  Each  *)
(* such stretch is one action; the awaited host calls are state: listens   *)
(* and sends.                                                              *)
(***************************************************************************)
EXTENDS LoopProtocol

CONSTANTS
    MaxRetries,    \* retransmissions of one frame before on_timer gives up
    Pushable,      \* the schedules the user may push, as bytes
    Seeds          \* the clock readings new_id may start from

ASSUME RetryAssumption == MaxRetries \in Nat
ASSUME PushableAssumption == \A b \in Pushable : b \in Seq(Byte)
ASSUME SeedAssumption == Seeds \subseteq Word

VARIABLES
    pending,       \* PENDING: at most one push
    busy,          \* UiState.busy
    status,        \* UiState.status
    nextId,        \* the counter of new_id
    listens,       \* ids whose start awaits connect::listen
    sends,         \* connect::send calls not yet returned
    armed,         \* the timeout set with the host, at most one
    fired,         \* timer events not yet handled
    pushes,        \* history: [id, bytes] of every push begun
    reports        \* history: how pushes ended, as the user was told

pluginVars == <<pending, busy, status, nextId, listens, sends, armed, fired,
                pushes, reports>>

\* A send: the frame; whether start_push awaits it; whether the wristband has
\* handled it although the call has not returned.
Sends == [frame : Frames, starting : BOOLEAN, seen : BOOLEAN]
\* current is the frame acknowledged next, tries (history) counts its
\* transmissions.
Senders == [id : Ids, bytes : Schedules, current : Frames,
            offset : 0..ScheduleMax, sentEnd : 0..ScheduleMax]
Pendings == [id : Ids, sender : Senders, epoch : Nat, retries : 0..MaxRetries,
             tries : Nat]
Tokens == [id : Ids, op : Ops, value : Word, epoch : Nat]

Endings == {"success", "rejected", "timeout", "sendfail", "listenfail"}
Reports == [id : Ids, ending : Endings, count : Word, tries : Nat]
Texts == Endings \cup {"none", "connecting", "pushing", "wait", "cannotstart"}

PluginTypeOK ==
    /\ pending \in SUBSET Pendings
    /\ busy \in BOOLEAN
    /\ status \in Texts
    /\ nextId \in Word
    /\ listens \in SUBSET Ids
    /\ sends \in SUBSET Sends
    /\ armed \in SUBSET Tokens
    /\ fired \in SUBSET Tokens
    /\ pushes \in SUBSET [id : Ids, bytes : Schedules]
    /\ reports \in SUBSET Reports

\* new_id starts at the clock's milliseconds.
PluginInit ==
    /\ pending = {} /\ busy = FALSE /\ status = "none"
    /\ nextId \in Seeds
    /\ listens = {} /\ sends = {}
    /\ armed = {} /\ fired = {}
    /\ pushes = {} /\ reports = {}

-----------------------------------------------------------------------------
\* fetch_add wraps, and 0 is skipped.
NewId == IF nextId = 0 THEN 1 ELSE nextId
\* Mutant: fetch_add does not wrap.
UnwrappedId(id) == id + 1
AfterId(id) == (id + 1) % (MaxWord + 1)
\* Bound: no id comes round again (2^32 pushes, or a clock set back).
FreshId == \A p \in pushes : p.id # NewId

IsPending(id) == \E p \in pending : p.id = id

Token(p) == [id |-> p.id, op |-> p.sender.current.op,
             value |-> p.sender.current.value, epoch |-> p.epoch]

\* The transmission of p's current frame that arm's epoch numbers.
Transmit(p, starting) ==
    [frame |-> [p.sender.current EXCEPT !.copy = p.epoch],
     starting |-> starting, seen |-> FALSE]

AbortOf(id, starting) ==
    [frame |-> Request("ABORT", id, 0, <<>>), starting |-> starting,
     seen |-> FALSE]

\* Mutant: the timeout is set with the token of the epoch before.
ArmOldEpoch(p) == pending' = {[p EXCEPT !.epoch = @ + 1]} /\ armed' = {Token(p)}
\* arm: the old timeout is cleared, a new epoch makes its token stale.
Arm(p) ==
    LET q == [p EXCEPT !.epoch = @ + 1]
    IN  pending' = {q} /\ armed' = {Token(q)}

\* Mutant: the button stays locked.
FinishBusy(p, ending, count) ==
    /\ pending' = {} /\ armed' = {} /\ busy' = busy
    /\ reports' = reports \cup {[id |-> p.id, ending |-> ending,
                                 count |-> count, tries |-> p.tries]}
\* finish, for a push that is pending, but for the status it writes.
Finish(p, ending, count) ==
    /\ pending' = {}
    /\ armed' = {}
    /\ busy' = FALSE
    /\ reports' = reports \cup {[id |-> p.id, ending |-> ending,
                                 count |-> count, tries |-> p.tries]}

-----------------------------------------------------------------------------
\* start_push while busy, or with nothing valid to push, only says so.
RefusePush ==
    /\ status' = IF busy THEN "wait" ELSE "cannotstart"
    /\ UNCHANGED <<pending, busy, nextId, listens, sends, armed, fired, pushes,
                   reports>>

\* start_push and start up to listen.await.  Sender::new refuses an empty or
\* oversized schedule, and a push that is pending another one; either way the
\* id is spent.
StartPush(bytes) ==
    LET id == NewId
        accepted == Len(bytes) \in 1..ScheduleMax /\ pending = {}
    IN  /\ ~busy /\ FreshId
        /\ nextId' = AfterId(id)
        /\ IF accepted
           THEN /\ pending' = {[id |-> id, sender |-> NewSender(id, bytes),
                                epoch |-> 0, retries |-> 0, tries |-> 0]}
                /\ busy' = TRUE
                /\ status' = "connecting"
                /\ listens' = listens \cup {id}
                /\ pushes' = pushes \cup {[id |-> id, bytes |-> bytes]}
           ELSE /\ status' = "cannotstart"
                /\ UNCHANGED <<pending, busy, listens, pushes>>
        /\ UNCHANGED <<sends, armed, fired, reports>>

\* listen.await returns Ok: arm and dispatch HELLO, if the push is still pending.
ListenOk(id) ==
    /\ id \in listens
    /\ listens' = listens \ {id}
    /\ IF IsPending(id)
       THEN LET p == [The(pending) EXCEPT !.tries = 1]
            IN  /\ Arm(p)
                /\ sends' = sends \cup {Transmit(The(pending'), TRUE)}
       ELSE UNCHANGED <<pending, armed, sends>>
    /\ UNCHANGED <<busy, status, nextId, fired, pushes, reports>>

\* listen.await returns Err: finish, and start_push writes the status after it.
ListenFails(id) ==
    /\ id \in listens
    /\ listens' = listens \ {id}
    /\ status' = "cannotstart"
    /\ IF IsPending(id) THEN Finish(The(pending), "listenfail", 0)
       ELSE UNCHANGED <<pending, armed, busy, reports>>
    /\ UNCHANGED <<nextId, sends, fired, pushes>>

-----------------------------------------------------------------------------
\* on_frame: the four ends of on_reply for a frame f from the pending address.
FrameIgnored(f) ==
    /\ \A p \in pending : Ignored(p.sender, f)
    /\ UNCHANGED pluginVars

FrameCompletes(p, f) ==
    /\ ~Ignored(p.sender, f) /\ ReplyError(p.sender, f) = "Ok"
    /\ f.op = "COMMIT"
    /\ Finish(p, "success", f.value)
    /\ status' = "success"
    /\ UNCHANGED <<nextId, listens, sends, fired, pushes>>

FrameRejects(p, f) ==
    /\ ~Ignored(p.sender, f) /\ ReplyError(p.sender, f) # "Ok"
    /\ Finish(p, "rejected", 0)
    /\ status' = "rejected"
    /\ sends' = sends \cup {AbortOf(p.id, FALSE)}
    /\ UNCHANGED <<nextId, listens, fired, pushes>>

\* Mutant: the retries of the frame before count on.
KeepsRetries(p, f) == [p EXCEPT !.sender = Advance(@, f), !.tries = 1]
NextStage(p, f) == [p EXCEPT !.sender = Advance(@, f), !.retries = 0, !.tries = 1]

FrameAdvances(p, f) ==
    /\ ~Ignored(p.sender, f) /\ ReplyError(p.sender, f) = "Ok"
    /\ f.op # "COMMIT"
    /\ Arm(NextStage(p, f))
    /\ sends' = sends \cup {Transmit(The(pending'), FALSE)}
    /\ status' = "pushing"
    /\ UNCHANGED <<busy, nextId, listens, fired, pushes, reports>>

OnFrame(f) ==
    \/ FrameIgnored(f)
    \/ \E p \in pending :
          FrameCompletes(p, f) \/ FrameRejects(p, f) \/ FrameAdvances(p, f)

-----------------------------------------------------------------------------
\* The host's timer expires: the event is on its way, too late for clear_timer.
TimerExpires(t) ==
    /\ t \in armed
    /\ armed' = {}
    /\ fired' = fired \cup {t}
    /\ UNCHANGED <<pending, busy, status, nextId, listens, sends, pushes, reports>>

\* on_timer: a token of another push, stage or epoch is dropped.
TimerStale(t) ==
    /\ \A p \in pending : t # Token(p)
    /\ UNCHANGED <<pending, busy, status, nextId, listens, sends, armed, pushes,
                   reports>>

TimerGivesUp(p, t) ==
    /\ t = Token(p) /\ p.retries >= MaxRetries
    /\ Finish(p, "timeout", 0)
    /\ status' = "timeout"
    /\ sends' = sends \cup {AbortOf(p.id, FALSE)}
    /\ UNCHANGED <<nextId, listens, pushes>>

TimerResends(p, t) ==
    /\ t = Token(p) /\ p.retries < MaxRetries
    /\ Arm([p EXCEPT !.retries = @ + 1, !.tries = @ + 1])
    /\ sends' = sends \cup {Transmit(The(pending'), FALSE)}
    /\ UNCHANGED <<busy, status, nextId, listens, pushes, reports>>

OnTimer(t) ==
    /\ t \in fired
    /\ fired' = fired \ {t}
    /\ \/ TimerStale(t)
       \/ \E p \in pending : TimerGivesUp(p, t) \/ TimerResends(p, t)

-----------------------------------------------------------------------------
\* connect::send returns Ok.  dispatch has nothing left to do, but the ABORT of
\* a push whose HELLO could not be sent still owes start_push that error.
SendOk(s) ==
    /\ s \in sends
    /\ sends' = sends \ {s}
    /\ status' = IF s.starting /\ s.frame.op = "ABORT" THEN "cannotstart"
                 ELSE status
    /\ UNCHANGED <<pending, busy, nextId, listens, armed, fired, pushes, reports>>

\* Is s a transmission of the frame p waits for now?
IsCurrent(p, s) ==
    /\ p.id = s.frame.id
    /\ p.sender.current = [s.frame EXCEPT !.copy = p.sender.current.copy]

\* connect::send returns Err.  dispatch ends the push only if the frame is still
\* current, and then sends ABORT; start passes the error on to start_push
\* whether or not it ended the push.
SendFails(s) ==
    /\ s \in sends
    /\ \/ /\ s.frame.op # "ABORT"
          /\ \E p \in pending :
                /\ IsCurrent(p, s)
                /\ Finish(p, "sendfail", 0)
          /\ status' = "sendfail"
          /\ sends' = (sends \ {s}) \cup {AbortOf(s.frame.id, s.starting)}
       \/ /\ s.frame.op = "ABORT" \/ \A p \in pending : ~IsCurrent(p, s)
          /\ status' = IF s.starting THEN "cannotstart" ELSE status
          /\ sends' = sends \ {s}
          /\ UNCHANGED <<pending, busy, armed, reports>>
    /\ UNCHANGED <<nextId, listens, fired, pushes>>

\* The host stops the plugin and starts it again: statics, timers and suspended
\* handlers are gone, what was sent is not; the clock seeds another id.
Restart ==
    /\ pending' = {} /\ busy' = FALSE /\ status' = "none"
    /\ nextId' \in Seeds
    /\ listens' = {} /\ armed' = {} /\ fired' = {}
    /\ sends' = {[s EXCEPT !.starting = FALSE] : s \in sends}
    /\ UNCHANGED <<pushes, reports>>
=============================================================================
