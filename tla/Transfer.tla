------------------------------ MODULE Transfer ------------------------------
(***************************************************************************)
(* Plugin and Endpoint joined by CanopusConnect.  A request is a send call *)
(* of the plugin: it reaches the wristband once or is lost, its call       *)
(* returns Ok after the wristband handled it or an error at any time.      *)
(* Answers are events of the host, handled in any order.  Everything that  *)
(* goes wrong is a fault of some kind; a run allows the kinds FaultKinds   *)
(* and MaxFaults faults in all.                                            *)
(***************************************************************************)
EXTENDS Endpoint, Plugin

CONSTANTS
    FaultKinds,
    MaxFaults,     \* bound: faults in a run
    MaxPushes      \* bound: pushes in a run

AllFaults == {"lose",     \* a request or an answer is lost
              "early",    \* a timeout although the answer is on its way
              "sendfail", \* send fails and the wristband did not get the frame
              "late",     \* send fails although the wristband handled it
              "listen",   \* listen fails
              "flush",    \* send_binary fails on the wristband
              "io",       \* save_schedule fails
              "idle",     \* a minute passes on the wristband
              "clear",    \* the user clears the schedule on the wristband
              "reboot",   \* the wristband restarts
              "restart",  \* the plugin restarts
              "press"}    \* the user presses push when it cannot start

\* Of these, what a retry repairs or the endpoint never notices, and what makes
\* the endpoint forget a transfer that the plugin goes on with.
Repairable == {"lose", "early", "press"}
Forgetful == {"flush", "io", "idle", "clear", "reboot"}

ASSUME FaultAssumption == FaultKinds \subseteq AllFaults /\ MaxFaults \in Nat
ASSUME PushesAssumption == MaxPushes \in Nat

VARIABLES
    faults,      \* faults so far
    struck       \* history: of which kinds
faultVars == <<faults, struck>>
vars == <<endpointVars, pluginVars, faultVars>>

TypeOK ==
    /\ EndpointTypeOK
    /\ PluginTypeOK
    /\ faults \in 0..MaxFaults /\ struck \subseteq FaultKinds

Init == EndpointInit /\ PluginInit /\ faults = 0 /\ struck = {}

-----------------------------------------------------------------------------
Fault(kind) ==
    /\ kind \in FaultKinds
    /\ faults < MaxFaults
    /\ faults' = faults + 1
    /\ struck' = struck \cup {kind}
NoFault == UNCHANGED faultVars

\* Faults inside a step of the wristband.
Deliverable(d, io) ==
    \/ d \in {"Queued", "Full"} /\ io = "Ok" /\ NoFault
    \/ d = "Failed" /\ io = "Ok" /\ Fault("flush")
    \/ d \in {"Queued", "Full"} /\ io = "Io" /\ Fault("io")

\* The user and the plugin.
Push ==
    /\ Cardinality(pushes) < MaxPushes
    /\ \E bytes \in Pushable : StartPush(bytes)
    /\ NoFault /\ UNCHANGED endpointVars
PushRefused == RefusePush /\ Fault("press") /\ UNCHANGED endpointVars
Listened ==
    /\ \E id \in listens :
          \/ ListenOk(id) /\ NoFault
          \/ ListenFails(id) /\ Fault("listen")
    /\ UNCHANGED endpointVars
TimerEvent == (\E t \in fired : OnTimer(t)) /\ NoFault /\ UNCHANGED endpointVars
PluginRestarts == Restart /\ Fault("restart") /\ UNCHANGED endpointVars

\* An answer to p's current frame may still come without another transmission.
Answerable(p) ==
    \/ \E s \in sends : IsCurrent(p, s) /\ ~s.seen
    \/ \E r \in reply \cup sent : ~Ignored(p.sender, r)

Timeout ==
    /\ \E t \in armed :
          /\ TimerExpires(t)
          /\ IF \E p \in pending : Answerable(p) THEN Fault("early") ELSE NoFault
    /\ UNCHANGED endpointVars

\* The network.  A frame the wristband has handled stays among the sends if its
\* call is yet to fail.
RequestArrives(s) ==
    /\ s \in sends /\ ~s.seen
    /\ \E d \in Deliveries, io \in {"Ok", "Io"} :
          /\ OnMessage(s.frame, io, d)
          /\ \/ SendOk(s) /\ Deliverable(d, io)
             \/ /\ d = "Queued" /\ io = "Ok" /\ Fault("late")
                /\ sends' = (sends \ {s}) \cup {[s EXCEPT !.seen = TRUE]}
                /\ UNCHANGED <<pending, busy, status, nextId, listens, armed,
                               fired, pushes, reports>>

\* A send fails at a cost, or freely when the module does not listen.
SendError(s) ==
    /\ SendFails(s)
    /\ IF s.seen \/ ~up THEN NoFault ELSE Fault("sendfail")
    /\ UNCHANGED endpointVars

RequestLost(s) ==
    /\ s \in sends
    /\ sends' = sends \ {s}
    /\ Fault("lose")
    /\ UNCHANGED <<endpointVars, pending, busy, status, nextId, listens, armed,
                   fired, pushes, reports>>

AnswerArrives(r) == Arrive(r) /\ OnFrame(r) /\ NoFault
AnswerLost(r) == Arrive(r) /\ Fault("lose") /\ UNCHANGED pluginVars

\* The wristband.
Started == Start /\ NoFault /\ UNCHANGED pluginVars
Rebooted == Reboot /\ Fault("reboot") /\ UNCHANGED pluginVars
Flushed ==
    /\ reply # {}
    /\ \E d \in Deliveries : Tick(FALSE, d) /\ Deliverable(d, "Ok")
    /\ UNCHANGED pluginVars
MinutePassed ==
    /\ reply # {} \/ receiver.transfer # {}
    /\ Tick(TRUE, "Queued")
    /\ Fault("idle")
    /\ UNCHANGED pluginVars
UserAborts ==
    /\ Abort
    /\ Fault("clear")
    /\ UNCHANGED pluginVars
UserClears == ClearSchedule /\ NoFault /\ UNCHANGED pluginVars

Next ==
    \/ Push \/ PushRefused \/ Listened \/ TimerEvent \/ Timeout
    \/ PluginRestarts
    \/ \E s \in sends : RequestArrives(s) \/ SendError(s) \/ RequestLost(s)
    \/ \E r \in sent : AnswerArrives(r) \/ AnswerLost(r)
    \/ Started \/ Rebooted \/ Flushed \/ MinutePassed
    \/ UserAborts \/ UserClears

Spec == Init /\ [][Next]_vars

-----------------------------------------------------------------------------
(* Safety                                                                  *)

\* What the wristband saves under a push's id is that push's schedule, byte for
\* byte: no mixture of pushes or of repeated, reordered or partial chunks, even
\* where the checksum could not tell (Receiver::apply, Sender::on_reply).
SavedIsPushed == \A i \in DOMAIN saves : saves[i] \in pushes

\* A push reported successful was saved, whole, with the course count the user
\* is told (on_frame's Progress::Complete).
SuccessIsSaved ==
    \A r \in reports :
        r.ending = "success" =>
            \E i \in DOMAIN saves :
                /\ saves[i].id = r.id
                /\ r.count = CourseCount(saves[i].bytes)

\* Until the wristband restarts, a push is saved at most once: repeating any
\* frame never saves its schedule a second time (the Receiver's committed).
SavedOnce ==
    "reboot" \notin struck =>
        \A i, j \in DOMAIN saves : saves[i].id = saves[j].id => i = j

\* Each push ends once, whatever replies, timers and send errors coincide
\* (finish), and ends in a timeout only when the frame it waited for was sent
\* MaxRetries + 1 times (on_timer, arm).
EndsOnce ==
    /\ \A r, q \in reports : r.id = q.id => r = q
    /\ \A r \in reports : r.ending = "timeout" => r.tries = MaxRetries + 1
    /\ \A r \in reports, p \in pending : r.id # p.id

\* A pending push always has something that will move it on: start still waits
\* for listen, or the current timeout is set or its event is on the way.  The
\* button is locked exactly while a push is pending (arm, finish, token).
NeverStuck ==
    /\ busy <=> pending # {}
    /\ \A p \in pending : p.id \in listens \/ Token(p) \in armed \cup fired

\* As long as the endpoint forgets nothing, losing and repeating frames never
\* makes the wristband refuse a push: only a schedule that save_schedule refuses
\* is reported rejected.
RetryIsHarmless ==
    struck \cap Forgetful = {} =>
        \A r \in reports, p \in pushes :
            r.id = p.id /\ r.ending = "rejected" => ~ValidImport(p.bytes)

\* The service of which the pending push is the one under way.
PushOf(p) == [id |-> p.id, bytes |-> p.sender.bytes]
Service == INSTANCE PushService WITH
    Identities <- Ids, Contents <- Schedules, Valid <- ValidImport, Count <- CourseCount,
    underWay <- {PushOf(p) : p \in pending}, stored <- file

\* The push service: whatever the network, the hosts and the user do, each step
\* of the two ends begins a push, ends the one under way, forgets it, saves a
\* push on the wristband, clears it, or is none of the user's business.
PushesAreServed == Service!ServiceSpec

\* Once the user reads that the push succeeded, the message stays until the user
\* or the plugin's host does something new: a send error that comes after the
\* replies completed the transfer changes nothing (transfer.rs dispatch).
SuccessStaysReported ==
    [][status = "success" /\ status' # "success" =>
          pushes' # pushes \/ PushRefused \/ PluginRestarts]_vars

-----------------------------------------------------------------------------
(* Liveness.  The two hosts do not stop while they have something to do:    *)
(* a timer that expires, a call or an event to carry out, an answer to send *)
(* again.  Which of these comes first is left open.  The user, faults and   *)
(* Full queues are under no obligation, except that a queue does not stay   *)
(* full for ever.                                                           *)

HostStep ==
    \/ Listened \/ TimerEvent \/ Timeout
    \/ \E r \in sent : AnswerArrives(r)
    \/ ~up /\ \E s \in sends : SendError(s)
    \/ Flushed
    \/ \E s \in sends : RequestArrives(s)

FairSpec == Spec /\ WF_vars(HostStep)

\* Whatever fails, a push ends: the button is released (transfer.rs).
PushEnds == busy ~> ~busy

\* A valid schedule pushed to a module that listens is delivered and reported,
\* unless more than MaxRetries frames are lost or answered late, or something
\* else goes wrong.
PushSucceeds ==
    \A id \in Ids :
        (/\ up /\ id \in listens
         /\ \E p \in pushes : p.id = id /\ ValidImport(p.bytes)) ~>
        (\/ \E r \in reports : r.id = id /\ r.ending = "success"
         \/ faults > MaxRetries \/ ~(struck \subseteq Repairable))
=============================================================================
