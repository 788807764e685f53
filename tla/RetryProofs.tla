---------------------------- MODULE RetryProofs ----------------------------
(* What repeated, lost and late frames cannot do: save a schedule twice, or *)
(* make the wristband refuse a push that it would have saved.               *)
EXTENDS TransferProofs, FiniteSetTheorems

-----------------------------------------------------------------------------
(* A push is saved once                                                    *)

\* Two saves in a row are of different pushes.
SavedInTurn ==
    \A i, j \in DOMAIN saves : j = i + 1 => saves[i].id # saves[j].id

\* While the wristband runs it remembers the push it saved last.
LastRemembered == saves # <<>> => up /\ receiver.committed # {}

TurnInv == SavedInTurn /\ LastRemembered

\* No step forgets what was committed last.
Remembers ==
    /\ saves' # saves => up' /\ receiver'.committed # {}
    /\ saves' = saves /\ saves # <<>> =>
          (up => up') /\ (receiver.committed # {} => receiver'.committed # {})

LEMMA MessageRemembers ==
    ASSUME EndpointInv, NEW f \in Frames, NEW io \in {"Ok", "Io"},
           NEW d \in Deliveries, OnMessage(f, io, d)
    PROVE  Remembers
  <1>1. PICK o : /\ OutcomeOK(receiver, f, Commit(io), o)
                 /\ receiver' \in {o.receiver, Reset(o.receiver)}
                 /\ Keep(o.saved)
    BY MessageOutcome
  <1>2. receiver'.committed = o.receiver.committed
    BY <1>1, ResetOK DEF OutcomeOK
  <1>3. o.saved = {} => saves' = saves /\ o.receiver.committed = receiver.committed
    BY <1>1 DEF Keep, OutcomeOK
  <1>4. o.saved # {} => o.receiver.committed # {}
    BY <1>1 DEF OutcomeOK
  <1>5. up /\ up'
    BY DEF OnMessage
  <1> QED BY <1>2, <1>3, <1>4, <1>5 DEF Remembers

\* A fault that struck has struck, and no other step adds one.
LEMMA FaultsStay ==
    ASSUME [Next]_vars
    PROVE  struck \subseteq struck'
  <1>1. NoFault \/ (\E kind : Fault(kind)) => struck \subseteq struck'
    BY DEF NoFault, faultVars, Fault
  <1> QED BY <1>1, FaultOrNone DEF vars, faultVars

LEMMA NextRemembers ==
    ASSUME "reboot" \notin struck', LinkInv, LastRemembered, [Next]_vars
    PROVE  Remembers
  <1>1. Reset(receiver).committed = receiver.committed
    BY ReceiverInv, ResetOK DEF LinkInv
  <1>2. Reset(Reset(receiver)).committed = receiver.committed
    BY ReceiverInv, ResetOK DEF LinkInv
  <1>3. CASE UNCHANGED endpointVars
    BY <1>3 DEF endpointVars, Remembers
  <1>4. ASSUME NEW s \in sends, RequestArrives(s)
        PROVE  Remembers
    BY <1>4, SendFrame, MessageRemembers DEF RequestArrives, LinkInv
  <1>5. ASSUME NEW r \in sent, Arrive(r)
        PROVE  Remembers
    BY <1>5 DEF Arrive, Remembers
  <1>6. CASE Started
    BY <1>6 DEF Started, Start, LastRemembered, Remembers
  <1>7. CASE UserAborts \/ UserClears
    BY <1>1, <1>7 DEF UserAborts, UserClears, Abort, ClearSchedule, Remembers
  <1>8. CASE Flushed \/ MinutePassed
    BY <1>1, <1>2, <1>8 DEF Flushed, MinutePassed, Tick, Flush, Remembers
  <1>9. ~Rebooted
    BY DEF Rebooted, Fault
  <1> QED BY <1>3, <1>4, <1>5, <1>6, <1>7, <1>8, <1>9
      DEF Next, vars, Push, PushRefused, Listened, TimerEvent, Timeout,
          PluginRestarts, SendError, RequestLost, AnswerArrives, AnswerLost

\* A save is never of the push that is remembered.
LEMMA NextSavesAnother ==
    ASSUME LinkInv, [Next]_vars, saves' # saves
    PROVE  \A c \in receiver.committed : c.id # saves'[Len(saves')].id
  <1>1. PICK s \in sends, d \in Deliveries, io \in {"Ok", "Io"} :
            OnMessage(s.frame, io, d)
    BY ArrivesOrQuiet DEF Quiet
  <1> QED BY <1>1, SendFrame, MessageStepOK DEF StepOK, LinkInv

LEMMA NextTurn ==
    ASSUME "reboot" \notin struck', LinkInv, DeliveryInv, TurnInv, [Next]_vars
    PROVE  TurnInv'
  <1>1. SavesGrow /\ Remembers /\ saves \in Seq(Saves)
    BY NextDelivery, NextRemembers DEF TurnInv, LinkInv, EndpointInv, EndpointTypeOK
  <1>2. LastRemembered'
    BY <1>1 DEF Remembers, TurnInv, LastRemembered
  <1>3. ASSUME NEW u \in pushes, saves' = Append(saves, u)
        PROVE  SavedInTurn'
    <2>1. /\ Len(saves') = Len(saves) + 1 /\ saves'[Len(saves')] = u
          /\ saves' # saves /\ DOMAIN saves = 1..Len(saves)
          /\ DOMAIN saves' = 1..Len(saves')
          /\ \A i \in DOMAIN saves : saves'[i] = saves[i]
      BY <1>1, <1>3
    <2>2. saves # <<>> => saves[Len(saves)].id # u.id
      <3> SUFFICES ASSUME saves # <<>> PROVE saves[Len(saves)].id # u.id
        OBVIOUS
      <3>1. PICK c \in receiver.committed : TRUE
        BY DEF TurnInv, LastRemembered
      <3>2. c.id = saves[Len(saves)].id
        BY DEF LinkInv, EndpointInv, CachedIsLastSave
      <3>3. c.id # u.id
        BY <2>1, NextSavesAnother
      <3> QED BY <3>2, <3>3
    <2> SUFFICES ASSUME NEW i \in DOMAIN saves', NEW j \in DOMAIN saves', j = i + 1
                 PROVE  saves'[i].id # saves'[j].id
      BY DEF SavedInTurn
    <2>3. CASE j \in DOMAIN saves
      <3>1. i \in DOMAIN saves
        BY <2>1, <2>3
      <3> QED BY <2>1, <2>3, <3>1 DEF TurnInv, SavedInTurn
    <2>4. CASE j \notin DOMAIN saves
      <3>1. j = Len(saves') /\ i = Len(saves) /\ i \in DOMAIN saves
        BY <1>1, <2>1, <2>4
      <3>2. saves # <<>>
        BY <3>1
      <3> QED BY <2>1, <2>2, <3>1, <3>2
    <2> QED BY <2>3, <2>4
  <1>4. SavedInTurn'
    BY <1>1, <1>3 DEF SavesGrow, TurnInv, SavedInTurn
  <1> QED BY <1>2, <1>4 DEF TurnInv

LEMMA TurnInvariant == Spec => []("reboot" \notin struck => TurnInv)
  <1>1. Init => TurnInv
    BY DEF Init, EndpointInit, TurnInv, SavedInTurn, LastRemembered
  <1>2. LinkInv /\ DeliveryInv /\ ("reboot" \notin struck => TurnInv) /\ [Next]_vars
        => ("reboot" \notin struck => TurnInv)'
    BY NextTurn, FaultsStay
  <1> QED BY <1>1, <1>2, LinkInvariant, DeliveryInvariant, PTL DEF Spec

\* Until the wristband restarts, it never saves a push twice in a row, however
\* often its frames are repeated and however late they come: between two saves
\* of one push it saved another (the Receiver's committed).
THEOREM SavesTakeTurns == Spec => []("reboot" \notin struck => SavedInTurn)
  <1>1. TurnInv => SavedInTurn
    BY DEF TurnInv
  <1> QED BY <1>1, TurnInvariant, PTL

\* With room for one push there is at most one.
OnePush == Single(pushes)

LEMMA OnePushInvariant ==
    ASSUME MaxPushes <= 1
    PROVE  Spec => []OnePush
  <1>1. Init => OnePush
    BY DEF Init, PluginInit, OnePush, Single
  <1>2. ASSUME LinkInv, OnePush, [Next]_vars
        PROVE  OnePush'
    <2>1. CASE pushes' = pushes
      BY <1>2, <2>1 DEF OnePush, Single
    <2>2. CASE Push
      <3>1. PICK b \in Pushable : StartPush(b)
        BY <2>2 DEF Push
      <3>2. pushes = {}
        <4>1. ASSUME NEW u \in pushes PROVE FALSE
          <5>1. pushes = {u}
            BY <1>2 DEF OnePush, Single
          <5>2. Cardinality(pushes) = 1
            BY <5>1, FS_Singleton
          <5> QED BY <2>2, <5>2, PushesAssumption DEF Push
        <4> QED BY <4>1
      <3>3. pushes' \subseteq {[id |-> NewId, bytes |-> b]}
        BY <3>1, <3>2 DEF StartPush
      <3> QED BY <3>3 DEF OnePush, Single
    <2>3. CASE ~Push
      <3>1. pushes' = pushes
        BY <1>2, <2>3 DEF Next, vars, pluginVars, PushRefused, Listened, TimerEvent,
              Timeout, PluginRestarts, SendError, RequestLost, AnswerArrives,
              AnswerLost, Started, Rebooted, Flushed, MinutePassed, UserAborts,
              UserClears, RequestArrives, RefusePush, ListenOk, ListenFails,
              OnTimer, TimerStale, TimerGivesUp, TimerResends, TimerExpires,
              Restart, SendOk, SendFails, OnFrame, FrameIgnored, FrameCompletes,
              FrameRejects, FrameAdvances
      <3> QED BY <2>1, <3>1
    <2> QED BY <2>2, <2>3
  <1> QED BY <1>1, <1>2, LinkInvariant, PTL DEF Spec

\* Until the wristband restarts, the one push of a run is saved at most once
\* (the Receiver's committed).
THEOREM SavesHappenOnce ==
    ASSUME MaxPushes <= 1
    PROVE  Spec => []SavedOnce
  <1>1. /\ LinkInv /\ OnePush /\ SavedIsPushed
        /\ ("reboot" \notin struck => SavedInTurn)
        => SavedOnce
    <2> SUFFICES ASSUME LinkInv, OnePush, SavedIsPushed, SavedInTurn
                 PROVE  \A i, j \in DOMAIN saves : saves[i].id = saves[j].id => i = j
      BY DEF SavedOnce
    <2>1. saves \in Seq(Saves)
      BY DEF LinkInv, EndpointInv, EndpointTypeOK
    <2>2. ~(1 \in DOMAIN saves /\ 2 \in DOMAIN saves)
      BY DEF SavedInTurn, OnePush, Single, SavedIsPushed
    <2>3. Len(saves) <= 1
      BY <2>1, <2>2
    <2>4. \A i, j \in DOMAIN saves : i = j
      BY <2>1, <2>3
    <2> QED BY <2>4
  <1> QED BY <1>1, LinkInvariant, OnePushInvariant, SavesArePushes, SavesTakeTurns, PTL

-----------------------------------------------------------------------------
(* Sender and Receiver in step.  A valid schedule is being pushed; frames   *)
(* may be lost, repeated and late, but neither end forgets anything.        *)

\* The operations a sender at op has used so far.
Reached(op) ==
    CASE op = "HELLO" -> {"HELLO"}
      [] op = "BEGIN" -> {"HELLO", "BEGIN"}
      [] op = "DATA" -> {"HELLO", "BEGIN", "DATA"}
      [] op = "COMMIT" -> Stages

\* A request of s that may be in flight, the current one or an older one.
RequestFits(s, f) ==
    /\ f.op \in Reached(s.current.op) /\ f.id = s.id /\ FrameOf(f, s.bytes)
    /\ f.op \in {"HELLO", "COMMIT"} => f.payload = <<>> /\ f.value = 0
    /\ f.op = "DATA" =>
          /\ f.payload # <<>>
          /\ End(f) <= s.offset \/ (f.value = s.offset /\ End(f) = s.sentEnd)

SenderFits(s) ==
    /\ SenderOK(s) /\ RequestFits(s, s.current)
    /\ s.current.op = "DATA" => s.offset < s.sentEnd
    /\ s.current.op = "COMMIT" => s.offset = Len(s.bytes)

HoldsPart(t, s) ==
    /\ t.id = s.id /\ t.size = Len(s.bytes) /\ t.crc = Crc32(s.bytes)
    /\ Len(t.bytes) <= Len(s.bytes)
    /\ t.bytes = SubSeq(s.bytes, 1, Len(t.bytes))

\* The receiver holds what was acknowledged, or one chunk more.
ReceiverFits(s, r) ==
    /\ ReceiverOK(r) /\ \A t \in r.transfer : HoldsPart(t, s)
    /\ s.current.op = "HELLO" => r.transfer = {}
    /\ s.current.op = "BEGIN" => \A t \in r.transfer : t.bytes = <<>>
    /\ s.current.op = "DATA" =>
          r.transfer # {} /\ Held(r) \in {s.offset, s.sentEnd}
    /\ s.current.op = "COMMIT" /\ r.committed = {} =>
          r.transfer # {} /\ Held(r) = Len(s.bytes)
    /\ r.committed # {} =>
          /\ s.current.op = "COMMIT" /\ r.transfer = {}
          /\ \A c \in r.committed : c.id = s.id

\* An answer that may be in flight: one to the current request agrees to it.
AnswerFits(s, r, a) ==
    /\ a.op \in Reached(s.current.op) /\ a.payload = <<>>
    /\ a.op = s.current.op =>
          /\ a.status = "Ok"
          /\ a.op = "HELLO" => a.value = ScheduleMax
          /\ a.op = "BEGIN" => a.value = 0 /\ r.transfer # {}
          /\ a.op = "DATA" =>
                a.value <= s.offset \/ (a.value = s.sentEnd /\ Held(r) = s.sentEnd)

\* s the sender, r the receiver, A the answers and F the requests in flight.
InStep(s, r, A, F) ==
    /\ SenderFits(s) /\ ReceiverFits(s, r)
    /\ \A f \in F : RequestFits(s, f)
    /\ \A a \in A : AnswerFits(s, r, a)

LEMMA ReachedOps ==
    /\ Reached("HELLO") = {"HELLO"}
    /\ Reached("BEGIN") = {"HELLO", "BEGIN"}
    /\ Reached("DATA") = {"HELLO", "BEGIN", "DATA"}
    /\ Reached("COMMIT") = {"HELLO", "BEGIN", "DATA", "COMMIT"}
  BY DEF Reached, Stages

LEMMA FewerInStep ==
    ASSUME NEW s, NEW r, NEW A, NEW F, InStep(s, r, A, F),
           NEW B \in SUBSET A, NEW G \in SUBSET F
    PROVE  InStep(s, r, B, G)
  BY DEF InStep

\* The facts about a sender that arithmetic needs.
LEMMA SenderFacts ==
    ASSUME NEW s, SenderOK(s)
    PROVE  /\ s \in Senders /\ s.id \in Ids /\ s.bytes \in Schedules
           /\ s.bytes \in Seq(Byte) /\ Len(s.bytes) \in 1..ScheduleMax
           /\ s.offset \in 0..Len(s.bytes) /\ s.sentEnd \in 0..Len(s.bytes)
           /\ s.current \in Frames /\ s.current.op \in Stages
           /\ s.current.id = s.id
  BY ScheduleIsSeq DEF SenderOK, Senders

LEMMA TheHeld ==
    ASSUME NEW r, ReceiverOK(r), NEW t \in r.transfer
    PROVE  /\ The(r.transfer) = t /\ r.transfer = {t} /\ Held(r) = Len(t.bytes)
           /\ t \in Transfers /\ Len(t.bytes) \in Nat
  BY TheElement DEF ReceiverOK, Receivers, Transfers, Held, Single

\* What an answer of apply does to a pair in step: at o, the receiver is o's and
\* the answer to f joins those in flight.
StillInStep(s, f, o) ==
    /\ ReceiverFits(s, o.receiver)
    /\ AnswerFits(s, o.receiver, Response(f, o.status, o.value))

\* The receiver is as before, and the answer to f is not one s waits for or fits.
LEMMA AnswerOnly ==
    ASSUME NEW s, NEW r, ReceiverFits(s, r), NEW f, RequestFits(s, f),
           NEW st, NEW value,
           f.op = s.current.op =>
              /\ st = "Ok"
              /\ f.op = "HELLO" => value = ScheduleMax
              /\ f.op = "BEGIN" => value = 0 /\ r.transfer # {}
              /\ f.op = "DATA" =>
                    value <= s.offset \/ (value = s.sentEnd /\ Held(r) = s.sentEnd)
    PROVE  StillInStep(s, f, Outcome(r, st, value))
  <1> DEFINE o == Outcome(r, st, value)
             a == Response(f, o.status, o.value)
  <1>1. o.receiver = r /\ o.status = st /\ o.value = value
    BY DEF Outcome
  <1>2. a.op = f.op /\ a.status = st /\ a.value = value /\ a.payload = <<>>
    BY <1>1 DEF Response
  <1> HIDE DEF o, a
  <1>3. AnswerFits(s, r, a)
    BY <1>2 DEF AnswerFits, RequestFits
  <1> QED BY <1>1, <1>3 DEF StillInStep, o, a

LEMMA HelloInStep ==
    ASSUME NEW s, NEW r, SenderFits(s), ReceiverFits(s, r),
           NEW f \in Frames, RequestFits(s, f), f.op = "HELLO"
    PROVE  StillInStep(s, f, ApplyHello(r, f))
  <1>1. ApplyHello(r, f) = Outcome(r, "Ok", ScheduleMax)
    BY DEF RequestFits, ApplyHello
  <1> QED BY <1>1, AnswerOnly

LEMMA BeginInStep ==
    ASSUME NEW s, NEW r, SenderFits(s), ReceiverFits(s, r),
           NEW f \in Frames, RequestFits(s, f), f.op = "BEGIN"
    PROVE  StillInStep(s, f, ApplyBegin(r, f))
  <1> DEFINE opened == [id |-> f.id, size |-> f.value, crc |-> f.payload,
                        bytes |-> <<>>]
             q == [r EXCEPT !.transfer = {opened}]
  <1>0. SenderOK(s) /\ ReceiverOK(r)
    BY DEF SenderFits, ReceiverFits
  <1>1. /\ f.id = s.id /\ f.id # 0 /\ f.value = Len(s.bytes)
        /\ f.payload = Crc32(s.bytes) /\ Len(f.payload) = 4 /\ ~Oversize(f)
    <2>1. \A c \in [1..4 -> Byte] : Len(c) = 4
      OBVIOUS
    <2>2. Len(Crc32(s.bytes)) = 4
      BY <1>0, <2>1, SenderFacts, CrcAssumption
    <2> QED BY <1>0, <2>2, SenderFacts DEF RequestFits, FrameOf, Oversize, Ids
  <1>2. s.current.op \in {"BEGIN", "DATA", "COMMIT"}
    BY <1>0, SenderFacts, ReachedOps DEF RequestFits, Stages
  <1>3. ASSUME NEW t \in r.transfer
        PROVE  StillInStep(s, f, ApplyBegin(r, f))
    <2>1. /\ t.id = f.id /\ t.size = f.value /\ t.crc = f.payload
          /\ r.transfer = {t} /\ Held(r) = Len(t.bytes)
      BY <1>0, <1>1, <1>3, TheHeld DEF ReceiverFits, HoldsPart
    <2>2. RepeatedBegin(r, f)
      BY <2>1 DEF RepeatedBegin, Addressed
    <2>3. ApplyBegin(r, f) = Outcome(r, "Ok", Held(r))
      BY <1>1, <2>1, <2>2 DEF ApplyBegin
    <2>4. s.current.op = "BEGIN" => Held(r) = 0
      BY <2>1 DEF ReceiverFits
    <2> QED BY <1>3, <2>3, <2>4, AnswerOnly
  <1>4. CASE r.transfer = {} /\ r.committed = {}
    <2>1. s.current.op = "BEGIN"
      BY <1>2, <1>4 DEF ReceiverFits
    <2>2. Opens(r, f) /\ ~RepeatedBegin(r, f)
      BY <1>4 DEF Opens, Committed, RepeatedBegin, Addressed
    <2>3. ApplyBegin(r, f) = Outcome(q, "Ok", 0)
      BY <1>1, <1>4, <2>2 DEF ApplyBegin
    <2>4. opened \in Transfers /\ Len(opened.bytes) <= opened.size
      <3>1. /\ f.id \in Ids /\ f.value \in 1..ScheduleMax
            /\ f.payload \in Seq(Byte) /\ <<>> \in Seq(Byte)
        BY <1>0, <1>1, SenderFacts DEF Frames
      <3> QED BY <3>1 DEF Transfers
    <2>5. ReceiverOK(q)
      BY <1>0, <2>4, PutOK
    <2>6. q.transfer = {opened} /\ q.committed = {}
      BY <1>0, <1>4 DEF ReceiverOK, Receivers
    <2>7. HoldsPart(opened, s) /\ opened.bytes = <<>>
      <3>1. /\ opened.id = s.id /\ opened.size = Len(s.bytes)
            /\ opened.crc = Crc32(s.bytes) /\ opened.bytes = <<>>
            /\ Len(opened.bytes) = 0
        BY <1>1
      <3>2. SubSeq(s.bytes, 1, 0) = <<>> /\ 0 <= Len(s.bytes)
        BY <1>0, SenderFacts
      <3> HIDE DEF opened
      <3> QED BY <3>1, <3>2 DEF HoldsPart
    <2> HIDE DEF opened, q
    <2>8. ReceiverFits(s, q)
      BY <2>1, <2>5, <2>6, <2>7 DEF ReceiverFits
    <2>9. q.transfer # {}
      BY <2>6
    <2> QED BY <2>3, <2>8, <2>9, AnswerOnly
  <1>5. CASE r.transfer = {} /\ r.committed # {}
    <2>1. s.current.op = "COMMIT" /\ Committed(r, f)
      BY <1>1, <1>5 DEF ReceiverFits, Committed
    <2>2. ApplyBegin(r, f) = Outcome(r, "Sequence", 0)
      BY <1>1, <1>5, <2>1 DEF ApplyBegin, Opens, RepeatedBegin, Addressed
    <2> QED BY <2>1, <2>2, AnswerOnly
  <1> QED BY <1>3, <1>4, <1>5

\* A part of a beginning is that part of the whole.
LEMMA PartOfBeginning ==
    ASSUME NEW b \in Seq(Byte), NEW n \in 0..Len(b), NEW v \in 0..n, NEW m \in v..n
    PROVE  SubSeq(SubSeq(b, 1, n), v + 1, m) = SubSeq(b, v + 1, m)
  <1> DEFINE c == SubSeq(b, 1, n)
             d == SubSeq(c, v + 1, m)
             e == SubSeq(b, v + 1, m)
  <1>1. c \in Seq(Byte) /\ Len(c) = n /\ \A i \in 1..n : c[i] = b[i]
    OBVIOUS
  <1>2. e \in Seq(Byte) /\ Len(e) = m - v /\ \A i \in 1..(m - v) : e[i] = b[v + i]
    OBVIOUS
  <1> HIDE DEF c
  <1>3. d \in Seq(Byte) /\ Len(d) = m - v /\ \A i \in 1..(m - v) : d[i] = c[v + i]
    BY <1>1
  <1> HIDE DEF d, e
  <1>4. \A i \in 1..(m - v) : v + i \in 1..n /\ d[i] = e[i]
    BY <1>1, <1>2, <1>3
  <1>5. d = e
    <2> DEFINE k == m - v
    <2>1. d \in Seq(Byte) /\ e \in Seq(Byte) /\ Len(d) = k /\ Len(e) = k
      BY <1>2, <1>3
    <2>2. \A i \in 1..k : d[i] = e[i]
      BY <1>4
    <2> HIDE DEF k
    <2> QED BY <2>1, <2>2
  <1> QED BY <1>5 DEF c, d, e

LEMMA DataInStep ==
    ASSUME NEW s, NEW r, SenderFits(s), ReceiverFits(s, r),
           NEW f \in Frames, RequestFits(s, f), f.op = "DATA"
    PROVE  StillInStep(s, f, ApplyData(r, f))
  <1> DEFINE b == s.bytes
             v == f.value
             d == f.payload
             m == End(f)
  <1>0. SenderOK(s) /\ ReceiverOK(r)
    BY DEF SenderFits, ReceiverFits
  <1>1. /\ f.id = s.id /\ d # <<>> /\ d \in Seq(Byte) /\ v \in Nat
        /\ m = v + Len(d) /\ v < m /\ m \in 1..Len(b) /\ m <= MaxWord
        /\ d = SubSeq(b, v + 1, m)
    <2>1. f.id = s.id /\ d # <<>> /\ d \in Seq(Byte) /\ v \in Nat
      BY SizeIsWord DEF RequestFits, Frames
    <2>2. Len(d) \in Nat /\ Len(d) # 0
      BY <2>1
    <2>3. m = v + Len(d) /\ m <= Len(b) /\ d = SubSeq(b, v + 1, m)
      <3>1. FrameOf(f, s.bytes)
        BY DEF RequestFits
      <3> QED BY <3>1 DEF FrameOf, End
    <2>4. Len(b) \in 1..ScheduleMax
      BY <1>0, SenderFacts
    <2> HIDE DEF b, v, d, m
    <2> DEFINE l == Len(d)
               n == Len(b)
    <2>5. l \in Nat /\ l # 0 /\ v \in Nat /\ m = v + l /\ m <= n /\ n \in 1..ScheduleMax
      BY <2>1, <2>2, <2>3, <2>4
    <2>6. ScheduleMax \in Nat /\ MaxWord \in Nat /\ ScheduleMax <= MaxWord
      BY SizeAssumption
    <2> HIDE DEF l, n
    <2>7. v < m /\ m \in 1..n /\ m <= MaxWord
      BY <2>5, <2>6
    <2> QED BY <2>1, <2>3, <2>7 DEF l, n
  <1>2. m <= s.offset \/ (v = s.offset /\ m = s.sentEnd)
    BY DEF RequestFits
  <1>3. s.current.op \in {"DATA", "COMMIT"}
    BY <1>0, SenderFacts, ReachedOps DEF RequestFits, Stages
  <1>4. CASE r.transfer = {}
    <2>1. s.current.op = "COMMIT"
      BY <1>3, <1>4 DEF ReceiverFits
    <2>2. ApplyData(r, f) = Outcome(r, "Sequence", 0)
      BY <1>1, <1>4 DEF ApplyData, Addressed
    <2> QED BY <2>1, <2>2, AnswerOnly
  <1>5. ASSUME NEW t \in r.transfer
        PROVE  StillInStep(s, f, ApplyData(r, f))
    <2> DEFINE n == Len(t.bytes)
               grown == [t EXCEPT !.bytes = @ \o f.payload]
               q == [r EXCEPT !.transfer = {grown}]
    <2>1. /\ The(r.transfer) = t /\ Held(r) = n /\ t \in Transfers
          /\ t.bytes \in Seq(Byte) /\ HoldsPart(t, s)
      BY <1>0, TheHeld DEF ReceiverFits, Transfers
    <2>1a. /\ n \in 0..Len(b) /\ t.size = Len(b) /\ t.id = f.id
           /\ t.bytes = SubSeq(b, 1, n) /\ b \in Seq(Byte) /\ Len(b) \in Nat
      <3>1. b \in Seq(Byte) /\ Len(b) \in Nat /\ n \in Nat
        BY <1>0, <2>1, SenderFacts
      <3> QED BY <1>1, <2>1, <3>1 DEF HoldsPart
    <2> HIDE DEF b, v, d, m, n
    <2>2. Addressed(r, f) # {} /\ Fits(r, f)
      BY <1>1, <2>1, <2>1a DEF Addressed, Fits, m
    <2>3. CASE s.current.op = "COMMIT"
      <3>1. r.transfer # {} /\ r.committed = {} /\ n = Len(b)
        BY <2>1, <2>3 DEF ReceiverFits, b
      <3>2. v # n
        BY <1>1, <2>1a, <3>1
      <3>3. \E st, value : ApplyData(r, f) = Outcome(r, st, value)
        BY <2>1, <3>2 DEF ApplyData, v
      <3> QED BY <2>3, <3>3, AnswerOnly
    <2>4. ASSUME s.current.op = "DATA"
          PROVE  /\ s.offset < s.sentEnd /\ n \in {s.offset, s.sentEnd}
                 /\ s.offset \in Nat /\ s.sentEnd \in Nat /\ r.committed = {}
      <3>1. s.offset \in Nat /\ s.sentEnd \in Nat
        BY <1>0, SenderFacts
      <3> QED BY <2>1, <2>4, <3>1 DEF SenderFits, ReceiverFits
    <2>5. CASE s.current.op = "DATA" /\ v = n
      <3>1. m = s.sentEnd
        BY <1>1, <1>2, <2>4, <2>5, <2>1a DEF v, m
      <3>2. Len(t.bytes \o d) = m /\ t.bytes \o d = SubSeq(b, 1, m)
        <4>1. n + Len(d) <= Len(b) /\ d = SubSeq(b, n + 1, n + Len(d)) /\ n + Len(d) = m
          BY <1>1, <2>5
        <4>2. /\ Len(t.bytes \o d) = Len(t.bytes) + Len(d)
              /\ t.bytes \o d = SubSeq(b, 1, Len(t.bytes \o d))
          BY <1>1, <2>1, <2>1a, <4>1, JoinParts DEF n
        <4> QED BY <4>1, <4>2 DEF n
      <3>3. t.bytes \o d \in Seq(Byte)
        BY <1>1, <2>1
      <3>4. /\ grown \in Transfers /\ grown.bytes = t.bytes \o d
            /\ grown.id = t.id /\ grown.size = t.size /\ grown.crc = t.crc
        BY <2>1, <3>3 DEF Transfers, d
      <3>5. ApplyData(r, f) = Outcome(q, "Ok", m)
        <4>1. f.payload # <<>> /\ ~(End(f) > MaxWord) /\ f.value = Held(r) /\ The(r.transfer) = t
          <5>1. m \in Nat /\ MaxWord \in Nat /\ ~(m > MaxWord)
            BY <1>1, <2>1a, SizeAssumption
          <5> QED BY <1>1, <2>1, <2>5, <5>1 DEF d, v, m
        <4> QED BY <2>2, <4>1 DEF ApplyData, m
      <3> HIDE DEF grown
      <3>6. HoldsPart(grown, s) /\ Len(grown.bytes) = m /\ m <= grown.size
        BY <1>1, <2>1, <2>1a, <3>2, <3>4 DEF HoldsPart, b
      <3>7. ReceiverOK(q)
        BY <1>0, <3>4, <3>6, PutOK
      <3>8. q.transfer = {grown} /\ q.committed = {}
        BY <1>0, <2>4, <2>5 DEF ReceiverOK, Receivers
      <3> HIDE DEF q
      <3>9. Held(q) = m /\ q.transfer # {}
        BY <3>6, <3>7, <3>8, TheHeld
      <3>10. ReceiverFits(s, q)
        BY <2>5, <3>1, <3>6, <3>7, <3>8, <3>9 DEF ReceiverFits
      <3> QED BY <2>5, <3>1, <3>5, <3>9, <3>10, AnswerOnly
    <2>6. CASE s.current.op = "DATA" /\ v # n
      <3>1. m <= n /\ v < n
        <4>1. /\ s.offset < s.sentEnd /\ n \in {s.offset, s.sentEnd}
              /\ s.offset \in Nat /\ s.sentEnd \in Nat
          BY <2>4, <2>6
        <4>2. m \in Nat /\ v \in Nat /\ v < m
          BY <1>1, <2>1a
        <4>3. m <= n
          <5>1. m <= s.offset \/ (m = s.sentEnd /\ n # s.offset)
            BY <1>2, <2>6
          <5> QED BY <4>1, <4>2, <5>1
        <4>4. n \in Nat
          BY <4>1
        <4> QED BY <4>2, <4>3, <4>4
      <3>2. SubSeq(t.bytes, v + 1, m) = d
        <4>1. v \in 0..n /\ m \in v..n
          BY <1>1, <2>1a, <3>1
        <4> QED BY <1>1, <2>1a, <4>1, PartOfBeginning
      <3>3. RepeatedChunk(r, f)
        BY <2>1, <3>1, <3>2 DEF RepeatedChunk, v, m, d
      <3>4. ApplyData(r, f) = Outcome(r, "Ok", n)
        <4>1. f.payload # <<>> /\ ~(End(f) > MaxWord) /\ f.value # Held(r)
          <5>1. m \in Nat /\ MaxWord \in Nat /\ ~(m > MaxWord)
            BY <1>1, <2>1a, SizeAssumption
          <5> QED BY <1>1, <2>1, <2>6, <5>1 DEF d, v, m
        <4> QED BY <2>1, <2>2, <3>3, <4>1 DEF ApplyData
      <3>5. n <= s.offset \/ (n = s.sentEnd /\ Held(r) = s.sentEnd)
        BY <2>1, <2>4, <2>6
      <3> QED BY <2>6, <3>4, <3>5, AnswerOnly
    <2> QED BY <1>3, <2>3, <2>5, <2>6
  <1> QED BY <1>4, <1>5

\* The wristband saves what it holds: the schedule is valid and no file fails.
LEMMA CommitInStep ==
    ASSUME NEW s, NEW r, SenderFits(s), ReceiverFits(s, r),
           NEW f \in Frames, RequestFits(s, f), f.op = "COMMIT",
           NEW answer,
           \A t \in r.transfer :
               t.bytes = s.bytes => answer.status = "Ok" /\ answer.count \in Word
    PROVE  StillInStep(s, f, ApplyCommit(r, f, answer))
  <1>0. SenderOK(s) /\ ReceiverOK(r)
    BY DEF SenderFits, ReceiverFits
  <1>1. /\ s.current.op = "COMMIT" /\ f.id = s.id
        /\ f.payload = <<>> /\ f.value = 0
    BY <1>0, SenderFacts, ReachedOps DEF RequestFits, Stages
  <1>2. CASE r.committed # {}
    <2>1. Committed(r, f)
      BY <1>1, <1>2 DEF ReceiverFits, Committed
    <2>2. ApplyCommit(r, f, answer) = Outcome(r, "Ok", The(r.committed).count)
      BY <1>1, <2>1 DEF ApplyCommit
    <2> QED BY <1>1, <2>2, AnswerOnly
  <1>3. CASE r.committed = {}
    <2>1. PICK t \in r.transfer : Len(t.bytes) = Len(s.bytes)
      BY <1>0, <1>1, <1>3, TheHeld DEF ReceiverFits
    <2>2. /\ The(r.transfer) = t /\ Held(r) = t.size /\ t.id = f.id
          /\ t.crc = Crc32(s.bytes) /\ t.bytes = SubSeq(s.bytes, 1, Len(s.bytes))
      BY <1>0, <1>1, <2>1, TheHeld DEF ReceiverFits, HoldsPart
    <2>3. t.bytes = s.bytes
      BY <1>0, <2>2, SenderFacts
    <2>4. /\ Addressed(r, f) # {} /\ ~Committed(r, f)
          /\ answer.status = "Ok" /\ answer.count \in Word
      BY <1>3, <2>1, <2>2, <2>3 DEF Addressed, Committed
    <2> DEFINE c == [id |-> f.id, count |-> answer.count]
               q == [transfer |-> {}, committed |-> {c}]
               o == ApplyCommit(r, f, answer)
               a == Response(f, "Ok", answer.count)
    <2>5. o.receiver = q /\ o.status = "Ok" /\ o.value = answer.count
      BY <1>1, <2>2, <2>3, <2>4 DEF ApplyCommit, AfterCommit, Outcome
    <2>6. c \in Commits /\ c.id = s.id
      BY <1>1, <2>4 DEF Commits, Frames
    <2>7. ReceiverOK(q)
      BY <2>6 DEF ReceiverOK, Receivers, Single
    <2>8. q.transfer = {} /\ q.committed = {c}
      OBVIOUS
    <2>9. a.op = f.op /\ a.payload = <<>> /\ a.status = "Ok"
      BY DEF Response
    <2> HIDE DEF q, c, a, o
    <2>10. ReceiverFits(s, q)
      BY <1>1, <2>6, <2>7, <2>8 DEF ReceiverFits
    <2>11. AnswerFits(s, q, a)
      BY <1>1, <2>9 DEF AnswerFits, RequestFits
    <2> QED BY <2>5, <2>10, <2>11 DEF StillInStep, o, a
  <1> QED BY <1>2, <1>3

LEMMA ApplyInStep ==
    ASSUME NEW s, NEW r, SenderFits(s), ReceiverFits(s, r),
           NEW f \in Frames, RequestFits(s, f),
           NEW answer,
           \A t \in r.transfer :
               t.bytes = s.bytes => answer.status = "Ok" /\ answer.count \in Word
    PROVE  StillInStep(s, f, Apply(r, f, answer))
  <1>1. f.op \in {"HELLO", "BEGIN", "DATA", "COMMIT"}
    BY SenderFacts, ReachedOps DEF RequestFits, SenderFits, Stages
  <1>2. CASE f.op = "HELLO"
    BY <1>2, HelloInStep DEF Apply
  <1>3. CASE f.op = "BEGIN"
    BY <1>3, BeginInStep DEF Apply
  <1>4. CASE f.op = "DATA"
    BY <1>4, DataInStep DEF Apply
  <1>5. CASE f.op = "COMMIT"
    BY <1>5, CommitInStep DEF Apply
  <1> QED BY <1>1, <1>2, <1>3, <1>4, <1>5

\* The frame NextData chooses: the next chunk, or COMMIT when all is sent.
LEMMA NextDataFrame ==
    ASSUME NEW s, SenderOK(s)
    PROVE  LET q == NextData(s)
           IN  /\ q.offset = s.offset
               /\ s.offset = Len(s.bytes) =>
                     /\ q.current.op = "COMMIT" /\ q.sentEnd = s.sentEnd
                     /\ q.current.payload = <<>> /\ q.current.value = 0
               /\ s.offset # Len(s.bytes) =>
                     /\ q.current.op = "DATA" /\ q.current.value = s.offset
                     /\ q.current.payload # <<>> /\ End(q.current) = q.sentEnd
                     /\ s.offset < q.sentEnd
  <1> DEFINE end == Smaller(s.offset + ChunkMax, Len(s.bytes))
             chunk == SubSeq(s.bytes, s.offset + 1, end)
             q == NextData(s)
  <1>1. /\ s \in Senders /\ s.bytes \in Seq(Byte) /\ Len(s.bytes) \in Nat
        /\ s.offset \in 0..Len(s.bytes)
    BY SenderFacts
  <1>2. CASE s.offset = Len(s.bytes)
    <2> DEFINE g == Request("COMMIT", s.id, 0, <<>>)
    <2>1. g.op = "COMMIT" /\ g.payload = <<>> /\ g.value = 0
      BY DEF Request
    <2>2. q = [s EXCEPT !.current = g]
      BY <1>2 DEF NextData
    <2> HIDE DEF g, q
    <2>3. q.current = g /\ q.offset = s.offset /\ q.sentEnd = s.sentEnd
      BY <1>1, <2>2 DEF Senders
    <2> QED BY <1>2, <2>1, <2>3 DEF q
  <1>3. CASE s.offset # Len(s.bytes)
    <2>1. end \in Nat /\ s.offset < end /\ end <= Len(s.bytes)
      BY <1>1, <1>3, ChunkAssumption DEF Smaller
    <2>2. Len(chunk) = end - s.offset /\ chunk \in Seq(Byte)
      BY <1>1, <2>1, ChunkOK
    <2> HIDE DEF chunk, end
    <2>3. chunk # <<>> /\ s.offset + Len(chunk) = end
      BY <1>1, <2>1, <2>2
    <2> DEFINE g == Request("DATA", s.id, s.offset, chunk)
    <2>4. g.op = "DATA" /\ g.payload = chunk /\ g.value = s.offset
      BY DEF Request
    <2>5. q = [s EXCEPT !.sentEnd = end, !.current = g]
      BY <1>3 DEF NextData, chunk, end
    <2> HIDE DEF g, q, end
    <2>6. q.current = g /\ q.offset = s.offset /\ q.sentEnd = end
      BY <1>1, <2>5 DEF Senders
    <2>7. End(q.current) = end
      BY <2>3, <2>4, <2>6 DEF End
    <2> QED BY <1>3, <2>1, <2>3, <2>4, <2>6, <2>7 DEF q
  <1> QED BY <1>2, <1>3

\* In step, no answer is taken for an error.
LEMMA NoError ==
    ASSUME NEW s, NEW r, SenderFits(s), NEW a \in Frames, AnswerFits(s, r, a),
           ~Ignored(s, a)
    PROVE  /\ ReplyError(s, a) = "Ok" /\ a.op = s.current.op /\ a.op \in Stages
           /\ a.op = "BEGIN" => a.value = 0 /\ r.transfer # {}
           /\ a.op = "DATA" => a.value = s.sentEnd /\ Held(r) = s.sentEnd
  <1>1. SenderOK(s) /\ a.value \in Nat
    BY SizeIsWord DEF SenderFits, Frames
  <1>2. /\ a.op = s.current.op /\ a.op \in Stages
        /\ a.status = "Ok" /\ a.payload = <<>>
    BY <1>1, SenderFacts DEF Ignored, AnswerFits
  <1>3. a.op = "HELLO" => Len(s.bytes) <= a.value
    BY <1>1, <1>2, SenderFacts, SizeAssumption DEF AnswerFits
  <1>4. a.op = "BEGIN" => a.value = 0 /\ r.transfer # {}
    BY <1>2 DEF AnswerFits
  <1>5. a.op = "DATA" => a.value = s.sentEnd /\ Held(r) = s.sentEnd
    <2>1. a.op = "DATA" => ~(a.value <= s.offset)
      BY <1>2 DEF Ignored
    <2> QED BY <1>2, <2>1 DEF AnswerFits
  <1>6. ReplyError(s, a) = "Ok"
    <2>1. Len(s.bytes) \in Nat
      BY <1>1, SenderFacts
    <2>2. ~(Len(s.bytes) > a.value) \/ a.op # "HELLO"
      BY <1>1, <1>3, <2>1
    <2>3. ~(a.value > Len(s.bytes)) \/ a.op # "BEGIN"
      BY <1>4, <2>1
    <2>4. a.op # "ABORT"
      BY <1>2 DEF Stages
    <2> DEFINE large == a.op = "HELLO" /\ Len(s.bytes) > a.value
               more == a.op = "BEGIN" /\ a.value > Len(s.bytes)
               other == a.op = "DATA" /\ a.value # s.sentEnd
               abort == a.op = "ABORT"
    <2>5. ~large /\ ~more /\ ~other /\ ~abort
      BY <1>5, <2>2, <2>3, <2>4
    <2>6. ReplyError(s, a) = CASE large -> "TooLarge" [] more -> "Sequence"
                               [] other -> "Sequence" [] abort -> "Invalid"
                               [] OTHER -> "Ok"
      BY <1>2 DEF ReplyError
    <2> HIDE DEF large, more, other, abort
    <2> QED BY <2>5, <2>6
  <1> QED BY <1>2, <1>4, <1>5, <1>6

\* q is a sender one acknowledgement after s.
Follows(s, q) ==
    /\ SenderOK(s) /\ SenderOK(q) /\ q.id = s.id /\ q.bytes = s.bytes
    /\ \/ s.current.op = "HELLO" /\ q.current.op = "BEGIN"
       \/ s.current.op = "BEGIN" /\ q.current.op = "DATA"
       \/ /\ s.current.op = "DATA" /\ q.current.op \in {"DATA", "COMMIT"}
          /\ s.offset < s.sentEnd /\ q.offset = s.sentEnd

\* What was in flight for s is in place for the sender that follows it.
LEMMA OlderFits ==
    ASSUME NEW s, NEW q, Follows(s, q)
    PROVE  /\ \A f \in Frames : RequestFits(s, f) => RequestFits(q, f)
           /\ \A r : \A a \in Frames : AnswerFits(s, r, a) => AnswerFits(q, r, a)
  <1>1. /\ s.offset \in Nat /\ s.sentEnd \in Nat /\ q.offset \in Nat
        /\ q.id = s.id /\ q.bytes = s.bytes
    BY SenderFacts DEF Follows
  <1>2. /\ Reached(s.current.op) \subseteq Reached(q.current.op)
        /\ "DATA" \in Reached(s.current.op) => s.current.op = "DATA"
        /\ q.current.op \in Reached(s.current.op) => s.current.op = "DATA" /\ q.current.op = "DATA"
    BY ReachedOps DEF Follows
  <1>3. s.current.op = "DATA" => s.offset < s.sentEnd /\ q.offset = s.sentEnd
    BY DEF Follows
  <1>4. ASSUME NEW f \in Frames, RequestFits(s, f)
        PROVE  RequestFits(q, f)
    <2>1. End(f) \in Int
      <3>1. f.value \in Nat /\ f.payload \in Seq(Byte)
        BY SizeIsWord DEF Frames
      <3>2. Len(f.payload) \in Nat
        BY <3>1
      <3> QED BY <3>1, <3>2 DEF End
    <2>2. f.op = "DATA" => End(f) <= q.offset
      BY <1>1, <1>2, <1>3, <1>4, <2>1 DEF RequestFits
    <2> QED BY <1>1, <1>2, <1>4, <2>2 DEF RequestFits
  <1>5. ASSUME NEW r, NEW a \in Frames, AnswerFits(s, r, a)
        PROVE  AnswerFits(q, r, a)
    <2>1. a.value \in Nat
      BY SizeIsWord DEF Frames
    <2>2. a.op = q.current.op => a.op = "DATA" /\ s.current.op = "DATA"
      BY <1>2, <1>5 DEF AnswerFits
    <2>3. a.op = q.current.op => a.status = "Ok" /\ a.value <= q.offset
      BY <1>1, <1>3, <1>5, <2>1, <2>2 DEF AnswerFits
    <2> QED BY <1>2, <1>5, <2>2, <2>3 DEF AnswerFits
  <1> QED BY <1>4, <1>5

LEMMA AdvanceInStep ==
    ASSUME NEW s, NEW r, NEW A \in SUBSET Frames, NEW F \in SUBSET Frames,
           InStep(s, r, A, F),
           NEW a \in A, Advances(s, a, Advance(s, a))
    PROVE  InStep(Advance(s, a), r, A, F)
  <1> DEFINE q == Advance(s, a)
  <1>1. /\ SenderFits(s) /\ SenderOK(s) /\ ReceiverFits(s, r) /\ ReceiverOK(r)
        /\ ~Ignored(s, a) /\ a.op # "COMMIT"
    BY DEF InStep, Advances, SenderFits, ReceiverFits
  <1>2. /\ ReplyError(s, a) = "Ok" /\ a.op = s.current.op /\ a.op \in Stages
        /\ a.op = "BEGIN" => a.value = 0 /\ r.transfer # {}
        /\ a.op = "DATA" => a.value = s.sentEnd /\ Held(r) = s.sentEnd
    BY <1>1, NoError DEF InStep
  <1>3. SenderOK(q) /\ q.id = s.id /\ q.bytes = s.bytes
    BY <1>1, <1>2, AdvanceOK
  <1>4. \A t \in r.transfer : HoldsPart(t, q)
    BY <1>1, <1>3 DEF ReceiverFits, HoldsPart
  <1>5. Len(s.bytes) \in 1..ScheduleMax /\ s.offset \in Nat /\ s.sentEnd \in 0..Len(s.bytes)
    BY <1>1, SenderFacts
  <1>6. SUFFICES Follows(s, q) /\ SenderFits(q) /\ ReceiverFits(q, r)
    BY OlderFits DEF InStep
  <1>7. CASE a.op = "HELLO"
    <2> DEFINE g == Request("BEGIN", s.id, Len(s.bytes), Crc32(s.bytes))
    <2>1. /\ g.op = "BEGIN" /\ g.id = s.id /\ g.value = Len(s.bytes)
          /\ g.payload = Crc32(s.bytes)
      BY DEF Request
    <2>2. q = [s EXCEPT !.current = g]
      BY <1>7 DEF Advance
    <2> HIDE DEF q, g
    <2>3. q.current = g
      BY <1>1, <2>2 DEF SenderOK, Senders
    <2>4. SenderFits(q)
      BY <1>3, <2>1, <2>3, ReachedOps DEF SenderFits, RequestFits, FrameOf
    <2>5. Follows(s, q)
      BY <1>1, <1>2, <1>3, <1>7, <2>1, <2>3 DEF Follows
    <2>6. r.transfer = {} /\ r.committed = {}
      BY <1>1, <1>2, <1>7 DEF ReceiverFits
    <2>7. ReceiverFits(q, r)
      BY <1>1, <2>1, <2>3, <2>6 DEF ReceiverFits
    <2> QED BY <2>4, <2>5, <2>7 DEF q
  <1>8. ASSUME NEW n \in 0..Len(s.bytes), q = NextData([s EXCEPT !.offset = n]),
               r.transfer # {}, Held(r) = n, r.committed = {},
               \/ s.current.op = "BEGIN" /\ n # Len(s.bytes)
               \/ /\ s.current.op = "DATA" /\ s.offset < s.sentEnd
                  /\ n = s.sentEnd
        PROVE  Follows(s, q) /\ SenderFits(q) /\ ReceiverFits(q, r)
    <2> DEFINE m == [s EXCEPT !.offset = n]
    <2>1. SenderOK(m) /\ m.bytes = s.bytes /\ m.id = s.id
      BY <1>1, OffsetOK
    <2>2. m.offset = n
      BY <1>1 DEF SenderOK, Senders
    <2>3. q = NextData(m)
      BY <1>8
    <2> HIDE DEF m, q
    <2>4. /\ q.offset = n
          /\ n = Len(s.bytes) => /\ q.current.op = "COMMIT"
                                 /\ q.current.payload = <<>> /\ q.current.value = 0
          /\ n # Len(s.bytes) => /\ q.current.op = "DATA" /\ q.current.value = n
                                 /\ q.current.payload # <<>>
                                 /\ End(q.current) = q.sentEnd /\ n < q.sentEnd
      BY <2>1, <2>2, <2>3, NextDataFrame
    <2>5. q.current.id = q.id /\ FrameOf(q.current, q.bytes)
      BY <1>3 DEF SenderOK
    <2>6. SenderFits(q)
      BY <1>3, <2>4, <2>5, ReachedOps DEF SenderFits, RequestFits
    <2>7. Follows(s, q)
      BY <1>1, <1>3, <1>8, <2>4 DEF Follows
    <2>8. ReceiverFits(q, r)
      BY <1>1, <1>3, <1>4, <1>8, <2>4 DEF ReceiverFits
    <2> QED BY <2>6, <2>7, <2>8
  <1>9. CASE a.op = "BEGIN"
    <2>1. q = NextData([s EXCEPT !.offset = 0]) /\ r.transfer # {}
      BY <1>2, <1>9 DEF Advance
    <2>2. Held(r) = 0 /\ r.committed = {}
      <3>1. PICK t \in r.transfer : TRUE
        BY <2>1
      <3>2. t.bytes = <<>>
        BY <1>1, <1>2, <1>9, <3>1 DEF ReceiverFits
      <3> QED BY <1>1, <1>2, <1>9, <3>1, <3>2, TheHeld DEF ReceiverFits
    <2> HIDE DEF q
    <2> QED BY <1>2, <1>5, <1>8, <1>9, <2>1, <2>2
  <1>10. CASE a.op = "DATA"
    <2>1. q = NextData([s EXCEPT !.offset = s.sentEnd])
      BY <1>10 DEF Advance
    <2>2. /\ r.transfer # {} /\ Held(r) = s.sentEnd /\ r.committed = {}
          /\ s.offset < s.sentEnd
      BY <1>1, <1>2, <1>10 DEF ReceiverFits, SenderFits
    <2> HIDE DEF q
    <2> QED BY <1>2, <1>5, <1>8, <1>10, <2>1, <2>2
  <1> QED BY <1>1, <1>2, <1>7, <1>9, <1>10 DEF Stages
-----------------------------------------------------------------------------
(* The two ends stay in step, so no push is refused because of a retry      *)

\* Only a COMMIT ends the transfer of the push in step.
LEMMA StaysOpen ==
    ASSUME NEW r, NEW f, NEW answer, r \in Receivers, r.transfer # {},
           f.op \in {"HELLO", "BEGIN", "DATA"}
    PROVE  Apply(r, f, answer).receiver.transfer # {}
  <1>1. CASE f.op = "HELLO"
    BY <1>1 DEF Apply, ApplyHello, Outcome
  <1>2. CASE f.op = "BEGIN"
    <2> DEFINE opened == [id |-> f.id, size |-> f.value, crc |-> f.payload,
                          bytes |-> <<>>]
               q == [r EXCEPT !.transfer = {opened}]
    <2>1. \E x \in {r, q} : \E st, value :
              ApplyBegin(r, f) = Outcome(x, st, value)
      BY DEF ApplyBegin
    <2>2. q.transfer # {}
      BY DEF Receivers
    <2> HIDE DEF q
    <2> QED BY <1>2, <2>1, <2>2 DEF Apply, Outcome
  <1>3. CASE f.op = "DATA"
    <2> DEFINE grown == [The(r.transfer) EXCEPT !.bytes = @ \o f.payload]
               q == [r EXCEPT !.transfer = {grown}]
    <2>1. \E x \in {r, q} : \E st, value :
              ApplyData(r, f) = Outcome(x, st, value)
      BY DEF ApplyData
    <2>2. q.transfer # {}
      BY DEF Receivers
    <2> HIDE DEF q
    <2> QED BY <1>3, <2>1, <2>2 DEF Apply, Outcome
  <1> QED BY <1>1, <1>2, <1>3

\* Answers in flight stay right while the receiver's transfer grows.
LEMMA OlderAnswers ==
    ASSUME NEW s, NEW r, NEW q, SenderFits(s), ReceiverFits(s, r), ReceiverFits(s, q),
           s.current.op \in {"BEGIN", "DATA"} /\ r.transfer # {} => q.transfer # {},
           \A t \in r.transfer, u \in q.transfer : Len(u.bytes) >= Len(t.bytes),
           NEW a \in Frames, AnswerFits(s, r, a)
    PROVE  AnswerFits(s, q, a)
  <1>1. SenderOK(s) /\ ReceiverOK(r) /\ ReceiverOK(q)
    BY DEF SenderFits, ReceiverFits
  <1>2. s.offset \in Nat /\ s.sentEnd \in Nat
    BY <1>1, SenderFacts
  <1>3. ASSUME s.current.op = "DATA", Held(r) = s.sentEnd
        PROVE  Held(q) = s.sentEnd
    <2>1. /\ r.transfer # {} /\ q.transfer # {} /\ s.offset < s.sentEnd
          /\ Held(q) \in {s.offset, s.sentEnd}
      BY <1>3 DEF SenderFits, ReceiverFits
    <2>2. PICK t \in r.transfer, u \in q.transfer : TRUE
      BY <2>1
    <2>3. Held(r) = Len(t.bytes) /\ Held(q) = Len(u.bytes) /\ Len(u.bytes) >= Len(t.bytes)
      BY <1>1, <2>2, TheHeld
    <2> QED BY <1>2, <1>3, <2>1, <2>3
  <1> QED BY <1>3 DEF AnswerFits

LEMMA MessageInStep ==
    ASSUME EndpointInv, NEW s, NEW F \in SUBSET Frames,
           InStep(s, receiver, reply \cup sent, F), ValidImport(s.bytes),
           NEW f \in F, NEW d \in {"Queued", "Full"}, OnMessage(f, "Ok", d)
    PROVE  InStep(s, receiver', reply' \cup sent', F)
  <1> DEFINE answer == Commit("Ok")
             o == Apply(receiver, f, answer)
             a == Response(f, o.status, o.value)
  <1>1. /\ SenderFits(s) /\ ReceiverFits(s, receiver) /\ RequestFits(s, f)
        /\ \A g \in F : RequestFits(s, g)
        /\ \A b \in reply \cup sent : AnswerFits(s, receiver, b)
    BY DEF InStep
  <1>2. SenderOK(s) /\ ReceiverOK(receiver) /\ receiver \in Receivers
    BY <1>1 DEF SenderFits, ReceiverFits, ReceiverOK
  <1>3. \A t \in receiver.transfer :
            t.bytes = s.bytes => answer.status = "Ok" /\ answer.count \in Word
    <2> SUFFICES ASSUME NEW t \in receiver.transfer, t.bytes = s.bytes
                 PROVE  answer.status = "Ok" /\ answer.count \in Word
      OBVIOUS
    <2>1. The(receiver.transfer).bytes = s.bytes /\ s.bytes \in Schedules
      BY <1>2, TheHeld, SenderFacts
    <2> QED BY <2>1, CountAssumption DEF Commit
  <1>4. OutcomeOK(receiver, f, answer, o)
    BY <1>2, ApplyOK, CommitAnswer DEF OnMessage, Handles
  <1> HIDE DEF answer
  <1>5. ReceiverFits(s, o.receiver) /\ AnswerFits(s, o.receiver, a)
    BY <1>1, <1>3, ApplyInStep DEF StillInStep
  <1>6. /\ s.current.op \in {"BEGIN", "DATA"} /\ receiver.transfer # {}
              => o.receiver.transfer # {}
        /\ \A t \in receiver.transfer, u \in o.receiver.transfer :
               Len(u.bytes) >= Len(t.bytes)
    <2>1. s.current.op \in {"BEGIN", "DATA"} => f.op \in {"HELLO", "BEGIN", "DATA"}
      BY <1>1, ReachedOps DEF RequestFits
    <2> QED BY <1>2, <1>4, <2>1, StaysOpen DEF OutcomeOK
  <1>7. Flush(o.receiver, {a}, d)
    BY DEF OnMessage, answer
  <1> HIDE DEF o, a
  <1>8. receiver' = o.receiver /\ reply' \cup sent' \subseteq {a} \cup sent
    BY <1>7 DEF Flush
  <1>9. sent \subseteq Frames
    BY DEF EndpointInv, EndpointTypeOK
  <1>10. \A b \in sent : AnswerFits(s, o.receiver, b)
    BY <1>1, <1>5, <1>6, <1>9, OlderAnswers
  <1> QED BY <1>1, <1>5, <1>8, <1>10 DEF InStep

\* While nothing makes it forget, the Endpoint answers requests or keeps still.
LEMMA StillOrAnswers ==
    ASSUME struck' \cap Forgetful = {}, ~up => receiver = ReceiverDefault, [Next]_vars
    PROVE  \/ /\ receiver' = receiver /\ reply' \cup sent' \subseteq reply \cup sent
              /\ up => up'
           \/ \E u \in sends : \E d \in {"Queued", "Full"} : OnMessage(u.frame, "Ok", d)
  <1>1. \A kind \in Forgetful : ~Fault(kind)
    BY DEF Fault
  <1>2. "flush" \in Forgetful /\ "io" \in Forgetful /\ "idle" \in Forgetful
        /\ "clear" \in Forgetful /\ "reboot" \in Forgetful
    BY DEF Forgetful
  <1>3. \A d, io : Deliverable(d, io) => d \in {"Queued", "Full"} /\ io = "Ok"
    BY <1>1, <1>2 DEF Deliverable
  <1>4. CASE UNCHANGED endpointVars
    BY <1>4 DEF endpointVars
  <1>5. ASSUME NEW u \in sends, RequestArrives(u)
        PROVE  \E d \in {"Queued", "Full"} : OnMessage(u.frame, "Ok", d)
    BY <1>3, <1>5 DEF RequestArrives
  <1>6. CASE \E r \in sent : Arrive(r)
    BY <1>6 DEF Arrive
  <1>7. CASE Started \/ UserClears
    BY <1>7 DEF Started, Start, UserClears, ClearSchedule
  <1>8. CASE Flushed
    BY <1>3, <1>8 DEF Flushed, Tick, Flush
  <1>9. ~Rebooted /\ ~MinutePassed /\ ~UserAborts
    BY <1>1, <1>2 DEF Rebooted, MinutePassed, UserAborts
  <1> QED BY <1>4, <1>5, <1>6, <1>7, <1>8, <1>9
      DEF Next, vars, Push, PushRefused, Listened, TimerEvent, Timeout,
          PluginRestarts, SendError, RequestLost, AnswerArrives, AnswerLost

\* The requests in flight.
Requests == {s.frame : s \in sends}

\* Only a schedule that save_schedule refuses is reported rejected.
OnlyInvalidRejected ==
    \A r \in reports, p \in pushes :
        r.id = p.id /\ r.ending = "rejected" => ~ValidImport(p.bytes)

\* A valid schedule that is being pushed keeps both ends in step.
HarmlessInv ==
    /\ \A p \in pending :
          ValidImport(p.sender.bytes) =>
              InStep(p.sender, receiver, reply \cup sent, Requests)
    /\ ~up => receiver = ReceiverDefault
    /\ OnlyInvalidRejected

\* A sender just made is in step with a wristband that met no push.
LEMMA NewInStep ==
    ASSUME NEW s, SenderOK(s), s = NewSender(s.id, s.bytes),
           ReceiverOK(receiver), receiver.transfer = {}, receiver.committed = {}
    PROVE  InStep(s, receiver, {}, {})
  <1>1. /\ s.current.op = "HELLO" /\ s.current.payload = <<>>
        /\ s.current.value = 0 /\ s.current.id = s.id
    <2> DEFINE f == Request("HELLO", s.id, 0, <<>>)
               q == NewSender(s.id, s.bytes)
    <2>1. f.op = "HELLO" /\ f.payload = <<>> /\ f.value = 0 /\ f.id = s.id
      BY DEF Request
    <2>2. q.current = f
      BY DEF NewSender
    <2> HIDE DEF f, q
    <2>3. s = q
      BY DEF q
    <2> QED BY <2>1, <2>2, <2>3
  <1>2. SenderFits(s)
    BY <1>1, ReachedOps DEF SenderFits, RequestFits, SenderOK
  <1>3. ReceiverFits(s, receiver)
    BY <1>1 DEF ReceiverFits
  <1> QED BY <1>2, <1>3 DEF InStep

\* A transmission carries the current frame, whatever its number.
LEMMA TransmitFits ==
    ASSUME NEW p, p \in Pendings, SenderFits(p.sender), NEW b \in BOOLEAN
    PROVE  RequestFits(p.sender, Transmit(p, b).frame)
  <1> DEFINE g == [p.sender.current EXCEPT !.copy = p.epoch]
  <1>1. p.sender.current \in Frames /\ RequestFits(p.sender, p.sender.current)
    BY DEF SenderFits, Pendings, Senders
  <1>2. /\ g.op = p.sender.current.op /\ g.id = p.sender.current.id
        /\ g.value = p.sender.current.value /\ g.payload = p.sender.current.payload
    BY <1>1 DEF Frames
  <1>3. Transmit(p, b).frame = g
    BY DEF Transmit
  <1> HIDE DEF g
  <1> QED BY <1>1, <1>2, <1>3 DEF RequestFits, FrameOf, End

\* The plugin's part of a step: the sender advances, its request is sent.
LEMMA PluginInStep ==
    ASSUME LinkInv, PushInv, DeliveryInv, HarmlessInv, OnePush', PluginStep,
           NEW q \in pending', ValidImport(q.sender.bytes)
    PROVE  InStep(q.sender, receiver, reply \cup sent, Requests \cup Requests')
  <1> DEFINE A == reply \cup sent
  <1>1. PluginInv /\ A \in SUBSET Frames /\ Requests \in SUBSET Frames
    BY SendFrame DEF LinkInv, EndpointInv, EndpointTypeOK, Requests
  <1>2. CASE Keeps
    <2>1. q \in pending /\ Requests \cup Requests' = Requests
      BY <1>2 DEF Keeps, SendsKept, Requests
    <2> QED BY <2>1 DEF HarmlessInv
  <1>3. ASSUME NEW p \in pending, NEW b \in BOOLEAN, Arms(p, q),
               sends' = sends \cup {Transmit(q, b)}
        PROVE  InStep(q.sender, receiver, A, Requests \cup Requests')
    <2>1. PendingOK(p) /\ PendingOK(q) /\ q.id = p.id
      BY <1>1, <1>3, ThePending DEF Arms
    <2>2. q.sender.bytes = p.sender.bytes
      BY <1>1, <2>1 DEF PendingOK, PluginInv
    <2>3. InStep(p.sender, receiver, A, Requests)
      BY <2>2 DEF HarmlessInv
    <2>4. InStep(q.sender, receiver, A, Requests)
      <3>1. CASE q.sender = p.sender
        BY <2>3, <3>1
      <3>2. ASSUME NEW f \in sent, Advances(p.sender, f, q.sender)
            PROVE  InStep(q.sender, receiver, A, Requests)
        <4>1. q.sender = Advance(p.sender, f) /\ f \in A
          BY <3>2 DEF Advances
        <4> HIDE DEF A
        <4> QED BY <1>1, <2>3, <3>2, <4>1, AdvanceInStep
      <3> QED BY <1>3, <3>1, <3>2 DEF Arms
    <2>5. RequestFits(q.sender, Transmit(q, b).frame)
      BY <2>1, <2>4, TransmitFits DEF InStep, PendingOK
    <2>6. \A g \in Requests' : g \in Requests \/ g = Transmit(q, b).frame
      BY <1>3 DEF Requests
    <2> QED BY <2>4, <2>5, <2>6 DEF InStep
  <1>4. ASSUME Begins(q)
        PROVE  InStep(q.sender, receiver, A, Requests \cup Requests')
    <2>1. pushes = {}
      <3> DEFINE u == [id |-> q.id, bytes |-> q.sender.bytes]
      <3>1. u \in pushes' /\ pushes \subseteq pushes' /\ u.id = q.id
        BY <1>4 DEF Begins
      <3> HIDE DEF u
      <3>2. \A p \in pushes : p = u
        BY <3>1 DEF OnePush, Single
      <3> QED BY <1>4, <3>1, <3>2 DEF Begins
    <2>2. A = {} /\ sends = {} /\ sends' = {}
      BY <1>1, <1>4, <2>1 DEF PushInv, IdsKnown, Known, PluginInv, FrameOfPush, Begins
    <2>3. Requests = {} /\ Requests' = {}
      BY <2>2 DEF Requests
    <2>4. receiver.transfer = {}
      BY <2>1 DEF DeliveryInv, Faithful
    <2>5. receiver.committed = {}
      <3>1. saves \in Seq(Saves)
        BY DEF LinkInv, EndpointInv, EndpointTypeOK
      <3>2. saves = <<>> \/ 1 \in DOMAIN saves
        BY <3>1
      <3>3. saves = <<>>
        BY <2>1, <3>2 DEF DeliveryInv, SavedIsPushed
      <3> QED BY <3>3 DEF LinkInv, EndpointInv, CachedIsLastSave
    <2>6. ReceiverOK(receiver)
      BY ReceiverInv DEF LinkInv
    <2>7. SenderOK(q.sender) /\ q.sender = NewSender(q.sender.id, q.sender.bytes)
      BY <1>4 DEF Begins
    <2>8. InStep(q.sender, receiver, {}, {})
      BY <2>4, <2>5, <2>6, <2>7, NewInStep
    <2> QED BY <2>2, <2>3, <2>8
  <1>5. ASSUME NEW p \in pending, NEW x, Arms(p, x)
        PROVE  x = q
    BY <1>5 DEF Arms
  <1>6. ASSUME NEW x, Begins(x)
        PROVE  x = q
    BY <1>6 DEF Begins
  <1>7. ASSUME NEW p \in pending, Arms(p, q)
        PROVE  \E b \in BOOLEAN : sends' = sends \cup {Transmit(q, b)}
    BY <1>7 DEF Arms
  <1>8. ~Drops /\ \A p \in pending : \A r : ~Ends(p, r)
    BY DEF Drops, Ends
  <1> QED BY <1>2, <1>3, <1>4, <1>5, <1>6, <1>7, <1>8 DEF PluginStep

LEMMA NextRejects ==
    ASSUME LinkInv, PushInv, HarmlessInv, PluginStep
    PROVE  OnlyInvalidRejected'
  <1>0. PluginInv /\ sent \subseteq Frames
    BY DEF LinkInv, EndpointInv, EndpointTypeOK
  <1>1. ASSUME reports' = reports, pushes' = pushes
        PROVE  OnlyInvalidRejected'
    BY <1>1 DEF HarmlessInv, OnlyInvalidRejected
  <1>2. ASSUME NEW q, Begins(q)
        PROVE  OnlyInvalidRejected'
    <2> DEFINE u == [id |-> q.id, bytes |-> q.sender.bytes]
    <2>1. /\ pushes' = pushes \cup {u} /\ u.id = q.id /\ reports' = reports
          /\ \A p \in pushes : p.id # q.id
      BY <1>2 DEF Begins
    <2> HIDE DEF u
    <2>2. \A r \in reports : r.id # u.id
      BY <2>1 DEF PushInv, IdsKnown, Known
    <2> QED BY <2>1, <2>2 DEF HarmlessInv, OnlyInvalidRejected
  <1>3. ASSUME NEW p \in pending, NEW r, Ends(p, r)
        PROVE  OnlyInvalidRejected'
    <2>1. r.ending = "rejected" => ~ValidImport(p.sender.bytes)
      <3> SUFFICES ASSUME r.ending = "rejected", ValidImport(p.sender.bytes)
                   PROVE  FALSE
        OBVIOUS
      <3>1. PICK f \in sent : ~Ignored(p.sender, f) /\ ReplyError(p.sender, f) # "Ok"
        BY <1>3 DEF Ends
      <3>2. SenderFits(p.sender) /\ AnswerFits(p.sender, receiver, f)
        BY DEF HarmlessInv, InStep
      <3> QED BY <1>0, <3>1, <3>2, NoError
    <2>2. \A u \in pushes : u.id = r.id => u.bytes = p.sender.bytes
      <3> DEFINE w == [id |-> p.id, bytes |-> p.sender.bytes]
      <3>1. w \in pushes /\ w.id = r.id /\ w.bytes = p.sender.bytes
        BY <1>0, <1>3, ThePending DEF PendingOK, Ends
      <3> HIDE DEF w
      <3> QED BY <1>0, <3>1 DEF PluginInv
    <2>3. reports' = reports \cup {r} /\ pushes' = pushes
      BY <1>3 DEF Ends
    <2> QED BY <2>1, <2>2, <2>3 DEF HarmlessInv, OnlyInvalidRejected
  <1> QED BY <1>1, <1>2, <1>3 DEF PluginStep, Keeps, Drops, Arms

LEMMA NextHarmless ==
    ASSUME struck' \cap Forgetful = {}, LinkInv, PushInv, DeliveryInv, OnePush',
           HarmlessInv, [Next]_vars
    PROVE  HarmlessInv'
  <1>1. PluginInv /\ EndpointInv /\ PluginStep
    BY NextPluginStep DEF LinkInv, EndpointInv
  <1>2. OnlyInvalidRejected'
    BY <1>1, NextRejects
  <1>3. ~up => receiver = ReceiverDefault
    BY DEF HarmlessInv
  <1> DEFINE still == receiver' = receiver /\ reply' \cup sent' \subseteq reply \cup sent
  <1>4. \/ still /\ (up => up')
        \/ \E u \in sends : \E d \in {"Queued", "Full"} : OnMessage(u.frame, "Ok", d)
    BY <1>3, StillOrAnswers
  <1>5. ~up' => receiver' = ReceiverDefault
    <2>1. \A f, d : OnMessage(f, "Ok", d) => up'
      BY DEF OnMessage
    <2> QED BY <1>3, <1>4, <2>1
  <1>6. ASSUME NEW q \in pending', ValidImport(q.sender.bytes)
        PROVE  InStep(q.sender, receiver', reply' \cup sent', Requests')
    <2> DEFINE F == Requests \cup Requests'
    <2>1. InStep(q.sender, receiver, reply \cup sent, F)
      BY <1>1, <1>6, PluginInStep
    <2>2. CASE still
      BY <2>1, <2>2, FewerInStep
    <2>3. ASSUME NEW u \in sends, NEW d \in {"Queued", "Full"}, OnMessage(u.frame, "Ok", d)
          PROVE  InStep(q.sender, receiver', reply' \cup sent', Requests')
      <3>1. PluginInv'
        BY <1>1, NextPluginInv
      <3>2. F \in SUBSET Frames
        BY <1>1, <3>1 DEF PluginInv, PluginTypeOK, Requests, Sends
      <3>3. u.frame \in F
        BY DEF Requests
      <3> HIDE DEF F
      <3>4. InStep(q.sender, receiver', reply' \cup sent', F)
        BY <1>1, <1>6, <2>1, <2>3, <3>2, <3>3, MessageInStep
      <3> QED BY <3>4, FewerInStep DEF F
    <2> QED BY <1>4, <2>2, <2>3
  <1>7. (\A p \in pending :
            ValidImport(p.sender.bytes) =>
                InStep(p.sender, receiver, reply \cup sent, Requests))'
    BY <1>6
  <1> QED BY <1>2, <1>5, <1>7 DEF HarmlessInv

\* However often frames of a push are lost, sent again, duplicated by a retry or
\* late, and whenever the plugin restarts, the wristband never refuses the push
\* of a valid schedule: repeating a request is harmless (Receiver::apply,
\* Sender::on_reply).  That is so as long as no file or flush fails, the user
\* clears nothing, and the wristband neither restarts nor idles for a minute,
\* each of which makes it forget a transfer that the plugin goes on with; and
\* for one push at a time: a push after one that was abandoned can find the
\* wristband still Busy with that one.
THEOREM RetriesAreHarmless ==
    ASSUME MaxPushes <= 1
    PROVE  Spec => []RetryIsHarmless
  <1>1. Init => HarmlessInv
    BY DEF Init, PluginInit, EndpointInit, HarmlessInv, OnlyInvalidRejected
  <1>2. /\ LinkInv /\ PushInv /\ DeliveryInv /\ OnePush'
        /\ (struck \cap Forgetful = {} => HarmlessInv) /\ [Next]_vars
        => (struck \cap Forgetful = {} => HarmlessInv)'
    <2>1. [Next]_vars /\ struck' \cap Forgetful = {} => struck \cap Forgetful = {}
      BY FaultsStay
    <2> QED BY <2>1, NextHarmless
  <1>3. (struck \cap Forgetful = {} => HarmlessInv) => RetryIsHarmless
    BY DEF HarmlessInv, RetryIsHarmless, OnlyInvalidRejected
  <1> QED BY <1>1, <1>2, <1>3, LinkInvariant, PushInvariant, DeliveryInvariant,
             OnePushInvariant, PTL DEF Spec
=============================================================================
