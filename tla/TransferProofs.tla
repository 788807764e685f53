--------------------------- MODULE TransferProofs ---------------------------
(* What the phone and the wristband achieve together, whatever the network  *)
(* and the two hosts do to their frames, calls and timers.                  *)
EXTENDS Transfer, EndpointProofs

-----------------------------------------------------------------------------
(* The plugin's state, by itself                                           *)

\* A frame that carries part of the schedule carries it as it is.
FrameOf(f, bytes) ==
    /\ f.op = "BEGIN" => f.value = Len(bytes) /\ f.payload = Crc32(bytes)
    /\ f.op = "DATA" =>
          /\ f.value + Len(f.payload) <= Len(bytes)
          /\ f.payload = SubSeq(bytes, f.value + 1, f.value + Len(f.payload))

Stages == {"HELLO", "BEGIN", "DATA", "COMMIT"}

SenderOK(s) ==
    /\ s \in Senders
    /\ s.current.op \in Stages /\ s.current.id = s.id
    /\ FrameOf(s.current, s.bytes)
    /\ s.offset <= Len(s.bytes) /\ s.sentEnd <= Len(s.bytes)

PendingOK(p) ==
    /\ p \in Pendings
    /\ SenderOK(p.sender) /\ p.sender.id = p.id
    /\ [id |-> p.id, bytes |-> p.sender.bytes] \in pushes

\* f is a frame of a push that was begun.
FrameOfPush(f) == \E p \in pushes : p.id = f.id /\ FrameOf(f, p.bytes)

PluginInv ==
    /\ PluginTypeOK
    /\ Single(pending) /\ Single(armed)
    /\ \A p \in pending : PendingOK(p)
    /\ \A s \in sends : FrameOfPush(s.frame)
    /\ \A p, q \in pushes : p.id = q.id => p = q

LEMMA ScheduleIsSeq ==
    ASSUME NEW b \in Schedules
    PROVE  b \in Seq(Byte) /\ Len(b) \in 1..ScheduleMax
  <1>1. PICK n \in 1..ScheduleMax : b \in [1..n -> Byte]
    BY DEF Schedules
  <1>2. n \in Nat /\ b \in Seq(Byte) /\ Len(b) = n
    BY <1>1, SizeAssumption
  <1> QED BY <1>2

LEMMA SizeIsWord == ScheduleMax \in Nat \ {0} /\ 0..ScheduleMax \subseteq Word /\ Word \subseteq Nat
  BY SizeAssumption DEF Word

LEMMA CrcIsSeq == \A b \in Schedules : Crc32(b) \in Seq(Byte)
  <1>1. \A n \in Nat : \A c \in [1..n -> Byte] : c \in Seq(Byte)
    OBVIOUS
  <1> QED BY <1>1, CrcAssumption

LEMMA RequestOK ==
    ASSUME NEW op \in Ops, NEW id \in Ids, NEW value \in Word, NEW payload \in Seq(Byte)
    PROVE  Request(op, id, value, payload) \in Frames
  <1>1. id \in Word
    BY SizeAssumption DEF Ids, Word
  <1> QED BY <1>1 DEF Request, Frames, Statuses

\* A request that carries neither value nor payload.
LEMMA PlainRequestOK ==
    ASSUME NEW op \in Ops, NEW id \in Ids
    PROVE  Request(op, id, 0, <<>>) \in Frames
  <1>1. 0 \in Word /\ id \in Word /\ <<>> \in Seq(Byte)
    BY SizeAssumption DEF Ids, Word
  <1> QED BY <1>1 DEF Request, Frames, Statuses

LEMMA NewSenderOK ==
    ASSUME NEW id \in Ids, NEW b \in Schedules
    PROVE  SenderOK(NewSender(id, b)) /\ NewSender(id, b).id = id /\ NewSender(id, b).bytes = b
  <1>1. "HELLO" \in Ops /\ Request("HELLO", id, 0, <<>>) \in Frames
    BY PlainRequestOK DEF Ops
  <1>2. Len(b) \in 1..ScheduleMax /\ 0 \in 0..ScheduleMax
    BY ScheduleIsSeq, SizeIsWord
  <1>3. Request("HELLO", id, 0, <<>>).op = "HELLO" /\ Request("HELLO", id, 0, <<>>).id = id
    BY DEF Request
  <1> QED BY <1>1, <1>2, <1>3 DEF NewSender, Senders, SenderOK, FrameOf, Stages

\* A part of a schedule, as a DATA frame carries it.
LEMMA ChunkOK ==
    ASSUME NEW b \in Seq(Byte), NEW m \in 0..Len(b), NEW n \in m..Len(b)
    PROVE  /\ SubSeq(b, m + 1, n) \in Seq(Byte)
           /\ Len(SubSeq(b, m + 1, n)) = n - m
  OBVIOUS

LEMMA NextDataOK ==
    ASSUME NEW s, SenderOK(s)
    PROVE  SenderOK(NextData(s)) /\ NextData(s).id = s.id /\ NextData(s).bytes = s.bytes
  <1> DEFINE end == Smaller(s.offset + ChunkMax, Len(s.bytes))
             chunk == SubSeq(s.bytes, s.offset + 1, end)
  <1>1. /\ s \in Senders /\ s.bytes \in Seq(Byte) /\ Len(s.bytes) \in 1..ScheduleMax
        /\ s.offset \in 0..Len(s.bytes) /\ s.id \in Ids
    BY ScheduleIsSeq DEF SenderOK, Senders
  <1>2. CASE s.offset = Len(s.bytes)
    <2> DEFINE f == Request("COMMIT", s.id, 0, <<>>)
    <2>1. f \in Frames
      BY <1>1, PlainRequestOK DEF Ops
    <2>2. f.op = "COMMIT" /\ f.id = s.id
      BY DEF Request
    <2>3. NextData(s) = [s EXCEPT !.current = f]
      BY <1>2 DEF NextData
    <2> HIDE DEF f
    <2> QED BY <1>1, <2>1, <2>2, <2>3 DEF SenderOK, Senders, FrameOf, Stages
  <1>3. CASE s.offset # Len(s.bytes)
    <2>1. end \in s.offset..Len(s.bytes) /\ end \in 0..ScheduleMax
      BY <1>1, <1>3, ChunkAssumption, SizeAssumption DEF Smaller
    <2>2. chunk \in Seq(Byte) /\ Len(chunk) = end - s.offset
      BY <1>1, <2>1, ChunkOK
    <2>3. s.offset + Len(chunk) = end /\ s.offset \in Word /\ "DATA" \in Ops
      BY <1>1, <2>1, <2>2, SizeIsWord DEF Ops
    <2>4. chunk = SubSeq(s.bytes, s.offset + 1, s.offset + Len(chunk))
      BY <2>3
    <2> HIDE DEF chunk
    <2> DEFINE f == Request("DATA", s.id, s.offset, chunk)
    <2>5. f \in Frames
      BY <1>1, <2>2, <2>3, RequestOK
    <2>6. f.op = "DATA" /\ f.id = s.id /\ f.value = s.offset /\ f.payload = chunk
      BY DEF Request
    <2>7. NextData(s) = [s EXCEPT !.sentEnd = end, !.current = f]
      BY <1>3 DEF NextData, chunk
    <2> HIDE DEF f, end
    <2>8. FrameOf(f, s.bytes)
      BY <2>1, <2>3, <2>4, <2>6 DEF FrameOf
    <2> DEFINE q == NextData(s)
    <2>9. /\ q \in Senders /\ q.sentEnd = end /\ q.current = f
          /\ q.id = s.id /\ q.bytes = s.bytes /\ q.offset = s.offset
      BY <1>1, <2>1, <2>5, <2>7 DEF Senders
    <2> QED BY <1>1, <2>1, <2>6, <2>8, <2>9 DEF SenderOK, Stages
  <1> QED BY <1>2, <1>3

LEMMA OffsetOK ==
    ASSUME NEW s, SenderOK(s), NEW n \in 0..Len(s.bytes)
    PROVE  LET q == [s EXCEPT !.offset = n]
           IN  SenderOK(q) /\ q.id = s.id /\ q.bytes = s.bytes
  <1> DEFINE q == [s EXCEPT !.offset = n]
  <1>1. s \in Senders /\ Len(s.bytes) \in 1..ScheduleMax
    BY ScheduleIsSeq DEF SenderOK, Senders
  <1>2. /\ q \in Senders /\ q.id = s.id /\ q.bytes = s.bytes /\ q.offset = n
        /\ q.current = s.current /\ q.sentEnd = s.sentEnd
    BY <1>1, SizeAssumption DEF Senders
  <1> HIDE DEF q
  <1>3. SenderOK(q)
    BY <1>1, <1>2 DEF SenderOK
  <1> QED BY <1>2, <1>3 DEF q

LEMMA AdvanceOK ==
    ASSUME NEW s, SenderOK(s), NEW f \in Frames,
           ~Ignored(s, f), ReplyError(s, f) = "Ok", f.op # "COMMIT"
    PROVE  /\ SenderOK(Advance(s, f))
           /\ Advance(s, f).id = s.id /\ Advance(s, f).bytes = s.bytes
  <1>1. /\ s \in Senders /\ s.bytes \in Schedules /\ Len(s.bytes) \in 1..ScheduleMax
        /\ s.sentEnd \in 0..Len(s.bytes) /\ s.id \in Ids
    BY ScheduleIsSeq DEF SenderOK, Senders
  <1>2. f.op \in {"HELLO", "BEGIN", "DATA"}
    BY DEF Ignored, SenderOK, Stages
  <1>3. CASE f.op = "HELLO"
    <2> DEFINE g == Request("BEGIN", s.id, Len(s.bytes), Crc32(s.bytes))
    <2>1. Len(s.bytes) \in Word /\ Crc32(s.bytes) \in Seq(Byte)
      BY <1>1, SizeIsWord, CrcIsSeq
    <2>2. g \in Frames
      BY <1>1, <2>1, RequestOK DEF Ops
    <2>3. /\ g.op = "BEGIN" /\ g.id = s.id /\ g.value = Len(s.bytes)
          /\ g.payload = Crc32(s.bytes)
      BY DEF Request
    <2>4. Advance(s, f) = [s EXCEPT !.current = g]
      BY <1>3 DEF Advance
    <2> HIDE DEF g
    <2> QED BY <1>1, <2>2, <2>3, <2>4 DEF SenderOK, Senders, FrameOf, Stages
  <1>4. CASE f.op = "BEGIN"
    <2> DEFINE q == [s EXCEPT !.offset = f.value]
    <2>1. f.value \in 0..Len(s.bytes)
      <3>1. ASSUME f.value > Len(s.bytes) PROVE FALSE
        <4>1. ReplyError(s, f) \in {f.status, "Invalid", "Sequence"}
          BY <1>4, <3>1 DEF ReplyError
        <4>2. ReplyError(s, f) # f.status => f.status = "Ok"
          BY <1>4, <3>1 DEF ReplyError
        <4>3. f.status = "Ok" => ReplyError(s, f) \in {"Invalid", "Sequence"}
          BY <1>4, <3>1 DEF ReplyError
        <4> QED BY <4>1, <4>2, <4>3
      <3>2. f.value \in Nat
        BY SizeIsWord DEF Frames
      <3> QED BY <1>1, <3>1, <3>2
    <2>2. SenderOK(q) /\ q.id = s.id /\ q.bytes = s.bytes
      BY <2>1, OffsetOK
    <2>3. Advance(s, f) = NextData(q)
      BY <1>4 DEF Advance
    <2> HIDE DEF q
    <2> QED BY <2>2, <2>3, NextDataOK
  <1>5. CASE f.op = "DATA"
    <2> DEFINE q == [s EXCEPT !.offset = s.sentEnd]
    <2>1. SenderOK(q) /\ q.id = s.id /\ q.bytes = s.bytes
      BY <1>1, OffsetOK
    <2>2. Advance(s, f) = NextData(q)
      BY <1>5 DEF Advance
    <2> HIDE DEF q
    <2> QED BY <2>1, <2>2, NextDataOK
  <1> QED BY <1>2, <1>3, <1>4, <1>5

LEMMA ThePending ==
    ASSUME PluginInv, NEW p \in pending
    PROVE  /\ The(pending) = p /\ pending = {p} /\ PendingOK(p)
           /\ p \in Pendings /\ p.sender \in Senders
  BY TheElement DEF PluginInv, Single, PendingOK, Pendings

LEMMA TransmitOK ==
    ASSUME NEW p, PendingOK(p), NEW b \in BOOLEAN
    PROVE  /\ Transmit(p, b) \in Sends /\ FrameOfPush(Transmit(p, b).frame)
           /\ Transmit(p, b).frame.id = p.id
  <1> DEFINE g == [p.sender.current EXCEPT !.copy = p.epoch]
             u == [id |-> p.id, bytes |-> p.sender.bytes]
  <1>1. /\ p \in Pendings /\ p.sender.current \in Frames /\ p.epoch \in Nat
        /\ p.sender.current.id = p.id
        /\ FrameOf(p.sender.current, p.sender.bytes) /\ u \in pushes
    BY DEF PendingOK, SenderOK, Pendings, Senders
  <1>2. g \in Frames /\ g.id = p.id /\ FrameOf(g, u.bytes)
    BY <1>1 DEF Frames, FrameOf
  <1>3. Transmit(p, b) = [frame |-> g, starting |-> b, seen |-> FALSE]
    BY DEF Transmit
  <1>4. u.id = p.id
    OBVIOUS
  <1> HIDE DEF g, u
  <1> QED BY <1>1, <1>2, <1>3, <1>4 DEF Sends, FrameOfPush

LEMMA AbortOfOK ==
    ASSUME NEW f \in Frames, FrameOfPush(f), PluginTypeOK, NEW b \in BOOLEAN
    PROVE  /\ AbortOf(f.id, b) \in Sends /\ FrameOfPush(AbortOf(f.id, b).frame)
           /\ AbortOf(f.id, b).frame.id = f.id
  <1> DEFINE g == Request("ABORT", f.id, 0, <<>>)
  <1>1. PICK u \in pushes : u.id = f.id
    BY DEF FrameOfPush
  <1>2. f.id \in Ids
    BY <1>1 DEF PluginTypeOK
  <1>3. g \in Frames
    BY <1>2, PlainRequestOK DEF Ops
  <1>4. g.op = "ABORT" /\ g.id = f.id
    BY DEF Request
  <1>5. AbortOf(f.id, b) = [frame |-> g, starting |-> b, seen |-> FALSE]
    BY DEF AbortOf
  <1> HIDE DEF g
  <1> QED BY <1>1, <1>3, <1>4, <1>5 DEF Sends, FrameOfPush, FrameOf

LEMMA PushOfPending ==
    ASSUME NEW p, PendingOK(p)
    PROVE  /\ p.sender.current \in Frames /\ p.sender.current.id = p.id
           /\ FrameOfPush(p.sender.current)
  <1> DEFINE u == [id |-> p.id, bytes |-> p.sender.bytes]
  <1>1. u \in pushes /\ u.id = p.id /\ u.bytes = p.sender.bytes
    BY DEF PendingOK
  <1> HIDE DEF u
  <1> QED BY <1>1 DEF PendingOK, SenderOK, Senders, FrameOfPush

LEMMA ArmOK ==
    ASSUME NEW p, PendingOK(p), Arm(p)
    PROVE  \E q : /\ pending' = {q} /\ The(pending') = q /\ armed' = {Token(q)}
                  /\ PendingOK(q) /\ Token(q) \in Tokens /\ q.id = p.id
                  /\ q.retries = p.retries /\ q.tries = p.tries
                  /\ q.sender = p.sender
  <1> DEFINE q == [p EXCEPT !.epoch = @ + 1]
  <1>1. p \in Pendings
    BY DEF PendingOK
  <1>2. /\ q \in Pendings /\ q.id = p.id /\ q.sender = p.sender
        /\ q.retries = p.retries /\ q.tries = p.tries
    BY <1>1 DEF Pendings
  <1>3. PendingOK(q)
    BY <1>2 DEF PendingOK
  <1>4. pending' = {q} /\ armed' = {Token(q)}
    BY DEF Arm
  <1> HIDE DEF q
  <1>5. The({q}) = q
    BY TheElement DEF Single
  <1>6. Token(q) \in Tokens
    BY <1>2, <1>3 DEF Token, Tokens, Pendings, PendingOK, SenderOK, Senders, Stages, Ops, Frames
  <1> QED BY <1>2, <1>3, <1>4, <1>5, <1>6

LEMMA FinishOK ==
    ASSUME PluginInv, NEW p \in pending, NEW ending \in Endings, NEW count \in Word,
           Finish(p, ending, count)
    PROVE  /\ pending' = {} /\ armed' = {} /\ busy' = FALSE
           /\ reports' \in SUBSET Reports
  <1>1. p \in Pendings
    BY ThePending
  <1>2. [id |-> p.id, ending |-> ending, count |-> count, tries |-> p.tries] \in Reports
    BY <1>1 DEF Pendings, Reports
  <1> QED BY <1>2 DEF Finish, PluginInv, PluginTypeOK

-----------------------------------------------------------------------------
(* The steps of a push.  Whatever the plugin does is one of five kinds of  *)
(* step: it leaves the pending push alone, begins one, sends its current    *)
(* frame under a new timeout, ends it, or loses it in a restart.            *)

\* u is an earlier send, or one of the push with this id.
SentFor(u, id) ==
    u \in sends \/ (u \in Sends /\ u.frame.id = id /\ FrameOfPush(u.frame))

\* Every send is an earlier one, whether or not its call still matters.
SendsKept == \A u \in sends' : u \in Sends /\ \E s \in sends : u.frame = s.frame

\* Something of the push has left the plugin's hands.
Touched(id) ==
    \/ \E s \in sends : s.frame.id = id
    \/ \E r \in sent : r.id = id
    \/ \E t \in fired : t.id = id

Keeps ==
    /\ pending' = pending /\ busy' = busy
    /\ reports' = reports /\ pushes' = pushes
    /\ nextId' \in Word /\ status' \in Texts
    /\ listens' \subseteq listens
    /\ \A p \in pending : p.id \in listens => p.id \in listens'
    /\ armed' \subseteq armed /\ fired' \subseteq fired \cup armed
    /\ \A p \in pending :
          Token(p) \in armed \cup fired => Token(p) \in armed' \cup fired'
    /\ SendsKept

Begins(q) ==
    /\ pending = {} /\ pending' = {q} /\ busy' = TRUE
    /\ q \in Pendings /\ SenderOK(q.sender) /\ q.sender.id = q.id
    /\ q.sender = NewSender(q.id, q.sender.bytes)
    /\ q.tries = 0 /\ q.retries = 0
    /\ \A p \in pushes : p.id # q.id
    /\ pushes' = pushes \cup {[id |-> q.id, bytes |-> q.sender.bytes]}
    /\ listens' = listens \cup {q.id}
    /\ nextId' \in Word /\ status' \in Texts
    /\ UNCHANGED <<sends, armed, fired, reports>>

\* The answer f takes the sender s to its next frame.
Advances(s, f, next) ==
    /\ ~Ignored(s, f) /\ ReplyError(s, f) = "Ok" /\ f.op # "COMMIT"
    /\ next = Advance(s, f)

Arms(p, q) ==
    /\ pending' = {q} /\ armed' = {Token(q)}
    /\ PendingOK(q) /\ Token(q) \in Tokens /\ q.id = p.id
    /\ q.sender = p.sender \/ \E f \in sent : Advances(p.sender, f, q.sender)
    /\ \A u \in sends' : SentFor(u, p.id)
    /\ \E b \in BOOLEAN : sends' = sends \cup {Transmit(q, b)}
    /\ \/ /\ p.id \in listens /\ listens' = listens \ {p.id}
          /\ q.retries = p.retries /\ q.tries = 1
       \/ /\ Touched(p.id) /\ listens' = listens
          /\ \/ q.retries = 0 /\ q.tries = 1
             \/ q.retries = p.retries + 1 /\ q.tries = p.tries + 1
    /\ fired' \subseteq fired
    /\ nextId' \in Word /\ status' \in Texts
    /\ UNCHANGED <<busy, pushes, reports>>

Ends(p, r) ==
    /\ pending' = {} /\ armed' = {} /\ busy' = FALSE
    /\ reports' = reports \cup {r} /\ r \in Reports
    /\ r.id = p.id /\ r.tries = p.tries
    /\ r.ending = "timeout" => Touched(p.id) /\ p.retries >= MaxRetries
    /\ r.ending = "success" =>
          \E f \in sent : /\ f.op = "COMMIT" /\ f.status = "Ok"
                          /\ f.id = p.id /\ f.value = r.count
    /\ r.ending = "rejected" =>
          \E f \in sent : ~Ignored(p.sender, f) /\ ReplyError(p.sender, f) # "Ok"
    /\ \A u \in sends' : SentFor(u, p.id)
    /\ listens' \subseteq listens /\ fired' \subseteq fired
    /\ nextId' \in Word /\ status' \in Texts
    /\ UNCHANGED pushes

Drops ==
    /\ pending' = {} /\ armed' = {} /\ fired' = {} /\ busy' = FALSE
    /\ listens' = {}
    /\ nextId' \in Word /\ status' \in Texts
    /\ SendsKept
    /\ UNCHANGED <<pushes, reports>>

PluginStep ==
    \/ Keeps \/ Drops
    \/ \E q : Begins(q)
    \/ \E p \in pending : (\E q : Arms(p, q)) \/ (\E r : Ends(p, r))

LEMMA EndsOK ==
    ASSUME PluginInv, NEW p \in pending, NEW ending \in Endings, NEW count \in Word,
           Finish(p, ending, count),
           ending = "timeout" => Touched(p.id) /\ p.retries >= MaxRetries,
           ending = "success" =>
               \E f \in sent : /\ f.op = "COMMIT" /\ f.status = "Ok"
                               /\ f.id = p.id /\ f.value = count,
           ending = "rejected" =>
               \E f \in sent : ~Ignored(p.sender, f) /\ ReplyError(p.sender, f) # "Ok",
           \A u \in sends' : SentFor(u, p.id),
           listens' \subseteq listens, fired' \subseteq fired,
           nextId' = nextId, status' \in Texts, pushes' = pushes
    PROVE  PluginStep
  <1> DEFINE r == [id |-> p.id, ending |-> ending, count |-> count, tries |-> p.tries]
  <1>1. p \in Pendings
    BY ThePending
  <1>2. /\ r \in Reports /\ r.id = p.id /\ r.tries = p.tries
        /\ r.ending = ending /\ r.count = count
    BY <1>1 DEF Pendings, Reports
  <1>3. /\ pending' = {} /\ armed' = {} /\ busy' = FALSE
        /\ reports' = reports \cup {r}
    BY DEF Finish
  <1>4. nextId' \in Word
    BY DEF PluginInv, PluginTypeOK
  <1> HIDE DEF r
  <1> QED BY <1>2, <1>3, <1>4 DEF Ends, PluginStep

LEMMA ArmsOK ==
    ASSUME PluginInv, NEW p \in pending, NEW m, Arm(m), PendingOK(m), m.id = p.id,
           m.sender = p.sender \/ \E f \in sent : Advances(p.sender, f, m.sender),
           NEW b \in BOOLEAN, sends' = sends \cup {Transmit(The(pending'), b)},
           \/ /\ p.id \in listens /\ listens' = listens \ {p.id}
              /\ m.retries = p.retries /\ m.tries = 1
           \/ /\ Touched(p.id) /\ listens' = listens
              /\ \/ m.retries = 0 /\ m.tries = 1
                 \/ m.retries = p.retries + 1 /\ m.tries = p.tries + 1,
           fired' \subseteq fired,
           nextId' = nextId, status' \in Texts, busy' = busy,
           pushes' = pushes, reports' = reports
    PROVE  PluginStep
  <1>1. PICK q : /\ pending' = {q} /\ The(pending') = q /\ armed' = {Token(q)}
                 /\ PendingOK(q) /\ Token(q) \in Tokens /\ q.id = m.id
                 /\ q.retries = m.retries /\ q.tries = m.tries
                 /\ q.sender = m.sender
    BY ArmOK
  <1>2. \A u \in sends' : SentFor(u, p.id)
    BY <1>1, TransmitOK DEF SentFor
  <1>3. nextId' \in Word
    BY DEF PluginInv, PluginTypeOK
  <1>4. Arms(p, q)
    BY <1>1, <1>2, <1>3 DEF Arms
  <1> QED BY <1>4 DEF PluginStep

LEMMA StartPushStep ==
    ASSUME PluginInv, NEW b \in Pushable, StartPush(b)
    PROVE  PluginStep
  <1>1. NewId \in Ids /\ AfterId(NewId) \in Word
    BY SizeAssumption DEF PluginInv, PluginTypeOK, NewId, AfterId, Ids, Word
  <1>2. CASE Len(b) \in 1..ScheduleMax /\ pending = {}
    <2> DEFINE q == [id |-> NewId, sender |-> NewSender(NewId, b),
                     epoch |-> 0, retries |-> 0, tries |-> 0]
    <2>1. b \in Schedules
      BY <1>2, PushableAssumption, ScheduleBytes
    <2>2. /\ SenderOK(NewSender(NewId, b)) /\ NewSender(NewId, b).id = NewId
          /\ NewSender(NewId, b).bytes = b
      BY <1>1, <2>1, NewSenderOK
    <2>3. NewSender(NewId, b) \in Senders
      BY <2>2 DEF SenderOK
    <2>4. /\ q \in Pendings /\ q.id = NewId /\ q.sender = NewSender(NewId, b)
          /\ q.tries = 0 /\ q.retries = 0
      BY <1>1, <2>3, RetryAssumption DEF Pendings
    <2>5. /\ pending' = {q} /\ busy' = TRUE /\ status' = "connecting"
          /\ listens' = listens \cup {NewId}
          /\ pushes' = pushes \cup {[id |-> NewId, bytes |-> b]}
          /\ nextId' = AfterId(NewId) /\ FreshId
          /\ UNCHANGED <<sends, armed, fired, reports>>
      BY <1>2 DEF StartPush
    <2> HIDE DEF q
    <2>6. Begins(q)
      BY <1>1, <1>2, <2>2, <2>4, <2>5 DEF Begins, FreshId, Texts
    <2> QED BY <2>6 DEF PluginStep
  <1>3. CASE ~(Len(b) \in 1..ScheduleMax /\ pending = {})
    <2>1. Keeps
      BY <1>1, <1>3 DEF StartPush, Keeps, SendsKept, Texts, PluginInv, PluginTypeOK
    <2> QED BY <2>1 DEF PluginStep
  <1> QED BY <1>2, <1>3

LEMMA ListenOkStep ==
    ASSUME PluginInv, NEW id, ListenOk(id)
    PROVE  PluginStep
  <1>1. CASE IsPending(id)
    <2>1. PICK p \in pending : p.id = id
      BY <1>1 DEF IsPending
    <2>2. The(pending) = p /\ PendingOK(p) /\ p \in Pendings
      BY <2>1, ThePending
    <2> DEFINE m == [p EXCEPT !.tries = 1]
    <2>3. /\ m \in Pendings /\ m.id = p.id /\ m.sender = p.sender
          /\ m.retries = p.retries /\ m.tries = 1
      BY <2>2 DEF Pendings
    <2>4. PendingOK(m)
      BY <2>2, <2>3 DEF PendingOK
    <2>5. Arm(m) /\ sends' = sends \cup {Transmit(The(pending'), TRUE)}
      BY <1>1, <2>2 DEF ListenOk
    <2>6. /\ id \in listens /\ listens' = listens \ {id}
          /\ UNCHANGED <<busy, status, nextId, fired, pushes, reports>>
      BY DEF ListenOk
    <2>7. status \in Texts
      BY DEF PluginInv, PluginTypeOK
    <2> HIDE DEF m
    <2> QED BY <2>1, <2>3, <2>4, <2>5, <2>6, <2>7, ArmsOK
  <1>2. CASE ~IsPending(id)
    <2>1. Keeps
      BY <1>2 DEF IsPending, ListenOk, Keeps, SendsKept, PluginInv, PluginTypeOK
    <2> QED BY <2>1 DEF PluginStep
  <1> QED BY <1>1, <1>2

LEMMA ListenFailsStep ==
    ASSUME PluginInv, NEW id, ListenFails(id)
    PROVE  PluginStep
  <1>1. CASE IsPending(id)
    <2>1. PICK p \in pending : p.id = id /\ The(pending) = p
      BY <1>1, ThePending DEF IsPending
    <2>2. Finish(p, "listenfail", 0) /\ "listenfail" \in Endings /\ 0 \in Word
      BY <1>1, <2>1, SizeIsWord DEF ListenFails, Endings
    <2>3. /\ listens' \subseteq listens /\ status' \in Texts
          /\ UNCHANGED <<nextId, sends, fired, pushes>>
      BY DEF ListenFails, Texts
    <2> QED BY <2>1, <2>2, <2>3, EndsOK DEF SentFor
  <1>2. CASE ~IsPending(id)
    <2>1. Keeps
      BY <1>2 DEF IsPending, ListenFails, Keeps, SendsKept, PluginInv, PluginTypeOK, Texts
    <2> QED BY <2>1 DEF PluginStep
  <1> QED BY <1>1, <1>2

LEMMA FrameIgnoredStep ==
    ASSUME PluginInv, UNCHANGED pluginVars
    PROVE  PluginStep
  <1>1. Keeps
    BY DEF pluginVars, Keeps, SendsKept, PluginInv, PluginTypeOK
  <1> QED BY <1>1 DEF PluginStep

\* What a frame that is not ignored has in common with the pending push.
LEMMA Answered ==
    ASSUME PluginInv, NEW p \in pending, NEW f \in sent, ~Ignored(p.sender, f)
    PROVE  Touched(p.id) /\ f.id = p.id
  BY ThePending DEF Ignored, Touched, PendingOK

LEMMA FrameCompletesStep ==
    ASSUME PluginInv, NEW p \in pending, NEW f \in sent, f \in Frames,
           FrameCompletes(p, f)
    PROVE  PluginStep
  <1>1. f.status = "Ok" /\ f.op = "COMMIT" /\ f.id = p.id /\ f.value \in Word
    <2>1. f.status # "Ok" => ReplyError(p.sender, f) = f.status
      BY DEF ReplyError
    <2> QED BY <2>1, Answered DEF FrameCompletes, Frames
  <1>2. /\ Finish(p, "success", f.value) /\ status' = "success"
        /\ UNCHANGED <<nextId, listens, sends, fired, pushes>>
    BY DEF FrameCompletes
  <1>3. "success" \in Endings /\ "success" \in Texts
    BY DEF Endings, Texts
  <1> QED BY <1>1, <1>2, <1>3, EndsOK DEF SentFor

LEMMA AbortSent ==
    ASSUME PluginInv, NEW p \in pending, NEW b \in BOOLEAN,
           NEW S \in SUBSET sends, sends' = S \cup {AbortOf(p.id, b)}
    PROVE  \A u \in sends' : SentFor(u, p.id)
  <1>1. PendingOK(p)
    BY ThePending
  <1>2. /\ AbortOf(p.id, b) \in Sends /\ FrameOfPush(AbortOf(p.id, b).frame)
        /\ AbortOf(p.id, b).frame.id = p.id
    BY <1>1, PushOfPending, AbortOfOK DEF PluginInv
  <1> QED BY <1>2 DEF SentFor

LEMMA FrameRejectsStep ==
    ASSUME PluginInv, NEW p \in pending, NEW f \in sent, FrameRejects(p, f)
    PROVE  PluginStep
  <1>1. /\ Finish(p, "rejected", 0) /\ status' = "rejected"
        /\ ~Ignored(p.sender, f) /\ ReplyError(p.sender, f) # "Ok"
        /\ sends' = sends \cup {AbortOf(p.id, FALSE)}
        /\ UNCHANGED <<nextId, listens, fired, pushes>>
    BY DEF FrameRejects
  <1>2. "rejected" \in Endings /\ "rejected" \in Texts /\ 0 \in Word
    BY SizeIsWord DEF Endings, Texts
  <1>3. \A u \in sends' : SentFor(u, p.id)
    BY <1>1, AbortSent
  <1> QED BY <1>1, <1>2, <1>3, EndsOK

LEMMA FrameAdvancesStep ==
    ASSUME PluginInv, NEW p \in pending, NEW f \in sent, f \in Frames,
           FrameAdvances(p, f)
    PROVE  PluginStep
  <1> DEFINE m == NextStage(p, f)
             a == Advance(p.sender, f)
  <1>1. PendingOK(p) /\ p \in Pendings /\ SenderOK(p.sender)
    BY ThePending DEF PendingOK
  <1>2. SenderOK(a) /\ a.id = p.sender.id /\ a.bytes = p.sender.bytes
    BY <1>1, AdvanceOK DEF FrameAdvances
  <1>3. m = [p EXCEPT !.sender = a, !.retries = 0, !.tries = 1]
    BY DEF NextStage
  <1> HIDE DEF a
  <1>4. /\ m \in Pendings /\ m.id = p.id /\ m.sender = a
        /\ m.retries = 0 /\ m.tries = 1
    <2>1. a \in Senders /\ 0 \in 0..MaxRetries /\ 1 \in Nat
      BY <1>2, RetryAssumption DEF SenderOK
    <2> QED BY <1>1, <1>3, <2>1 DEF Pendings
  <1> HIDE DEF m
  <1>5. PendingOK(m)
    BY <1>1, <1>2, <1>4 DEF PendingOK
  <1>6. /\ Arm(m) /\ sends' = sends \cup {Transmit(The(pending'), FALSE)}
        /\ status' = "pushing" /\ status' \in Texts
        /\ UNCHANGED <<busy, nextId, listens, fired, pushes, reports>>
    BY DEF FrameAdvances, m, Texts
  <1>7. Touched(p.id) /\ Advances(p.sender, f, m.sender)
    BY <1>4, Answered DEF FrameAdvances, Advances, a
  <1> QED BY <1>4, <1>5, <1>6, <1>7, ArmsOK

LEMMA OnFrameStep ==
    ASSUME PluginInv, NEW f \in sent, f \in Frames, OnFrame(f)
    PROVE  PluginStep
  BY FrameIgnoredStep, FrameCompletesStep, FrameRejectsStep, FrameAdvancesStep
  DEF OnFrame, FrameIgnored

LEMMA TimerExpiresStep ==
    ASSUME PluginInv, NEW t, TimerExpires(t)
    PROVE  PluginStep
  <1>1. armed = {t}
    BY DEF TimerExpires, PluginInv, Single
  <1>2. Keeps
    BY <1>1 DEF TimerExpires, Keeps, SendsKept, PluginInv, PluginTypeOK
  <1> QED BY <1>2 DEF PluginStep

LEMMA OnTimerStep ==
    ASSUME PluginInv, NEW t, OnTimer(t)
    PROVE  PluginStep
  <1>1. t \in fired /\ fired' = fired \ {t}
    BY DEF OnTimer
  <1>2. CASE TimerStale(t)
    <2>1. Keeps
      BY <1>1, <1>2 DEF TimerStale, Keeps, SendsKept, PluginInv, PluginTypeOK
    <2> QED BY <2>1 DEF PluginStep
  <1>3. ASSUME NEW p \in pending, TimerGivesUp(p, t) \/ TimerResends(p, t)
        PROVE  PluginStep
    <2>1. PendingOK(p) /\ p \in Pendings
      BY ThePending
    <2>2. Touched(p.id)
      <3>1. t = Token(p)
        BY <1>3 DEF TimerGivesUp, TimerResends
      <3>2. t.id = p.id
        BY <3>1 DEF Token
      <3> QED BY <1>1, <3>2 DEF Touched
    <2>3. CASE TimerGivesUp(p, t)
      <3>1. /\ Finish(p, "timeout", 0) /\ p.retries >= MaxRetries
            /\ status' = "timeout"
            /\ sends' = sends \cup {AbortOf(p.id, FALSE)}
            /\ UNCHANGED <<nextId, listens, pushes>>
        BY <2>3 DEF TimerGivesUp
      <3>2. "timeout" \in Endings /\ "timeout" \in Texts /\ 0 \in Word
        BY SizeIsWord DEF Endings, Texts
      <3>3. \A u \in sends' : SentFor(u, p.id)
        BY <3>1, AbortSent
      <3> QED BY <1>1, <2>2, <3>1, <3>2, <3>3, EndsOK
    <2>4. CASE TimerResends(p, t)
      <3> DEFINE m == [p EXCEPT !.retries = @ + 1, !.tries = @ + 1]
      <3>1. p.retries + 1 \in 0..MaxRetries
        BY <2>1, <2>4, RetryAssumption DEF TimerResends, Pendings
      <3>2. /\ m \in Pendings /\ m.id = p.id /\ m.sender = p.sender
            /\ m.retries = p.retries + 1 /\ m.tries = p.tries + 1
        <4>1. p.retries + 1 \in 0..MaxRetries /\ p.tries + 1 \in Nat
          BY <2>1, <3>1 DEF Pendings
        <4> QED BY <2>1, <4>1 DEF Pendings
      <3>3. /\ Arm(m) /\ sends' = sends \cup {Transmit(The(pending'), FALSE)}
            /\ UNCHANGED <<busy, status, nextId, listens, pushes, reports>>
        BY <2>4 DEF TimerResends
      <3> HIDE DEF m
      <3>4. PendingOK(m) /\ status \in Texts
        BY <2>1, <3>2 DEF PendingOK, PluginInv, PluginTypeOK
      <3> QED BY <1>1, <2>2, <3>2, <3>3, <3>4, ArmsOK
    <2> QED BY <1>3, <2>3, <2>4
  <1> QED BY <1>2, <1>3 DEF OnTimer

LEMMA SendOkStep ==
    ASSUME PluginInv, NEW s \in sends, SendOk(s)
    PROVE  PluginStep
  <1>1. Keeps
    BY DEF SendOk, Keeps, SendsKept, PluginInv, PluginTypeOK, Texts
  <1> QED BY <1>1 DEF PluginStep

\* The wristband handled the frame, but the call has yet to return.
LEMMA SeenStep ==
    ASSUME PluginInv, NEW s \in sends,
           sends' = (sends \ {s}) \cup {[s EXCEPT !.seen = TRUE]},
           UNCHANGED <<pending, busy, status, nextId, listens, armed, fired,
                       pushes, reports>>
    PROVE  PluginStep
  <1> DEFINE u == [s EXCEPT !.seen = TRUE]
  <1>1. u \in Sends /\ u.frame = s.frame
    BY DEF PluginInv, PluginTypeOK, Sends
  <1> HIDE DEF u
  <1>2. SendsKept
    BY <1>1 DEF SendsKept, PluginInv, PluginTypeOK, u
  <1>3. Keeps
    BY <1>2 DEF Keeps, PluginInv, PluginTypeOK
  <1> QED BY <1>3 DEF PluginStep

LEMMA SendFailsStep ==
    ASSUME PluginInv, NEW s \in sends, SendFails(s)
    PROVE  PluginStep
  <1>1. s \in Sends
    BY DEF PluginInv, PluginTypeOK
  <1>2. ASSUME NEW p \in pending, IsCurrent(p, s), Finish(p, "sendfail", 0),
               status' = "sendfail",
               sends' = (sends \ {s}) \cup {AbortOf(s.frame.id, s.starting)}
        PROVE  PluginStep
    <2>1. p.id = s.frame.id /\ s.starting \in BOOLEAN
      BY <1>1, <1>2 DEF IsCurrent, Sends
    <2>2. \A u \in sends' : SentFor(u, p.id)
      BY <1>2, <2>1, AbortSent
    <2>3. "sendfail" \in Endings /\ "sendfail" \in Texts /\ 0 \in Word
      BY SizeIsWord DEF Endings, Texts
    <2>4. UNCHANGED <<nextId, listens, fired, pushes>>
      BY DEF SendFails
    <2> QED BY <1>2, <2>2, <2>3, <2>4, EndsOK
  <1>3. ASSUME status' = IF s.starting THEN "cannotstart" ELSE status,
               sends' = sends \ {s},
               UNCHANGED <<pending, busy, armed, reports>>
        PROVE  PluginStep
    <2>1. UNCHANGED <<nextId, listens, fired, pushes>>
      BY DEF SendFails
    <2>2. Keeps
      BY <1>3, <2>1 DEF Keeps, SendsKept, PluginInv, PluginTypeOK, Texts
    <2> QED BY <2>2 DEF PluginStep
  <1> QED BY <1>2, <1>3 DEF SendFails

LEMMA RestartStep ==
    ASSUME PluginInv, Restart
    PROVE  PluginStep
  <1>1. SendsKept
    <2> SUFFICES ASSUME NEW u \in sends'
                 PROVE  u \in Sends /\ \E s \in sends : u.frame = s.frame
      BY DEF SendsKept
    <2>1. PICK s \in sends : u = [s EXCEPT !.starting = FALSE]
      BY DEF Restart
    <2>2. s \in Sends
      BY DEF PluginInv, PluginTypeOK
    <2> QED BY <2>1, <2>2 DEF Sends
  <1>2. Drops
    BY <1>1, SeedAssumption DEF Restart, Drops, Texts
  <1> QED BY <1>2 DEF PluginStep

-----------------------------------------------------------------------------
(* Both ends                                                               *)

\* The frame was in flight.
LEMMA SendFrame ==
    ASSUME PluginInv, NEW s \in sends
    PROVE  s \in Sends /\ s.frame \in Frames /\ FrameOfPush(s.frame)
  BY DEF PluginInv, PluginTypeOK, Sends

\* Whatever happens, the plugin takes one of the five kinds of step.
LEMMA NextPluginStep ==
    ASSUME PluginInv, EndpointTypeOK, [Next]_vars
    PROVE  PluginStep
  <1>1. CASE Push
    BY <1>1, StartPushStep DEF Push
  <1>2. CASE PushRefused
    <2>1. Keeps
      BY <1>2 DEF PushRefused, RefusePush, Keeps, SendsKept, PluginInv,
                  PluginTypeOK, Texts
    <2> QED BY <2>1 DEF PluginStep
  <1>3. CASE Listened
    BY <1>3, ListenOkStep, ListenFailsStep DEF Listened
  <1>4. CASE TimerEvent \/ Timeout
    BY <1>4, OnTimerStep, TimerExpiresStep DEF TimerEvent, Timeout
  <1>5. CASE PluginRestarts
    BY <1>5, RestartStep DEF PluginRestarts
  <1>6. ASSUME NEW s \in sends, RequestArrives(s)
        PROVE  PluginStep
    BY <1>6, SendOkStep, SeenStep DEF RequestArrives
  <1>7. ASSUME NEW s \in sends, SendError(s)
        PROVE  PluginStep
    BY <1>7, SendFailsStep DEF SendError
  <1>8. ASSUME NEW s \in sends, RequestLost(s)
        PROVE  PluginStep
    <2>1. Keeps
      BY <1>8 DEF RequestLost, Keeps, SendsKept, PluginInv, PluginTypeOK
    <2> QED BY <2>1 DEF PluginStep
  <1>9. ASSUME NEW r \in sent, AnswerArrives(r)
        PROVE  PluginStep
    BY <1>9, OnFrameStep DEF AnswerArrives, EndpointTypeOK
  <1>10. CASE UNCHANGED pluginVars
    BY <1>10, FrameIgnoredStep
  <1> QED BY <1>1, <1>2, <1>3, <1>4, <1>5, <1>6, <1>7, <1>8, <1>9, <1>10
      DEF Next, vars, AnswerLost, Started, Rebooted, Flushed, MinutePassed,
          UserAborts, UserClears

LEMMA NextEndpointInv ==
    ASSUME PluginInv, EndpointInv, [Next]_vars
    PROVE  EndpointInv'
  <1>1. CASE UNCHANGED endpointVars
    BY <1>1, StutterInv
  <1>2. ASSUME NEW s \in sends, RequestArrives(s)
        PROVE  EndpointInv'
    BY <1>2, SendFrame, OnMessageInv DEF RequestArrives
  <1>3. ASSUME NEW r \in sent, Arrive(r)
        PROVE  EndpointInv'
    BY <1>3, ArriveInv
  <1>4. CASE Started \/ Rebooted
    BY <1>4, RestartInv DEF Started, Rebooted
  <1>5. CASE Flushed \/ MinutePassed
    BY <1>5, TickInv DEF Flushed, MinutePassed, Deliveries
  <1>6. CASE UserAborts \/ UserClears
    BY <1>6, AbortInv, ClearScheduleInv DEF UserAborts, UserClears
  <1> QED BY <1>1, <1>2, <1>3, <1>4, <1>5, <1>6
      DEF Next, vars, Push, PushRefused, Listened, TimerEvent, Timeout,
          PluginRestarts, SendError, RequestLost, AnswerArrives, AnswerLost

LEMMA InitPluginInv == PluginInit => PluginInv
  BY SeedAssumption DEF PluginInit, PluginInv, PluginTypeOK, Single, Texts

LEMMA BeginsInv ==
    ASSUME PluginInv, NEW q, Begins(q)
    PROVE  PluginInv'
  <1> DEFINE u == [id |-> q.id, bytes |-> q.sender.bytes]
  <1>1. /\ u.id = q.id /\ u \in [id : Ids, bytes : Schedules]
        /\ q.id \in Ids
    BY DEF Begins, Pendings, SenderOK, Senders
  <1>2. pending' = {q} /\ pushes' = pushes \cup {u}
    BY DEF Begins
  <1>3. (\A p \in pending : PendingOK(p))'
    BY <1>2 DEF Begins, PendingOK
  <1> HIDE DEF u
  <1>4. (\A p, r \in pushes : p.id = r.id => p = r)'
    BY <1>1, <1>2 DEF Begins, PluginInv
  <1>5. (\A s \in sends : FrameOfPush(s.frame))'
    BY <1>2 DEF Begins, PluginInv, FrameOfPush
  <1>6. PluginTypeOK' /\ Single(pending)' /\ Single(armed)'
    BY <1>1, <1>2 DEF Begins, PluginInv, PluginTypeOK, Single
  <1> QED BY <1>3, <1>4, <1>5, <1>6 DEF PluginInv

LEMMA NextPluginInv ==
    ASSUME PluginInv, PluginStep
    PROVE  PluginInv'
  <1>1. ASSUME pushes' = pushes, \A s \in sends' : s \in Sends /\ FrameOfPush(s.frame),
               \A p \in pending' : PendingOK(p), Single(pending'), Single(armed'),
               armed' \in SUBSET Tokens, fired' \in SUBSET Tokens,
               listens' \subseteq listens, reports' \in SUBSET Reports,
               busy' \in BOOLEAN, nextId' \in Word, status' \in Texts
        PROVE  PluginInv'
    <2>1. PluginTypeOK'
      BY <1>1 DEF PluginInv, PluginTypeOK, PendingOK
    <2>2. (\A p \in pending : PendingOK(p))'
      BY <1>1 DEF PendingOK
    <2>3. (\A s \in sends : FrameOfPush(s.frame))'
      BY <1>1 DEF FrameOfPush
    <2>4. (\A p, q \in pushes : p.id = q.id => p = q)'
      BY <1>1 DEF PluginInv
    <2> QED BY <1>1, <2>1, <2>2, <2>3, <2>4 DEF PluginInv
  <1>2. ASSUME SendsKept PROVE \A s \in sends' : s \in Sends /\ FrameOfPush(s.frame)
    BY <1>2 DEF SendsKept, PluginInv
  <1>3. ASSUME NEW id, \A u \in sends' : SentFor(u, id)
        PROVE  \A s \in sends' : s \in Sends /\ FrameOfPush(s.frame)
    BY <1>3 DEF SentFor, PluginInv, PluginTypeOK
  <1>4. CASE Keeps
    BY <1>1, <1>2, <1>4 DEF Keeps, PluginInv, PluginTypeOK, Single
  <1>5. CASE Drops
    BY <1>1, <1>2, <1>5 DEF Drops, PluginInv, PluginTypeOK, Single
  <1>6. ASSUME NEW q, Begins(q) PROVE PluginInv'
    BY <1>6, BeginsInv
  <1>7. ASSUME NEW p \in pending, NEW q, Arms(p, q) PROVE PluginInv'
    BY <1>1, <1>3, <1>7 DEF Arms, PluginInv, PluginTypeOK, Single
  <1>8. ASSUME NEW p \in pending, NEW r, Ends(p, r) PROVE PluginInv'
    BY <1>1, <1>3, <1>8 DEF Ends, PluginInv, PluginTypeOK, Single
  <1> QED BY <1>4, <1>5, <1>6, <1>7, <1>8 DEF PluginStep

\* Each step is a fault of some kind or counts none.
LEMMA FaultOrNone ==
    ASSUME [Next]_vars
    PROVE  UNCHANGED vars \/ NoFault \/ \E kind : Fault(kind)
  <1>1. \A d, io : Deliverable(d, io) => NoFault \/ \E kind : Fault(kind)
    BY DEF Deliverable
  <1> QED BY <1>1 DEF Next, vars, Push, PushRefused, Listened, TimerEvent, Timeout,
          PluginRestarts, RequestArrives, SendError, RequestLost, AnswerArrives,
          AnswerLost, Started, Rebooted, Flushed, MinutePassed, UserAborts, UserClears

FaultsOK == faults \in 0..MaxFaults /\ struck \subseteq FaultKinds

LEMMA FaultsCounted ==
    ASSUME FaultsOK, [Next]_vars
    PROVE  FaultsOK'
  <1>1. NoFault \/ (\E kind : Fault(kind)) => FaultsOK'
    BY FaultAssumption DEF NoFault, faultVars, Fault, FaultsOK
  <1> QED BY <1>1, FaultOrNone DEF vars, faultVars, FaultsOK

\* The two ends keep their invariants whatever the other one and the network do.
LinkInv == EndpointInv /\ PluginInv /\ FaultsOK

LEMMA LinkInvariant == Spec => []LinkInv
  <1>1. Init => LinkInv
    BY InitInv, InitPluginInv, FaultAssumption DEF Init, LinkInv, FaultsOK
  <1>2. LinkInv /\ [Next]_vars => LinkInv'
    <2> SUFFICES ASSUME LinkInv, [Next]_vars PROVE LinkInv'
      OBVIOUS
    <2>1. EndpointInv' /\ FaultsOK'
      BY NextEndpointInv, FaultsCounted DEF LinkInv
    <2>2. PluginInv'
      BY NextPluginStep, NextPluginInv DEF LinkInv, EndpointInv
    <2> QED BY <2>1, <2>2 DEF LinkInv
  <1> QED BY <1>1, <1>2, PTL DEF Spec

\* Type correctness of both ends joined, whatever faults occur.
THEOREM TransferTypes == Spec => []TypeOK
  <1>1. LinkInv => TypeOK
    BY DEF LinkInv, TypeOK, EndpointInv, PluginInv, FaultsOK
  <1> QED BY <1>1, LinkInvariant, PTL

-----------------------------------------------------------------------------
(* Each push ends once and is never left without something that moves it on *)

Known(id) == \E p \in pushes : p.id = id

\* Nothing of this push has left the plugin, nor is set to.
Untouched(id) ==
    /\ \A s \in sends : s.frame.id # id
    /\ \A r \in reply \cup sent : r.id # id
    /\ \A t \in armed \cup fired : t.id # id

\* No id is met that no push was given, so the next push's is new everywhere.
IdsKnown ==
    /\ \A r \in reply \cup sent : Known(r.id)
    /\ \A t \in armed \cup fired : Known(t.id)
    /\ \A r \in reports : Known(r.id)

\* tries counts the transmissions, retries those after the first.
TriesOK ==
    \A p \in pending :
        /\ p.id \in listens => p.tries = 0 /\ p.retries = 0 /\ Untouched(p.id)
        /\ p.id \notin listens => p.tries = p.retries + 1

PushInv == IdsKnown /\ TriesOK /\ EndsOnce /\ NeverStuck

\* Every answer is an earlier one or answers a request in flight.
AnswersKept ==
    \A r \in reply' \cup sent' :
        r \in reply \cup sent \/ \E s \in sends : r.id = s.frame.id

LEMMA NextAnswers ==
    ASSUME [Next]_vars
    PROVE  AnswersKept
  <1>1. CASE UNCHANGED endpointVars
    BY <1>1 DEF endpointVars, AnswersKept
  <1>2. ASSUME NEW s \in sends, RequestArrives(s)
        PROVE  AnswersKept
    <2>1. PICK d \in Deliveries, io \in {"Ok", "Io"} : OnMessage(s.frame, io, d)
      BY <1>2 DEF RequestArrives
    <2> DEFINE o == Apply(receiver, s.frame, Commit(io))
               a == Response(s.frame, o.status, o.value)
    <2>2. Flush(o.receiver, {a}, d)
      BY <2>1 DEF OnMessage
    <2>3. a.id = s.frame.id
      BY DEF Response
    <2> HIDE DEF a, o
    <2> QED BY <2>2, <2>3 DEF Flush, AnswersKept
  <1>3. ASSUME NEW r \in sent, Arrive(r)
        PROVE  AnswersKept
    BY <1>3 DEF Arrive, AnswersKept
  <1>4. CASE Started \/ Rebooted \/ UserAborts \/ UserClears
    BY <1>4 DEF Started, Rebooted, UserAborts, UserClears, Start, Reboot, Abort,
                ClearSchedule, AnswersKept
  <1>5. CASE Flushed \/ MinutePassed
    BY <1>5 DEF Flushed, MinutePassed, Tick, Flush, AnswersKept
  <1> QED BY <1>1, <1>2, <1>3, <1>4, <1>5
      DEF Next, vars, Push, PushRefused, Listened, TimerEvent, Timeout,
          PluginRestarts, SendError, RequestLost, AnswerArrives, AnswerLost

LEMMA SendKnown ==
    ASSUME PluginInv, NEW s \in sends
    PROVE  Known(s.frame.id)
  BY DEF PluginInv, FrameOfPush, Known

LEMMA PendingKnown ==
    ASSUME PluginInv, NEW p \in pending
    PROVE  Known(p.id)
  <1> DEFINE u == [id |-> p.id, bytes |-> p.sender.bytes]
  <1>1. u \in pushes /\ u.id = p.id
    BY DEF PluginInv, PendingOK
  <1> HIDE DEF u
  <1> QED BY <1>1 DEF Known

LEMMA IdsStayKnown ==
    ASSUME PluginInv, IdsKnown, AnswersKept, PluginStep
    PROVE  IdsKnown'
  <1>1. \A id : Known(id) => Known(id)'
    BY DEF PluginStep, Keeps, Begins, Arms, Ends, Drops, Known
  <1>2. \A r \in reply' \cup sent' : Known(r.id)'
    BY <1>1, SendKnown DEF AnswersKept, IdsKnown
  <1>3. \A t \in armed' \cup fired' : Known(t.id)'
    <2> SUFFICES ASSUME NEW t \in armed' \cup fired' PROVE Known(t.id)
      BY <1>1
    <2>1. CASE t \in armed \cup fired
      BY <2>1 DEF IdsKnown
    <2>2. ASSUME NEW p \in pending, NEW q, Arms(p, q), t = Token(q)
          PROVE  Known(t.id)
      BY <2>2, PendingKnown DEF Arms, Token
    <2>3. ASSUME NEW p \in pending, NEW q, Arms(p, q), t \notin armed \cup fired
          PROVE  t = Token(q)
      BY <2>3 DEF Arms
    <2> QED BY <2>1, <2>2, <2>3 DEF PluginStep, Keeps, Begins, Ends, Drops
  <1>4. \A r \in reports' : Known(r.id)'
    <2> SUFFICES ASSUME NEW r \in reports' PROVE Known(r.id)
      BY <1>1
    <2>1. CASE r \in reports
      BY <2>1 DEF IdsKnown
    <2>2. ASSUME NEW p \in pending, NEW e, Ends(p, e), r = e
          PROVE  Known(r.id)
      BY <2>2, PendingKnown DEF Ends
    <2> QED BY <2>1, <2>2 DEF PluginStep, Keeps, Begins, Arms, Drops, Ends
  <1> QED BY <1>2, <1>3, <1>4 DEF IdsKnown

\* A push that waits for listen stays untouched while it does.
LEMMA StaysUntouched ==
    ASSUME AnswersKept, NEW id, Untouched(id),
           SendsKept, armed' \cup fired' \subseteq armed \cup fired
    PROVE  Untouched(id)'
  BY DEF AnswersKept, Untouched, SendsKept

LEMMA NewIsUntouched ==
    ASSUME PluginInv, IdsKnown, AnswersKept, NEW id, ~Known(id),
           UNCHANGED <<sends, armed, fired>>
    PROVE  Untouched(id)'
  BY SendKnown DEF AnswersKept, Untouched, IdsKnown

LEMMA NextTries ==
    ASSUME PluginInv, PushInv, AnswersKept, PluginStep
    PROVE  TriesOK'
  <1>0. ASSUME NEW p \in pending
        PROVE  /\ p \in Pendings
               /\ p.id \in listens => p.tries = 0 /\ p.retries = 0 /\ Untouched(p.id)
               /\ p.id \notin listens => p.tries = p.retries + 1
    BY ThePending DEF PushInv, TriesOK
  <1>1. CASE Keeps
    <2> SUFFICES ASSUME NEW p \in pending
                 PROVE  /\ p.id \in listens' =>
                              p.tries = 0 /\ p.retries = 0 /\ Untouched(p.id)'
                        /\ p.id \notin listens' => p.tries = p.retries + 1
      BY <1>1 DEF Keeps, TriesOK
    <2>1. p.id \in listens' <=> p.id \in listens
      BY <1>1 DEF Keeps
    <2>2. Untouched(p.id) => Untouched(p.id)'
      BY <1>1, StaysUntouched DEF Keeps
    <2> QED BY <1>0, <2>1, <2>2
  <1>2. ASSUME NEW q, Begins(q)
        PROVE  TriesOK'
    <2>1. ~Known(q.id)
      BY <1>2 DEF Begins, Known
    <2>2. Untouched(q.id)'
      BY <1>2, <2>1, NewIsUntouched DEF Begins, PushInv
    <2>3. pending' = {q} /\ q.id \in listens' /\ q.tries = 0 /\ q.retries = 0
      BY <1>2 DEF Begins
    <2> QED BY <2>2, <2>3 DEF TriesOK
  <1>3. ASSUME NEW p \in pending, NEW q, Arms(p, q)
        PROVE  TriesOK'
    <2>1. Touched(p.id) => ~Untouched(p.id)
      BY DEF Touched, Untouched
    <2>2. q.id = p.id /\ q.id \notin listens' /\ q.tries = q.retries + 1
      BY <1>0, <1>3, <2>1 DEF Arms, Pendings
    <2> QED BY <1>3, <2>2 DEF Arms, TriesOK
  <1>4. ASSUME pending' = {} PROVE TriesOK'
    BY <1>4 DEF TriesOK
  <1> QED BY <1>1, <1>2, <1>3, <1>4 DEF PluginStep, Ends, Drops

LEMMA NextEndsOnce ==
    ASSUME PluginInv, PushInv, PluginStep
    PROVE  EndsOnce'
  <1>1. ASSUME reports' = reports, pending' \subseteq pending
        PROVE  EndsOnce'
    BY <1>1 DEF EndsOnce, PushInv
  <1>2. ASSUME NEW q, Begins(q)
        PROVE  EndsOnce'
    <2>1. ~Known(q.id) /\ pending' = {q} /\ reports' = reports
      BY <1>2 DEF Begins, Known
    <2> QED BY <2>1 DEF EndsOnce, PushInv, IdsKnown
  <1>3. ASSUME NEW p \in pending, NEW q, Arms(p, q)
        PROVE  EndsOnce'
    <2>1. pending' = {q} /\ q.id = p.id /\ reports' = reports
      BY <1>3 DEF Arms
    <2> QED BY <2>1 DEF EndsOnce, PushInv
  <1>4. ASSUME NEW p \in pending, NEW r, Ends(p, r)
        PROVE  EndsOnce'
    <2>1. /\ pending' = {} /\ reports' = reports \cup {r}
          /\ r.id = p.id /\ r.tries = p.tries
      BY <1>4 DEF Ends
    <2>2. r.ending = "timeout" => r.tries = MaxRetries + 1
      <3> SUFFICES ASSUME r.ending = "timeout" PROVE r.tries = MaxRetries + 1
        OBVIOUS
      <3>1. Touched(p.id) /\ p.retries >= MaxRetries
        BY <1>4 DEF Ends
      <3>2. p.id \notin listens
        BY <3>1 DEF PushInv, TriesOK, Touched, Untouched
      <3>3. p.tries = p.retries + 1 /\ p \in Pendings
        BY <3>2, ThePending DEF PushInv, TriesOK
      <3>4. p.retries = MaxRetries
        BY <3>1, <3>3, RetryAssumption DEF Pendings
      <3> QED BY <2>1, <3>3, <3>4
    <2>3. \A q \in reports : q.id # r.id
      BY <2>1 DEF PushInv, EndsOnce
    <2> QED BY <2>1, <2>2, <2>3 DEF PushInv, EndsOnce
  <1> QED BY <1>1, <1>2, <1>3, <1>4 DEF PluginStep, Keeps, Drops

LEMMA NextNeverStuck ==
    ASSUME PluginInv, PushInv, PluginStep
    PROVE  NeverStuck'
  <1>1. CASE Keeps
    <2>1. \A p \in pending : Token(p)' = Token(p)
      BY DEF Token
    <2> QED BY <1>1, <2>1 DEF Keeps, NeverStuck, PushInv
  <1>2. ASSUME NEW q, Begins(q)
        PROVE  NeverStuck'
    BY <1>2 DEF Begins, NeverStuck
  <1>3. ASSUME NEW p \in pending, NEW q, Arms(p, q)
        PROVE  NeverStuck'
    <2>1. Token(q)' = Token(q)
      BY DEF Token
    <2> QED BY <1>3, <2>1 DEF Arms, NeverStuck, PushInv
  <1>4. ASSUME pending' = {}, busy' = FALSE PROVE NeverStuck'
    BY <1>4 DEF NeverStuck
  <1> QED BY <1>1, <1>2, <1>3, <1>4 DEF PluginStep, Ends, Drops

LEMMA PushInvariant == Spec => []PushInv
  <1>1. Init => PushInv
    BY DEF Init, EndpointInit, PluginInit, PushInv, IdsKnown, TriesOK, EndsOnce,
           NeverStuck
  <1>2. LinkInv /\ PushInv /\ [Next]_vars => PushInv'
    <2> SUFFICES ASSUME LinkInv, PushInv, [Next]_vars PROVE PushInv'
      OBVIOUS
    <2>1. PluginInv /\ PluginStep /\ AnswersKept
      BY NextPluginStep, NextAnswers DEF LinkInv, EndpointInv
    <2>2. IdsKnown'
      BY <2>1, IdsStayKnown DEF PushInv
    <2> QED BY <2>1, <2>2, NextTries, NextEndsOnce, NextNeverStuck DEF PushInv
  <1> QED BY <1>1, <1>2, LinkInvariant, PTL DEF Spec

\* However replies, timers, send errors and restarts of either end coincide, no
\* push is reported twice, and none times out before its frame was sent
\* MaxRetries + 1 times (finish, on_timer, arm).
THEOREM PushesEndOnce == Spec => []EndsOnce
  <1>1. PushInv => EndsOnce
    BY DEF PushInv
  <1> QED BY <1>1, PushInvariant, PTL

\* The button is locked exactly while a push is pending, and a pending push has
\* a listen call, a timeout or a timer event to come (start, arm, on_timer).
THEOREM PushesNeverStick == Spec => []NeverStuck
  <1>1. PushInv => NeverStuck
    BY DEF PushInv
  <1> QED BY <1>1, PushInvariant, PTL

-----------------------------------------------------------------------------
(* What the wristband saves                                                *)

\* The transfer holds a beginning of the push u.
PartOf(t, u) ==
    /\ u.id = t.id /\ t.size = Len(u.bytes)
    /\ Len(t.bytes) <= Len(u.bytes)
    /\ t.bytes = SubSeq(u.bytes, 1, Len(t.bytes))

Faithful(r) == \A t \in r.transfer : \E u \in pushes : PartOf(t, u)

DeliveryInv == Faithful(receiver) /\ SavedIsPushed

LEMMA PushBytes ==
    ASSUME PluginInv, NEW u \in pushes
    PROVE  u.id \in Ids /\ u.bytes \in Seq(Byte) /\ Len(u.bytes) \in 1..ScheduleMax
           /\ u = [id |-> u.id, bytes |-> u.bytes]
  BY ScheduleIsSeq DEF PluginInv, PluginTypeOK

\* A beginning of b followed by the part that comes next is a longer beginning.
LEMMA JoinParts ==
    ASSUME NEW b \in Seq(Byte), NEW c \in Seq(Byte), NEW d \in Seq(Byte),
           Len(c) + Len(d) <= Len(b),
           c = SubSeq(b, 1, Len(c)),
           d = SubSeq(b, Len(c) + 1, Len(c) + Len(d))
    PROVE  /\ Len(c \o d) = Len(c) + Len(d)
           /\ c \o d = SubSeq(b, 1, Len(c \o d))
  <1> DEFINE n == Len(c) + Len(d)
             e == SubSeq(b, 1, n)
             j == c \o d
  <1>1. j \in Seq(Byte) /\ Len(j) = n /\ n \in 0..Len(b)
    OBVIOUS
  <1>2. e \in Seq(Byte) /\ Len(e) = n /\ \A i \in 1..n : e[i] = b[i]
    BY <1>1
  <1>3. ASSUME NEW i \in 1..n PROVE j[i] = b[i]
    <2>1. CASE i \in 1..Len(c)
      <3>1. j[i] = c[i] /\ c[i] = SubSeq(b, 1, Len(c))[i]
        BY <2>1
      <3>2. SubSeq(b, 1, Len(c))[i] = b[i]
        BY <2>1, <1>1
      <3> QED BY <3>1, <3>2
    <2>2. CASE i \notin 1..Len(c)
      <3> DEFINE k == i - Len(c)
      <3>1. k \in 1..Len(d) /\ j[i] = d[k]
        BY <1>1, <2>2
      <3>2. d[k] = SubSeq(b, Len(c) + 1, Len(c) + Len(d))[k]
        OBVIOUS
      <3>3. SubSeq(b, Len(c) + 1, Len(c) + Len(d))[k] = b[Len(c) + k]
        BY <1>1, <3>1
      <3> QED BY <3>1, <3>2, <3>3
    <2> QED BY <2>1, <2>2
  <1> QED BY <1>1, <1>2, <1>3

\* What apply does with a frame of a push keeps the transfer faithful, and what
\* it saves is a push.
FaithfulOutcome(o) == Faithful(o.receiver) /\ \A s \in o.saved : s \in pushes

LEMMA PlainOutcome ==
    ASSUME NEW r, Faithful(r), ReceiverOK(r), NEW st, NEW value,
           NEW q \in {r, Reset(r)}
    PROVE  FaithfulOutcome(Outcome(q, st, value))
  <1>1. q.transfer \in {r.transfer, {}}
    BY ResetOK
  <1> QED BY <1>1 DEF FaithfulOutcome, Outcome, Faithful

LEMMA BeginFaithful ==
    ASSUME PluginInv, NEW r, ReceiverOK(r), Faithful(r),
           NEW f \in Frames, FrameOfPush(f), f.op = "BEGIN"
    PROVE  FaithfulOutcome(ApplyBegin(r, f))
  <1> DEFINE opened == [id |-> f.id, size |-> f.value, crc |-> f.payload,
                        bytes |-> <<>>]
             q == [r EXCEPT !.transfer = {opened}]
  <1>1. PICK u \in pushes : u.id = f.id /\ f.value = Len(u.bytes)
    BY DEF FrameOfPush, FrameOf
  <1>2. PartOf(opened, u)
    <2>1. /\ opened.id = u.id /\ opened.size = Len(u.bytes)
          /\ opened.bytes = <<>> /\ Len(opened.bytes) = 0
      BY <1>1
    <2>2. SubSeq(u.bytes, 1, 0) = <<>>
      BY PushBytes
    <2> HIDE DEF opened
    <2> QED BY <2>1, <2>2, PushBytes DEF PartOf
  <1> HIDE DEF opened
  <1>3. q.transfer = {opened}
    BY DEF ReceiverOK, Receivers
  <1>4. FaithfulOutcome(Outcome(q, "Ok", 0))
    BY <1>2, <1>3 DEF FaithfulOutcome, Outcome, Faithful
  <1>5. \/ ApplyBegin(r, f) = Outcome(q, "Ok", 0)
        \/ \E st, value : ApplyBegin(r, f) = Outcome(r, st, value)
    BY DEF ApplyBegin, opened
  <1> QED BY <1>4, <1>5, PlainOutcome

LEMMA DataFaithful ==
    ASSUME PluginInv, NEW r, ReceiverOK(r), Faithful(r),
           NEW f \in Frames, FrameOfPush(f), f.op = "DATA"
    PROVE  FaithfulOutcome(ApplyData(r, f))
  <1> DEFINE t == The(r.transfer)
             grown == [t EXCEPT !.bytes = @ \o f.payload]
             q == [r EXCEPT !.transfer = {grown}]
             inOrder == Addressed(r, f) # {} /\ Fits(r, f) /\ f.value = Held(r)
  <1>1. CASE inOrder
    <2>1. t \in r.transfer /\ t.id = f.id /\ t \in Transfers
      BY <1>1, TheElement DEF Addressed, ReceiverOK, Receivers
    <2>2. PICK u \in pushes : PartOf(t, u)
      BY <2>1 DEF Faithful
    <2>3. FrameOf(f, u.bytes)
      BY <2>1, <2>2 DEF FrameOfPush, PartOf, PluginInv
    <2> DEFINE b == u.bytes
               c == t.bytes
               d == f.payload
    <2>4. /\ b \in Seq(Byte) /\ c \in Seq(Byte) /\ d \in Seq(Byte)
          /\ f.value = Len(c)
      BY <1>1, <2>1, PushBytes DEF Transfers, Frames, Held
    <2>5. /\ Len(c) + Len(d) <= Len(b) /\ c = SubSeq(b, 1, Len(c))
          /\ d = SubSeq(b, Len(c) + 1, Len(c) + Len(d))
      BY <2>2, <2>3, <2>4 DEF FrameOf, PartOf
    <2>6. Len(c \o d) = Len(c) + Len(d) /\ c \o d = SubSeq(b, 1, Len(c \o d))
      BY <2>4, <2>5, JoinParts
    <2>7. grown.id = t.id /\ grown.size = t.size /\ grown.bytes = c \o d
      BY <2>1 DEF Transfers
    <2> HIDE DEF t, grown, b, c, d
    <2>8. PartOf(grown, u)
      BY <2>2, <2>5, <2>6, <2>7 DEF PartOf, b
    <2>9. q.transfer = {grown}
      BY DEF ReceiverOK, Receivers
    <2>10. FaithfulOutcome(Outcome(q, "Ok", End(f)))
      BY <2>8, <2>9 DEF FaithfulOutcome, Outcome, Faithful
    <2>11. \/ ApplyData(r, f) = Outcome(q, "Ok", End(f))
           \/ \E st, value : ApplyData(r, f) = Outcome(r, st, value)
      BY DEF ApplyData, grown, t
    <2> QED BY <2>10, <2>11, PlainOutcome
  <1>2. CASE ~inOrder
    <2>1. \E st, value : ApplyData(r, f) = Outcome(r, st, value)
      BY <1>2 DEF ApplyData
    <2> QED BY <2>1, PlainOutcome
  <1> QED BY <1>1, <1>2

LEMMA CommitFaithful ==
    ASSUME PluginInv, NEW r, ReceiverOK(r), Faithful(r), NEW f, NEW answer
    PROVE  FaithfulOutcome(ApplyCommit(r, f, answer))
  <1> DEFINE t == The(r.transfer)
             whole == Addressed(r, f) # {} /\ Held(r) = t.size
             s == [id |-> f.id, bytes |-> t.bytes]
             o == [Outcome(AfterCommit(r, f, answer.count), "Ok", answer.count)
                       EXCEPT !.saved = {s}]
  <1>1. CASE whole
    <2>1. t \in r.transfer /\ t.id = f.id /\ t \in Transfers /\ t.size = Len(t.bytes)
      BY <1>1, TheElement DEF Addressed, ReceiverOK, Receivers, Held
    <2>2. PICK u \in pushes : PartOf(t, u)
      BY <2>1 DEF Faithful
    <2>3. SubSeq(u.bytes, 1, Len(u.bytes)) = u.bytes
      BY PushBytes
    <2>4. s = u
      BY <2>1, <2>2, <2>3, PushBytes DEF PartOf
    <2> HIDE DEF s
    <2>5. o.receiver.transfer = {} /\ o.saved = {s}
      BY DEF Outcome, AfterCommit
    <2>6. FaithfulOutcome(o)
      BY <2>4, <2>5 DEF FaithfulOutcome, Faithful
    <2>7. \/ ApplyCommit(r, f, answer) = o
          \/ \E q \in {r, Reset(r)} : \E st, value :
                 ApplyCommit(r, f, answer) = Outcome(q, st, value)
      BY DEF ApplyCommit, s
    <2> QED BY <2>6, <2>7, PlainOutcome
  <1>2. CASE ~whole
    <2>1. \E st, value : ApplyCommit(r, f, answer) = Outcome(r, st, value)
      BY <1>2 DEF ApplyCommit
    <2> QED BY <2>1, PlainOutcome
  <1> QED BY <1>1, <1>2

LEMMA ApplyFaithful ==
    ASSUME PluginInv, NEW r, ReceiverOK(r), Faithful(r),
           NEW f \in Frames, FrameOfPush(f), Decodes(f), NEW answer
    PROVE  FaithfulOutcome(Apply(r, f, answer))
  <1>1. CASE f.op = "HELLO"
    <2>1. \E st, value : Apply(r, f, answer) = Outcome(r, st, value)
      BY <1>1 DEF Apply, ApplyHello
    <2> QED BY <2>1, PlainOutcome
  <1>2. CASE f.op = "BEGIN"
    BY <1>2, BeginFaithful DEF Apply
  <1>3. CASE f.op = "DATA"
    BY <1>3, DataFaithful DEF Apply
  <1>4. CASE f.op = "COMMIT"
    BY <1>4, CommitFaithful DEF Apply
  <1>5. CASE f.op = "ABORT"
    <2>1. \E q \in {r, Reset(r)} : \E st, value :
              Apply(r, f, answer) = Outcome(q, st, value)
      BY <1>5 DEF Apply, ApplyAbort
    <2> QED BY <2>1, PlainOutcome
  <1> QED BY <1>1, <1>2, <1>3, <1>4, <1>5 DEF Decodes, Ops

\* A step saves nothing or one push, and no step takes a save back.
SavesGrow == saves' = saves \/ \E u \in pushes : saves' = Append(saves, u)

\* The wristband keeps its transfer as it is or gives it up.
Quiet ==
    /\ saves' = saves
    /\ receiver'.transfer \in {receiver.transfer, {}}

LEMMA ArrivesOrQuiet ==
    ASSUME LinkInv, [Next]_vars
    PROVE  \/ Quiet
           \/ \E s \in sends, d \in Deliveries, io \in {"Ok", "Io"} :
                 OnMessage(s.frame, io, d)
  <1>1. CASE UNCHANGED endpointVars
    BY <1>1 DEF endpointVars, Quiet
  <1>2. ASSUME NEW s \in sends, RequestArrives(s)
        PROVE  \E d \in Deliveries, io \in {"Ok", "Io"} : OnMessage(s.frame, io, d)
    BY <1>2 DEF RequestArrives
  <1>3. ASSUME NEW r \in sent, Arrive(r)
        PROVE  Quiet
    BY <1>3 DEF Arrive, Quiet
  <1>4. Reset(receiver).transfer = {} /\ Reset(Reset(receiver)).transfer = {}
    BY ReceiverInv, ResetOK DEF LinkInv
  <1>5. CASE Started \/ Rebooted \/ UserAborts \/ UserClears
    BY <1>4, <1>5 DEF Started, Rebooted, UserAborts, UserClears, Start, Reboot,
                      Abort, ClearSchedule, Quiet, ReceiverDefault
  <1>6. CASE Flushed \/ MinutePassed
    BY <1>4, <1>6 DEF Flushed, MinutePassed, Tick, Flush, Quiet
  <1> QED BY <1>1, <1>2, <1>3, <1>5, <1>6
      DEF Next, vars, Push, PushRefused, Listened, TimerEvent, Timeout,
          PluginRestarts, SendError, RequestLost, AnswerArrives, AnswerLost

LEMMA NextDelivery ==
    ASSUME LinkInv, DeliveryInv, [Next]_vars
    PROVE  SavesGrow /\ DeliveryInv'
  <1>1. PluginInv /\ EndpointInv /\ ReceiverOK(receiver) /\ saves \in Seq(Saves)
    BY ReceiverInv DEF LinkInv, EndpointInv, EndpointTypeOK
  <1>2. pushes \subseteq pushes'
    BY <1>1, NextPluginStep
    DEF EndpointInv, PluginStep, Keeps, Begins, Arms, Ends, Drops
  <1>3. ASSUME SavesGrow,
               \A t \in receiver'.transfer : \E u \in pushes : PartOf(t, u)
        PROVE  DeliveryInv'
    <2>1. Faithful(receiver)'
      BY <1>2, <1>3 DEF Faithful
    <2>2. ASSUME NEW u \in pushes, saves' = Append(saves, u)
          PROVE  SavedIsPushed'
      <3>1. \A i \in DOMAIN saves' : saves'[i] = u \/ (i \in DOMAIN saves /\ saves'[i] = saves[i])
        BY <1>1, <2>2
      <3> QED BY <1>2, <3>1 DEF DeliveryInv, SavedIsPushed
    <2>3. SavedIsPushed'
      BY <1>2, <1>3, <2>2 DEF SavesGrow, DeliveryInv, SavedIsPushed
    <2> QED BY <2>1, <2>3 DEF DeliveryInv
  <1>4. CASE Quiet
    BY <1>3, <1>4 DEF Quiet, SavesGrow, DeliveryInv, Faithful
  <1>5. ASSUME NEW s \in sends, NEW d \in Deliveries, NEW io \in {"Ok", "Io"},
               OnMessage(s.frame, io, d)
        PROVE  SavesGrow /\ DeliveryInv'
    <2> DEFINE o == Apply(receiver, s.frame, Commit(io))
    <2>1. s.frame \in Frames /\ FrameOfPush(s.frame) /\ Decodes(s.frame)
      BY <1>1, <1>5, SendFrame DEF OnMessage, Handles
    <2>2. FaithfulOutcome(o)
      BY <1>1, <2>1, ApplyFaithful DEF DeliveryInv
    <2>3. receiver' \in {o.receiver, Reset(o.receiver)} /\ Keep(o.saved)
      BY <1>5 DEF OnMessage, Flush
    <2>4. ReceiverOK(o.receiver)
      BY <1>1, <2>1, ApplyOK, CommitAnswer DEF OutcomeOK
    <2> HIDE DEF o
    <2>5. receiver'.transfer \in {o.receiver.transfer, {}}
      BY <2>3, <2>4, ResetOK
    <2>6. o.saved # {} => The(o.saved) \in pushes
      BY <2>2 DEF The, FaithfulOutcome
    <2>7. SavesGrow
      BY <2>3, <2>6 DEF Keep, SavesGrow
    <2> QED BY <1>3, <2>2, <2>5, <2>7 DEF FaithfulOutcome, Faithful
  <1> QED BY <1>4, <1>5, ArrivesOrQuiet

LEMMA DeliveryInvariant == Spec => []DeliveryInv
  <1>1. Init => DeliveryInv
    BY DEF Init, EndpointInit, ReceiverDefault, DeliveryInv, Faithful, SavedIsPushed
  <1>2. LinkInv /\ DeliveryInv /\ [Next]_vars => DeliveryInv'
    BY NextDelivery
  <1> QED BY <1>1, <1>2, LinkInvariant, PTL DEF Spec

\* Whatever is lost, repeated, reordered or restarted, what the wristband saves
\* is a push of the user's, byte for byte, under the id it was pushed with, also
\* where the checksum cannot tell two schedules apart (Receiver::apply).
THEOREM SavesArePushes == Spec => []SavedIsPushed
  <1>1. DeliveryInv => SavedIsPushed
    BY DEF DeliveryInv
  <1> QED BY <1>1, DeliveryInvariant, PTL

LEMMA NextSuccess ==
    ASSUME LinkInv, DeliveryInv, SuccessIsSaved, [Next]_vars
    PROVE  SuccessIsSaved'
  <1>1. PluginInv /\ EndpointInv /\ PluginStep /\ SavesGrow /\ saves \in Seq(Saves)
    BY NextPluginStep, NextDelivery DEF LinkInv, EndpointInv, EndpointTypeOK
  <1>2. \A i \in DOMAIN saves : i \in DOMAIN saves' /\ saves'[i] = saves[i]
    <2>1. ASSUME NEW u \in pushes, saves' = Append(saves, u)
          PROVE  \A i \in DOMAIN saves : i \in DOMAIN saves' /\ saves'[i] = saves[i]
      BY <1>1, <2>1
    <2> QED BY <1>1, <2>1 DEF SavesGrow
  <1>3. ASSUME NEW r \in reports', r.ending = "success", r \notin reports
        PROVE  \E i \in DOMAIN saves : /\ saves[i].id = r.id
                                       /\ r.count = CourseCount(saves[i].bytes)
    <2>1. \E p \in pending : Ends(p, r)
      BY <1>1, <1>3 DEF PluginStep, Keeps, Begins, Arms, Drops, Ends
    <2>2. \E f \in sent : /\ f.op = "COMMIT" /\ f.status = "Ok"
                          /\ f.id = r.id /\ f.value = r.count
      BY <1>3, <2>1 DEF Ends
    <2> QED BY <1>1, <2>2 DEF EndpointInv, ConfirmedIsSaved
  <1> QED BY <1>2, <1>3 DEF SuccessIsSaved

\* A push the user is told was successful was saved, with the course count the
\* user is told (on_frame's Progress::Complete).
THEOREM SuccessesAreSaved == Spec => []SuccessIsSaved
  <1>1. Init => SuccessIsSaved
    BY DEF Init, PluginInit, SuccessIsSaved
  <1>2. LinkInv /\ DeliveryInv /\ SuccessIsSaved /\ [Next]_vars => SuccessIsSaved'
    BY NextSuccess
  <1> QED BY <1>1, <1>2, LinkInvariant, DeliveryInvariant, PTL DEF Spec

SuccessIsDelivered ==
    \A r \in reports, u \in pushes :
        r.ending = "success" /\ u.id = r.id =>
            /\ \E i \in DOMAIN saves : saves[i] = u
            /\ r.count = CourseCount(u.bytes)

\* A push that is reported successful was saved exactly as the user pushed it,
\* and the count reported is that of the schedule pushed: the user is never told
\* of another schedule's arrival (on_frame).
THEOREM SuccessesAreDelivered == Spec => []SuccessIsDelivered
  <1>1. LinkInv /\ SavedIsPushed /\ SuccessIsSaved => SuccessIsDelivered
    <2> SUFFICES ASSUME LinkInv, SavedIsPushed, SuccessIsSaved,
                        NEW r \in reports, NEW u \in pushes,
                        r.ending = "success", u.id = r.id
                 PROVE  /\ \E i \in DOMAIN saves : saves[i] = u
                        /\ r.count = CourseCount(u.bytes)
      BY DEF SuccessIsDelivered
    <2>1. PICK i \in DOMAIN saves : saves[i].id = r.id /\ r.count = CourseCount(saves[i].bytes)
      BY DEF SuccessIsSaved
    <2>2. saves[i] = u
      BY <2>1 DEF SavedIsPushed, LinkInv, PluginInv
    <2> QED BY <2>1, <2>2
  <1> QED BY <1>1, LinkInvariant, SavesArePushes, SuccessesAreSaved, PTL

-----------------------------------------------------------------------------
(* The two ends implement the push service                                 *)

\* No step moves both ends, as far as the service tells them apart.
LEMMA OneEndMoves ==
    ASSUME [Next]_vars
    PROVE  \/ UNCHANGED <<pending, pushes, reports>>
           \/ UNCHANGED <<file, saves>>
  <1>1. CASE UNCHANGED endpointVars \/ UNCHANGED pluginVars
    BY <1>1 DEF endpointVars, pluginVars
  <1>2. ASSUME NEW s \in sends, RequestArrives(s)
        PROVE  UNCHANGED <<pending, pushes, reports>>
    BY <1>2 DEF RequestArrives, SendOk
  <1>3. ASSUME NEW r \in sent, AnswerArrives(r)
        PROVE  UNCHANGED <<file, saves>>
    BY <1>3 DEF AnswerArrives, Arrive
  <1> QED BY <1>1, <1>2, <1>3
      DEF Next, vars, Push, PushRefused, Listened, TimerEvent, Timeout,
          PluginRestarts, SendError, RequestLost, AnswerLost, Started, Rebooted,
          Flushed, MinutePassed, UserAborts, UserClears

\* The wristband's part of the service.
Stores(u) == ValidImport(u.bytes) /\ saves' = Append(saves, u) /\ file' = {u.bytes}

LEMMA WristbandServes ==
    ASSUME LinkInv, DeliveryInv, [Next]_vars
    PROVE  \/ saves' = saves /\ file' \in {file, {}}
           \/ \E u \in pushes : Stores(u)
  <1>1. PluginInv /\ EndpointInv /\ ReceiverOK(receiver) /\ saves \in Seq(Saves)
    BY ReceiverInv DEF LinkInv, EndpointInv, EndpointTypeOK
  <1>2. CASE UNCHANGED endpointVars
    BY <1>2 DEF endpointVars
  <1>3. ASSUME NEW s \in sends, NEW d \in Deliveries, NEW io \in {"Ok", "Io"},
               OnMessage(s.frame, io, d)
        PROVE  \/ saves' = saves /\ file' \in {file, {}}
               \/ \E u \in pushes : Stores(u)
    <2> DEFINE o == Apply(receiver, s.frame, Commit(io))
    <2>1. s.frame \in Frames /\ FrameOfPush(s.frame) /\ Decodes(s.frame)
      BY <1>1, <1>3, SendFrame DEF OnMessage, Handles
    <2>2. FaithfulOutcome(o) /\ Keep(o.saved)
      BY <1>1, <1>3, <2>1, ApplyFaithful DEF DeliveryInv, OnMessage
    <2> HIDE DEF o
    <2>3. CASE o.saved = {}
      BY <2>2, <2>3 DEF Keep
    <2>4. CASE o.saved # {}
      <3> DEFINE u == The(o.saved)
      <3>1. u \in pushes
        BY <2>2, <2>4 DEF The, FaithfulOutcome
      <3>2. saves' = Append(saves, u) /\ file' = {u.bytes}
        BY <2>2, <2>4 DEF Keep
      <3> HIDE DEF u
      <3>3. \A i \in DOMAIN saves' : ValidImport(saves'[i].bytes)
        BY <1>1, NextEndpointInv DEF EndpointInv, TransferFits
      <3>4. u \in Saves
        BY <1>1, <3>1 DEF Saves, PluginInv, PluginTypeOK, Ids, Word
      <3>5. Len(saves') \in DOMAIN saves' /\ saves'[Len(saves')] = u
        BY <1>1, <3>2, <3>4
      <3> QED BY <3>1, <3>2, <3>3, <3>5 DEF Stores
    <2> QED BY <2>3, <2>4
  <1>4. ASSUME NEW s \in sends, RequestArrives(s)
        PROVE  \E d \in Deliveries, io \in {"Ok", "Io"} : OnMessage(s.frame, io, d)
    BY <1>4 DEF RequestArrives
  <1>5. ASSUME NEW r \in sent, Arrive(r)
        PROVE  saves' = saves /\ file' = file
    BY <1>5 DEF Arrive
  <1>6. CASE Started \/ Rebooted \/ UserAborts \/ UserClears
    BY <1>6 DEF Started, Rebooted, UserAborts, UserClears, Start, Reboot, Abort,
                ClearSchedule
  <1>7. CASE Flushed \/ MinutePassed
    BY <1>7 DEF Flushed, MinutePassed, Tick
  <1> QED BY <1>2, <1>3, <1>4, <1>5, <1>6, <1>7
      DEF Next, vars, Push, PushRefused, Listened, TimerEvent, Timeout,
          PluginRestarts, SendError, RequestLost, AnswerArrives, AnswerLost

\* The plugin's part of the service: the push under way is the pending one.
UnderWay == {PushOf(p) : p \in pending}

LEMMA OneUnderWay ==
    ASSUME PluginInv, NEW p \in pending
    PROVE  UnderWay = {PushOf(p)} /\ PushOf(p) \in pushes /\ PushOf(p).id = p.id
  <1>1. pending = {p} /\ PendingOK(p)
    BY ThePending
  <1> QED BY <1>1 DEF UnderWay, PushOf, PendingOK

PhoneServes ==
    \/ UNCHANGED <<UnderWay, pushes, reports>>
    \/ \E u \in UnderWay' :
          /\ UnderWay = {} /\ UnderWay' = {u}
          /\ u \in [id : Ids, bytes : Schedules] /\ \A v \in pushes : v.id # u.id
          /\ pushes' = pushes \cup {u} /\ reports' = reports
    \/ \E u \in UnderWay, r \in reports' :
          /\ r.id = u.id
          /\ r.ending = "success" =>
                r.count = CourseCount(u.bytes) /\ \E i \in DOMAIN saves : saves[i] = u
          /\ UnderWay' = {} /\ reports' = reports \cup {r} /\ pushes' = pushes
    \/ UnderWay # {} /\ UnderWay' = {} /\ UNCHANGED <<pushes, reports>>

LEMMA PluginServes ==
    ASSUME LinkInv, DeliveryInv, PluginStep
    PROVE  PhoneServes
  <1>1. PluginInv /\ EndpointInv /\ \A u, v \in pushes : u.id = v.id => u = v
    BY DEF LinkInv, PluginInv
  <1>2. pending' = {} => UnderWay' = {}
    BY DEF UnderWay
  <1>3. CASE Keeps
    BY <1>3 DEF Keeps, PhoneServes, UnderWay
  <1>4. CASE Drops
    BY <1>2, <1>4 DEF Drops, PhoneServes
  <1>5. ASSUME NEW q, Begins(q)
        PROVE  PhoneServes
    <2> DEFINE u == PushOf(q)
    <2>1. /\ u.id = q.id /\ u \in [id : Ids, bytes : Schedules]
          /\ pushes' = pushes \cup {u}
      BY <1>5 DEF Begins, Pendings, SenderOK, Senders, PushOf
    <2>2. UnderWay = {} /\ UnderWay' = {u}
      BY <1>5 DEF Begins, UnderWay
    <2> HIDE DEF u
    <2> QED BY <1>5, <2>1, <2>2 DEF PhoneServes, Begins
  <1>6. ASSUME NEW p \in pending, NEW q, Arms(p, q)
        PROVE  PhoneServes
    <2>1. PushOf(q) \in pushes /\ PushOf(q).id = p.id
      BY <1>6 DEF Arms, PendingOK, PushOf
    <2>2. UnderWay = {PushOf(p)} /\ PushOf(p) \in pushes /\ PushOf(p).id = p.id
      BY <1>1, OneUnderWay
    <2>3. PushOf(q) = PushOf(p)
      BY <1>1, <2>1, <2>2
    <2>4. UnderWay' = {PushOf(q)}
      BY <1>6 DEF Arms, UnderWay
    <2> QED BY <1>6, <2>2, <2>3, <2>4 DEF Arms, PhoneServes
  <1>7. ASSUME NEW p \in pending, NEW r, Ends(p, r)
        PROVE  PhoneServes
    <2> DEFINE u == PushOf(p)
    <2>1. UnderWay = {u} /\ u \in pushes /\ u.id = p.id
      BY <1>1, OneUnderWay
    <2> HIDE DEF u
    <2>2. ASSUME r.ending = "success"
          PROVE  r.count = CourseCount(u.bytes) /\ \E i \in DOMAIN saves : saves[i] = u
      <3>1. PICK i \in DOMAIN saves : /\ saves[i].id = p.id
                                      /\ r.count = CourseCount(saves[i].bytes)
        BY <1>1, <1>7, <2>2 DEF Ends, EndpointInv, ConfirmedIsSaved
      <3>2. saves[i] = u
        BY <1>1, <2>1, <3>1 DEF DeliveryInv, SavedIsPushed
      <3> QED BY <3>1, <3>2
    <2>3. UnderWay' = {}
      BY <1>2, <1>7 DEF Ends
    <2> QED BY <1>7, <2>1, <2>2, <2>3 DEF Ends, PhoneServes
  <1> QED BY <1>3, <1>4, <1>5, <1>6, <1>7 DEF PluginStep

LEMMA StepServes ==
    ASSUME LinkInv, DeliveryInv, [Next]_vars
    PROVE  [Service!ServiceNext]_<<pushes, UnderWay, saves, file, reports>>
  <1> DEFINE served == <<pushes, UnderWay, saves, file, reports>>
  <1>1. CASE UNCHANGED <<pending, pushes, reports>>
    <2>1. UNCHANGED <<pushes, UnderWay, reports>>
      BY <1>1 DEF UnderWay
    <2>2. ASSUME NEW u \in pushes, Stores(u)
          PROVE  Service!ServiceNext
      <3>1. Service!Save(u)
        BY <2>1, <2>2 DEF Service!Save, Stores, UnderWay
      <3> QED BY <3>1 DEF Service!ServiceNext
    <2>3. CASE saves' = saves /\ file' = {}
      <3>1. Service!Clear
        BY <2>1, <2>3 DEF Service!Clear, UnderWay
      <3> QED BY <3>1 DEF Service!ServiceNext
    <2> QED BY <2>1, <2>2, <2>3, WristbandServes
  <1>2. CASE UNCHANGED <<file, saves>>
    <2>1. PhoneServes
      BY NextPluginStep, PluginServes DEF LinkInv, EndpointInv
    <2>2. ASSUME NEW u \in UnderWay',
                 UnderWay = {} /\ UnderWay' = {u},
                 u \in [id : Ids, bytes : Schedules] /\ \A v \in pushes : v.id # u.id,
                 pushes' = pushes \cup {u} /\ reports' = reports
          PROVE  Service!ServiceNext
      <3>1. Service!Begin(u)
        BY <1>2, <2>2 DEF Service!Begin, UnderWay
      <3> QED BY <2>2, <3>1 DEF Service!ServiceNext, UnderWay
    <2>3. ASSUME NEW u \in UnderWay, NEW r \in reports', r.id = u.id,
                 r.ending = "success" =>
                     r.count = CourseCount(u.bytes) /\ \E i \in DOMAIN saves : saves[i] = u,
                 UnderWay' = {} /\ reports' = reports \cup {r} /\ pushes' = pushes
          PROVE  Service!ServiceNext
      <3>1. Service!End(u, r)
        BY <1>2, <2>3 DEF Service!End, UnderWay
      <3> QED BY <2>3, <3>1 DEF Service!ServiceNext, UnderWay
    <2>4. CASE UnderWay # {} /\ UnderWay' = {} /\ UNCHANGED <<pushes, reports>>
      <3>1. Service!Forget
        BY <1>2, <2>4 DEF Service!Forget, UnderWay
      <3> QED BY <3>1 DEF Service!ServiceNext
    <2> QED BY <1>2, <2>1, <2>2, <2>3, <2>4 DEF PhoneServes
  <1> QED BY <1>1, <1>2, OneEndMoves

\* The plugin and the wristband implement the push service: each step of theirs
\* begins, ends or forgets the push under way, saves a push as it was pushed,
\* clears the file, or is invisible to the user; success is told only of a push
\* saved before, with its count (start_push, on_frame, on_message).
THEOREM TransferServesPushes == Spec => PushesAreServed
  <1>1. Init => Service!ServiceInit
    BY DEF Init, PluginInit, EndpointInit, Service!ServiceInit
  <1>2. LinkInv /\ DeliveryInv /\ [Next]_vars =>
            [Service!ServiceNext]_<<pushes, UnderWay, saves, file, reports>>
    BY StepServes
  <1> QED BY <1>1, <1>2, LinkInvariant, DeliveryInvariant, PTL
      DEF Spec, PushesAreServed, Service!ServiceSpec, Service!serviceVars, UnderWay
=============================================================================
