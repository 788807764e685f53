--------------------------- MODULE EndpointProofs ---------------------------
(* What the Endpoint guarantees whatever frames reach it, in whatever order. *)
EXTENDS Endpoint, TLAPS

\* The part of the invariant that is about the Receiver alone.
ReceiverOK(r) ==
    /\ r \in Receivers
    /\ Single(r.transfer) /\ Single(r.committed)
    /\ \A t \in r.transfer : Len(t.bytes) <= t.size

\* What a commit callback may answer for the transfer it is given.
AnswerOK(r, answer) ==
    \A t \in r.transfer :
        t.bytes \in Schedules => answer.status \in Statuses /\ answer.count \in Word

LEMMA TheElement ==
    ASSUME NEW S, NEW x \in S, Single(S)
    PROVE  The(S) = x
  BY DEF The, Single

LEMMA ScheduleBytes ==
    ASSUME NEW b \in Seq(Byte), Len(b) \in 1..ScheduleMax
    PROVE  b \in Schedules
  <1>1. b \in [1..Len(b) -> Byte]
    OBVIOUS
  <1> QED BY <1>1 DEF Schedules

LEMMA ResetOK ==
    ASSUME NEW r, ReceiverOK(r)
    PROVE  /\ ReceiverOK(Reset(r))
           /\ Reset(r).transfer = {}
           /\ Reset(r).committed = r.committed
  BY DEF ReceiverOK, Reset, Receivers, Single

\* What every outcome of apply satisfies, with f the request and r the receiver.
OutcomeOK(r, f, answer, o) ==
    /\ ReceiverOK(o.receiver)
    /\ o.status \in Statuses
    /\ o.value \in Word
    /\ \A t \in r.transfer, u \in o.receiver.transfer :
          /\ u.id = t.id /\ u.size = t.size /\ u.crc = t.crc
          /\ Len(u.bytes) >= Len(t.bytes)
          /\ SubSeq(u.bytes, 1, Len(t.bytes)) = t.bytes
    /\ \/ /\ o.saved = {}
          /\ o.receiver.committed = r.committed
          /\ f.op = "COMMIT" /\ o.status = "Ok" =>
                \E c \in r.committed : c.id = f.id /\ c.count = o.value
       \/ /\ f.op = "COMMIT"
          /\ answer.status = "Ok"
          /\ \A c \in r.committed : c.id # f.id
          /\ o.receiver.committed = {[id |-> f.id, count |-> answer.count]}
          /\ o.value = answer.count
          /\ \E t \in r.transfer :
                t.bytes \in Schedules /\ o.saved = {[id |-> f.id, bytes |-> t.bytes]}

LEMMA SameTransfer ==
    ASSUME NEW r, ReceiverOK(r)
    PROVE  \A t \in r.transfer, u \in r.transfer :
              /\ u.id = t.id /\ u.size = t.size /\ u.crc = t.crc
              /\ Len(u.bytes) >= Len(t.bytes)
              /\ SubSeq(u.bytes, 1, Len(t.bytes)) = t.bytes
  <1> SUFFICES ASSUME NEW t \in r.transfer
               PROVE  /\ Len(t.bytes) >= Len(t.bytes)
                      /\ SubSeq(t.bytes, 1, Len(t.bytes)) = t.bytes
    BY DEF ReceiverOK, Single
  <1>1. t.bytes \in Seq(Byte)
    BY DEF ReceiverOK, Receivers, Transfers
  <1> QED BY <1>1

\* An outcome that leaves the receiver alone and confirms no commit.
LEMMA KeptOK ==
    ASSUME NEW r, ReceiverOK(r), NEW f, NEW answer,
           NEW status \in Statuses, NEW value \in Word,
           f.op = "COMMIT" /\ status = "Ok" =>
               \E c \in r.committed : c.id = f.id /\ c.count = value
    PROVE  OutcomeOK(r, f, answer, Outcome(r, status, value))
  BY SameTransfer DEF OutcomeOK, Outcome

\* An outcome that ends the transfer without a commit.
LEMMA EndedOK ==
    ASSUME NEW r, ReceiverOK(r), NEW f, NEW answer,
           NEW status \in Statuses, NEW value \in Word,
           f.op # "COMMIT" \/ status # "Ok"
    PROVE  OutcomeOK(r, f, answer, Outcome(Reset(r), status, value))
  BY ResetOK DEF OutcomeOK, Outcome

LEMMA ConcatKeepsPrefix ==
    ASSUME NEW b \in Seq(Byte), NEW c \in Seq(Byte)
    PROVE  /\ b \o c \in Seq(Byte)
           /\ Len(b \o c) >= Len(b)
           /\ SubSeq(b \o c, 1, Len(b)) = b
  <1> DEFINE p == SubSeq(b \o c, 1, Len(b))
  <1>1. b \o c \in Seq(Byte) /\ Len(b \o c) = Len(b) + Len(c)
    OBVIOUS
  <1>2. p \in Seq(Byte) /\ Len(p) = Len(b)
    BY <1>1
  <1>3. \A i \in 1..Len(b) : p[i] = b[i]
    BY <1>1
  <1> QED BY <1>1, <1>2, <1>3

LEMMA PutOK ==
    ASSUME NEW r, ReceiverOK(r), NEW t \in Transfers, Len(t.bytes) <= t.size
    PROVE  ReceiverOK([r EXCEPT !.transfer = {t}])
  <1> DEFINE q == [r EXCEPT !.transfer = {t}]
  <1>1. r \in Receivers /\ Single(r.committed)
    BY DEF ReceiverOK
  <1>2. q.transfer = {t} /\ q.committed = r.committed /\ q \in Receivers
    BY <1>1 DEF Receivers
  <1> QED BY <1>1, <1>2 DEF ReceiverOK, Single

LEMMA HeldWord ==
    ASSUME NEW r, ReceiverOK(r), r.transfer # {}
    PROVE  Held(r) \in 0..ScheduleMax /\ Held(r) \in Word
  <1>1. PICK t \in r.transfer : TRUE
    OBVIOUS
  <1>2. The(r.transfer) = t
    BY <1>1, TheElement DEF ReceiverOK
  <1>3. t.bytes \in Seq(Byte) /\ t.size \in 1..ScheduleMax /\ Len(t.bytes) <= t.size
    BY <1>1 DEF ReceiverOK, Receivers, Transfers
  <1> QED BY <1>2, <1>3, SizeAssumption DEF Held, Word

-----------------------------------------------------------------------------
(* One lemma per operation of apply                                        *)

LEMMA HelloOK ==
    ASSUME NEW r, ReceiverOK(r), NEW f \in Frames, NEW answer, f.op = "HELLO"
    PROVE  OutcomeOK(r, f, answer, ApplyHello(r, f))
  <1>1. 0 \in Word /\ ScheduleMax \in Word
    BY SizeAssumption DEF Word
  <1> QED BY <1>1, KeptOK DEF ApplyHello, Statuses

LEMMA BeginOK ==
    ASSUME NEW r, ReceiverOK(r), NEW f \in Frames, NEW answer, f.op = "BEGIN"
    PROVE  OutcomeOK(r, f, answer, ApplyBegin(r, f))
  <1> DEFINE opened == [id |-> f.id, size |-> f.value, crc |-> f.payload,
                        bytes |-> <<>>]
             opening == Outcome([r EXCEPT !.transfer = {opened}], "Ok", 0)
             malformed == Len(f.payload) # 4 \/ f.id = 0
  <1>1. 0 \in Word
    BY SizeAssumption DEF Word
  <1>2. CASE ~malformed /\ ~Oversize(f) /\ Opens(r, f)
    <2>1. opened \in Transfers /\ Len(opened.bytes) <= opened.size
      BY <1>2, SizeAssumption DEF Transfers, Frames, Word, Ids, Oversize
    <2>2. ReceiverOK([r EXCEPT !.transfer = {opened}])
      BY <2>1, PutOK
    <2>3. OutcomeOK(r, f, answer, opening)
      BY <1>1, <1>2, <2>2 DEF OutcomeOK, Outcome, Statuses, ReceiverOK, Receivers, Opens
    <2>4. ApplyBegin(r, f) = opening
      BY <1>2 DEF ApplyBegin, Addressed, RepeatedBegin, Opens
    <2> QED BY <2>3, <2>4
  <1>3. CASE RepeatedBegin(r, f) /\ ~Opens(r, f)
    <2>1. Held(r) \in Word
      BY <1>3, HeldWord DEF RepeatedBegin, Addressed
    <2>2. \/ ApplyBegin(r, f) = Outcome(r, "Ok", Held(r))
          \/ ApplyBegin(r, f) = Outcome(r, "Invalid", 0)
          \/ ApplyBegin(r, f) = Outcome(r, "TooLarge", 0)
          \/ ApplyBegin(r, f) = Outcome(r, "Busy", 0)
      BY <1>3 DEF ApplyBegin
    <2> QED BY <1>1, <2>1, <2>2, KeptOK DEF Statuses
  <1>4. CASE malformed \/ Oversize(f) \/ (~Opens(r, f) /\ ~RepeatedBegin(r, f))
    <2>1. \/ ApplyBegin(r, f) = Outcome(r, "Invalid", 0)
          \/ ApplyBegin(r, f) = Outcome(r, "TooLarge", 0)
          \/ ApplyBegin(r, f) = Outcome(r, "Busy", 0)
          \/ ApplyBegin(r, f) = Outcome(r, "Sequence", 0)
      BY <1>4 DEF ApplyBegin
    <2> QED BY <1>1, <2>1, KeptOK DEF Statuses
  <1> QED BY <1>2, <1>3, <1>4

LEMMA DataOK ==
    ASSUME NEW r, ReceiverOK(r), NEW f \in Frames, NEW answer, f.op = "DATA"
    PROVE  OutcomeOK(r, f, answer, ApplyData(r, f))
  <1> DEFINE t == The(r.transfer)
             known == f.payload # <<>> /\ Addressed(r, f) # {} /\ End(f) <= MaxWord
             inOrder == Fits(r, f) /\ f.value = Held(r)
             grown == [t EXCEPT !.bytes = @ \o f.payload]
             growing == Outcome([r EXCEPT !.transfer = {grown}], "Ok", End(f))
  <1>1. 0 \in Word
    BY SizeAssumption DEF Word
  <1>2. End(f) \in Int /\ MaxWord \in Int
    BY SizeAssumption DEF End, Frames, Word
  <1>3. CASE known /\ inOrder
    <2>1. t \in r.transfer /\ r.transfer = {t}
      BY <1>3, TheElement DEF Addressed, ReceiverOK, Single
    <2>2. /\ t \in Transfers
          /\ f.payload \in Seq(Byte)
          /\ Len(t.bytes \o f.payload) = End(f)
      BY <1>3, <2>1 DEF ReceiverOK, Receivers, Transfers, Frames, Held, End
    <2> DEFINE longer == t.bytes \o f.payload
    <2>3. /\ longer \in Seq(Byte)
          /\ Len(longer) >= Len(t.bytes)
          /\ SubSeq(longer, 1, Len(t.bytes)) = t.bytes
      BY <2>2, ConcatKeepsPrefix DEF Transfers
    <2>4. /\ grown.id = t.id /\ grown.size = t.size /\ grown.crc = t.crc
          /\ grown.bytes = longer
          /\ grown \in Transfers
      BY <2>2, <2>3 DEF Transfers
    <2>5. ReceiverOK([r EXCEPT !.transfer = {grown}])
      BY <1>3, <2>2, <2>4, PutOK DEF Fits
    <2>6. End(f) \in Word
      BY <1>2, <1>3, <2>2, SizeAssumption DEF End, Frames, Word
    <2>7. OutcomeOK(r, f, answer, growing)
      BY <2>1, <2>3, <2>4, <2>5, <2>6
      DEF OutcomeOK, Outcome, Statuses, ReceiverOK, Receivers
    <2>8. ApplyData(r, f) = growing
      BY <1>2, <1>3 DEF ApplyData
    <2> QED BY <2>7, <2>8
  <1>4. CASE ~known
    <2>1. \/ ApplyData(r, f) = Outcome(r, "Invalid", 0)
          \/ ApplyData(r, f) = Outcome(r, "Sequence", 0)
      BY <1>2, <1>4 DEF ApplyData
    <2> QED BY <1>1, <2>1, KeptOK DEF Statuses
  <1>5. CASE known /\ ~inOrder
    <2>1. Held(r) \in Word
      BY <1>5, HeldWord DEF Addressed
    <2>2. \/ ApplyData(r, f) = Outcome(r, "Ok", Held(r))
          \/ ApplyData(r, f) = Outcome(r, "Sequence", Held(r))
      BY <1>2, <1>5 DEF ApplyData
    <2> QED BY <2>1, <2>2, KeptOK DEF Statuses
  <1> QED BY <1>3, <1>4, <1>5

LEMMA CommitOK ==
    ASSUME NEW r, ReceiverOK(r), NEW f \in Frames, NEW answer,
           AnswerOK(r, answer), f.op = "COMMIT"
    PROVE  OutcomeOK(r, f, answer, ApplyCommit(r, f, answer))
  <1> DEFINE t == The(r.transfer)
             malformed == f.payload # <<>> \/ f.value # 0
             o == ApplyCommit(r, f, answer)
  <1>1. 0 \in Word
    BY SizeAssumption DEF Word
  <1>2. CASE malformed
    BY <1>1, <1>2, KeptOK DEF Statuses, ApplyCommit
  <1>3. CASE ~malformed /\ Committed(r, f)
    <2>1. PICK c \in r.committed : c.id = f.id
      BY <1>3 DEF Committed
    <2>2. The(r.committed) = c
      BY <2>1, TheElement DEF ReceiverOK
    <2>3. c.count \in Word
      BY <2>1 DEF ReceiverOK, Receivers, Commits
    <2>4. o = Outcome(r, "Ok", c.count)
      BY <1>3, <2>2 DEF ApplyCommit
    <2> QED BY <2>1, <2>3, <2>4, KeptOK DEF Statuses
  <1>4. CASE ~malformed /\ ~Committed(r, f) /\ (Addressed(r, f) = {} \/ Held(r) # t.size)
    <2>1. Addressed(r, f) # {} => Held(r) \in Word
      BY HeldWord DEF Addressed
    <2>2. o = Outcome(r, "Sequence", IF Addressed(r, f) = {} THEN 0 ELSE Held(r))
      BY <1>4 DEF ApplyCommit
    <2> QED BY <1>1, <2>1, <2>2, KeptOK DEF Statuses
  <1>5. CASE ~malformed /\ ~Committed(r, f) /\ Addressed(r, f) # {} /\ Held(r) = t.size
    <2>1. t \in r.transfer
      BY <1>5, TheElement DEF Addressed, ReceiverOK
    <2>2. t.bytes \in Schedules
      BY <1>5, <2>1, ScheduleBytes DEF ReceiverOK, Receivers, Transfers, Held
    <2>3. answer.status \in Statuses /\ answer.count \in Word
      BY <2>1, <2>2 DEF AnswerOK
    <2>4. CASE Crc32(t.bytes) # t.crc
      <3>1. o = Outcome(Reset(r), "Checksum", 0)
        BY <1>5, <2>4 DEF ApplyCommit
      <3> QED BY <1>1, <3>1, EndedOK DEF Statuses
    <2>5. CASE Crc32(t.bytes) = t.crc /\ answer.status # "Ok"
      <3>1. o = Outcome(Reset(r), answer.status, 0)
        BY <1>5, <2>5 DEF ApplyCommit
      <3> QED BY <1>1, <2>3, <2>5, <3>1, EndedOK
    <2>6. CASE Crc32(t.bytes) = t.crc /\ answer.status = "Ok"
      <3> DEFINE c == [id |-> f.id, count |-> answer.count]
                 s == [id |-> f.id, bytes |-> t.bytes]
      <3>1. o = [receiver |-> [transfer |-> {}, committed |-> {c}],
                 status |-> "Ok", value |-> answer.count, saved |-> {s}]
        BY <1>5, <2>6 DEF ApplyCommit, AfterCommit, Outcome
      <3>2. c \in Commits
        BY <2>3 DEF Commits, Frames
      <3>3. ReceiverOK(o.receiver) /\ o.receiver.transfer = {}
        BY <3>1, <3>2 DEF ReceiverOK, Receivers, Single
      <3>4. \A d \in r.committed : d.id # f.id
        BY <1>5 DEF Committed
      <3>5. /\ o.receiver.committed = {c} /\ o.saved = {s}
            /\ o.status = "Ok" /\ o.value = answer.count
        BY <3>1
      <3> QED BY <2>1, <2>2, <2>3, <2>6, <3>3, <3>4, <3>5 DEF OutcomeOK, Statuses
    <2> QED BY <2>4, <2>5, <2>6
  <1> QED BY <1>2, <1>3, <1>4, <1>5

LEMMA AbortOK ==
    ASSUME NEW r, ReceiverOK(r), NEW f \in Frames, NEW answer, f.op = "ABORT"
    PROVE  OutcomeOK(r, f, answer, ApplyAbort(r, f))
  <1>1. 0 \in Word
    BY SizeAssumption DEF Word
  <1>2. \/ ApplyAbort(r, f) = Outcome(r, "Invalid", 0)
        \/ ApplyAbort(r, f) = Outcome(Reset(r), "Ok", 0)
        \/ ApplyAbort(r, f) = Outcome(r, "Ok", 0)
    BY DEF ApplyAbort
  <1> QED BY <1>1, <1>2, KeptOK, EndedOK DEF Statuses

LEMMA ApplyOK ==
    ASSUME NEW r, ReceiverOK(r), NEW f \in Frames, NEW answer,
           AnswerOK(r, answer), Decodes(f)
    PROVE  OutcomeOK(r, f, answer, Apply(r, f, answer))
  <1>1. f.op \in {"HELLO", "BEGIN", "DATA", "COMMIT", "ABORT"}
    BY DEF Decodes, Ops
  <1>2. CASE f.op = "HELLO"
    BY <1>2, HelloOK DEF Apply
  <1>3. CASE f.op = "BEGIN"
    BY <1>3, BeginOK DEF Apply
  <1>4. CASE f.op = "DATA"
    BY <1>4, DataOK DEF Apply
  <1>5. CASE f.op = "COMMIT"
    BY <1>5, CommitOK DEF Apply
  <1>6. CASE f.op = "ABORT"
    BY <1>6, AbortOK DEF Apply
  <1> QED BY <1>1, <1>2, <1>3, <1>4, <1>5, <1>6

-----------------------------------------------------------------------------
(* The invariant                                                           *)

\* A new answer r that confirms a commit, if it is one, keeps ConfirmedIsSaved
\* for the history h it is about.
Confirmed(r, h) ==
    r.op = "COMMIT" /\ r.status = "Ok" =>
        \E i \in DOMAIN h : h[i].id = r.id /\ CourseCount(h[i].bytes) = r.value

LEMMA ResponseOK ==
    ASSUME NEW f \in Frames, NEW status \in Statuses, NEW value \in Word
    PROVE  Response(f, status, value) \in Frames
  <1>1. <<>> \in Seq(Byte)
    OBVIOUS
  <1> QED BY <1>1 DEF Response, Frames

LEMMA FlushOK ==
    ASSUME EndpointInv, NEW r, ReceiverOK(r), NEW p \in SUBSET Frames,
           NEW d \in Deliveries, Flush(r, p, d)
    PROVE  /\ ReceiverOK(receiver')
           /\ receiver'.committed = r.committed
           /\ receiver'.transfer \in {r.transfer, {}}
           /\ reply' \in SUBSET Frames /\ sent' \in SUBSET Frames
           /\ reply' \cup sent' \subseteq p \cup sent
  BY ResetOK DEF Flush, EndpointInv, EndpointTypeOK

LEMMA ReceiverInv ==
    ASSUME EndpointInv
    PROVE  ReceiverOK(receiver)
  BY DEF EndpointInv, EndpointTypeOK, TransferFits, ReceiverOK

\* A step that saves nothing, and whose answers were already on their way.
LEMMA NoSaveOK ==
    ASSUME EndpointInv,
           ReceiverOK(receiver'), receiver'.committed \subseteq receiver.committed,
           reply' \in SUBSET Frames, sent' \in SUBSET Frames,
           \A r \in reply' \cup sent' : r \in reply \cup sent \/ Confirmed(r, saves),
           saves' = saves, file' \in {file, {}},
           up' \in BOOLEAN, dirty' \in BOOLEAN, clearing' \in BOOLEAN
    PROVE  EndpointInv'
  <1>1. EndpointTypeOK'
    BY DEF EndpointInv, EndpointTypeOK, ReceiverOK
  <1>2. TransferFits' /\ CachedIsLastSave'
    BY DEF EndpointInv, TransferFits, CachedIsLastSave, ReceiverOK
  <1>3. ConfirmedIsSaved'
    BY DEF EndpointInv, ConfirmedIsSaved, Confirmed
  <1>4. FileIsLastSave'
    BY DEF EndpointInv, FileIsLastSave
  <1> QED BY <1>1, <1>2, <1>3, <1>4 DEF EndpointInv

LEMMA CommitAnswer ==
    ASSUME EndpointInv, NEW io \in {"Ok", "Io"}
    PROVE  /\ AnswerOK(receiver, Commit(io))
           /\ \A t \in receiver.transfer :
                 Commit(io).status = "Ok" =>
                     ValidImport(t.bytes) /\ Commit(io).count = CourseCount(t.bytes)
  <1> SUFFICES ASSUME NEW t \in receiver.transfer
               PROVE  /\ t.bytes \in Schedules => /\ Commit(io).status \in Statuses
                                                 /\ Commit(io).count \in Word
                      /\ Commit(io).status = "Ok" =>
                            /\ ValidImport(t.bytes)
                            /\ Commit(io).count = CourseCount(t.bytes)
    BY DEF AnswerOK
  <1>1. The(receiver.transfer) = t
    BY TheElement, ReceiverInv DEF ReceiverOK
  <1> QED BY <1>1, CountAssumption, SizeAssumption DEF Commit, Statuses, Word

LEMMA OnMessageInv ==
    ASSUME EndpointInv, NEW f \in Frames, NEW io \in {"Ok", "Io"},
           NEW d \in Deliveries, OnMessage(f, io, d)
    PROVE  EndpointInv'
  <1> DEFINE o == Apply(receiver, f, Commit(io))
             answer == Response(f, o.status, o.value)
  <1>1. ReceiverOK(receiver)
    BY ReceiverInv
  <1>2. OutcomeOK(receiver, f, Commit(io), o)
    BY <1>1, ApplyOK, CommitAnswer DEF OnMessage, Handles
  <1>3. answer \in Frames
    BY <1>2, ResponseOK DEF OutcomeOK
  <1>4. /\ Flush(o.receiver, {answer}, d) /\ Keep(o.saved)
        /\ UNCHANGED <<up, clearing>>
    BY DEF OnMessage
  <1>5. /\ ReceiverOK(receiver')
        /\ receiver'.committed = o.receiver.committed
        /\ reply' \in SUBSET Frames /\ sent' \in SUBSET Frames
        /\ reply' \cup sent' \subseteq {answer} \cup sent
    <2>1. ReceiverOK(o.receiver)
      BY <1>2 DEF OutcomeOK
    <2> DEFINE q == o.receiver
    <2>2. ReceiverOK(q) /\ {answer} \in SUBSET Frames /\ Flush(q, {answer}, d)
      BY <2>1, <1>3, <1>4
    <2> HIDE DEF q, answer
    <2>3. /\ ReceiverOK(receiver') /\ receiver'.committed = q.committed
          /\ reply' \in SUBSET Frames /\ sent' \in SUBSET Frames
          /\ reply' \cup sent' \subseteq {answer} \cup sent
      BY <2>2, FlushOK
    <2> QED BY <2>3 DEF q
  <1>6. answer.op = f.op /\ answer.id = f.id /\ answer.status = o.status
        /\ answer.value = o.value
    BY DEF Response
  <1>7. up \in BOOLEAN /\ dirty \in BOOLEAN /\ clearing \in BOOLEAN
    BY DEF EndpointInv, EndpointTypeOK
  <1>8. CASE o.saved = {} /\ o.receiver.committed = receiver.committed
             /\ (f.op = "COMMIT" /\ o.status = "Ok" =>
                     \E c \in receiver.committed : c.id = f.id /\ c.count = o.value)
    <2>1. Confirmed(answer, saves)
      <3> SUFFICES ASSUME answer.op = "COMMIT", answer.status = "Ok"
                   PROVE  \E i \in DOMAIN saves :
                             /\ saves[i].id = answer.id
                             /\ CourseCount(saves[i].bytes) = answer.value
        BY DEF Confirmed
      <3>1. PICK c \in receiver.committed : c.id = f.id /\ c.count = o.value
        BY <1>6, <1>8
      <3>2. /\ saves \in Seq(Saves) /\ saves # <<>>
            /\ c.id = saves[Len(saves)].id
            /\ c.count = CourseCount(saves[Len(saves)].bytes)
        BY <3>1 DEF EndpointInv, EndpointTypeOK, CachedIsLastSave
      <3>3. Len(saves) \in DOMAIN saves
        BY <3>2
      <3> QED BY <1>6, <3>1, <3>2, <3>3
    <2>2. saves' = saves /\ file' = file /\ dirty' = dirty
      BY <1>4, <1>7, <1>8 DEF Keep
    <2>3. \A r \in reply' \cup sent' : r \in reply \cup sent \/ Confirmed(r, saves)
      BY <1>5, <2>1
    <2> QED BY <1>4, <1>5, <1>7, <1>8, <2>2, <2>3, NoSaveOK
  <1>9. CASE /\ Commit(io).status = "Ok"
             /\ o.receiver.committed = {[id |-> f.id, count |-> Commit(io).count]}
             /\ o.value = Commit(io).count
             /\ \E t \in receiver.transfer :
                   /\ t.bytes \in Schedules
                   /\ o.saved = {[id |-> f.id, bytes |-> t.bytes]}
    <2>1. PICK t \in receiver.transfer :
              t.bytes \in Schedules /\ o.saved = {[id |-> f.id, bytes |-> t.bytes]}
      BY <1>9
    <2> DEFINE s == [id |-> f.id, bytes |-> t.bytes]
    <2>2. ValidImport(t.bytes) /\ Commit(io).count = CourseCount(t.bytes)
      BY <1>9, <2>1, CommitAnswer
    <2>3. s \in Saves
      BY <2>1 DEF Saves, Frames
    <2>4. The({s}) = s
      BY TheElement DEF Single
    <2>5. saves' = Append(saves, s) /\ file' = {t.bytes} /\ dirty' = TRUE
      <3>1. Keep({s})
        BY <1>4, <2>1
      <3>2. {s} # {}
        OBVIOUS
      <3> HIDE DEF s
      <3>3. /\ saves' = Append(saves, s) /\ file' = {s.bytes}
            /\ dirty' = (dirty \/ TRUE)
        BY <3>1, <3>2, <2>4 DEF Keep
      <3>4. s.bytes = t.bytes
        BY DEF s
      <3>5. dirty' = TRUE
        BY <3>3
      <3> QED BY <3>3, <3>4, <3>5
    <2>6. saves \in Seq(Saves)
      BY DEF EndpointInv, EndpointTypeOK
    <2>7. /\ saves' \in Seq(Saves) /\ saves' # <<>>
          /\ Len(saves') = Len(saves) + 1
          /\ saves'[Len(saves')] = s
          /\ \A i \in DOMAIN saves : i \in DOMAIN saves' /\ saves'[i] = saves[i]
          /\ Len(saves') \in DOMAIN saves'
      BY <2>3, <2>5, <2>6
    <2>8. EndpointTypeOK'
      BY <1>4, <1>5, <1>7, <2>1, <2>5, <2>7 DEF EndpointTypeOK, ReceiverOK
    <2>9. TransferFits'
      <3>1. \A i \in DOMAIN saves' : i \in DOMAIN saves \/ i = Len(saves')
        BY <2>6, <2>7
      <3>2. \A i \in DOMAIN saves : ValidImport(saves[i].bytes)
        BY DEF EndpointInv, TransferFits
      <3>3. \A i \in DOMAIN saves' : ValidImport(saves'[i].bytes)
        BY <2>2, <2>7, <3>1, <3>2
      <3> QED BY <1>5, <3>3 DEF TransferFits, ReceiverOK
    <2>10. CachedIsLastSave'
      BY <1>5, <1>9, <2>2, <2>7 DEF CachedIsLastSave
    <2>11. ConfirmedIsSaved'
      <3> SUFFICES ASSUME NEW r \in reply' \cup sent',
                          r.op = "COMMIT", r.status = "Ok"
                   PROVE  \E i \in DOMAIN saves' :
                             /\ saves'[i].id = r.id
                             /\ CourseCount(saves'[i].bytes) = r.value
        BY DEF ConfirmedIsSaved
      <3>1. CASE r = answer
        BY <1>6, <1>9, <2>2, <2>7, <3>1
      <3>2. CASE r \in sent
        <4>1. PICK i \in DOMAIN saves : saves[i].id = r.id
                                        /\ CourseCount(saves[i].bytes) = r.value
          BY <3>2 DEF EndpointInv, ConfirmedIsSaved
        <4> QED BY <2>7, <4>1
      <3> QED BY <1>5, <3>1, <3>2
    <2>12. FileIsLastSave'
      BY <2>5, <2>7 DEF FileIsLastSave
    <2> QED BY <2>8, <2>9, <2>10, <2>11, <2>12 DEF EndpointInv
  <1> QED BY <1>2, <1>8, <1>9 DEF OutcomeOK

LEMMA InitInv == EndpointInit => EndpointInv
  <1> SUFFICES ASSUME EndpointInit PROVE EndpointInv
    OBVIOUS
  <1>1. /\ receiver.transfer = {} /\ receiver.committed = {}
        /\ receiver \in Receivers
    BY DEF EndpointInit, ReceiverDefault, Receivers
  <1>2. saves = <<>> /\ saves \in Seq(Saves) /\ DOMAIN saves = {}
    BY DEF EndpointInit
  <1>3. EndpointTypeOK
    BY <1>1, <1>2 DEF EndpointInit, EndpointTypeOK, Single
  <1>4. TransferFits /\ CachedIsLastSave
    BY <1>1, <1>2 DEF TransferFits, CachedIsLastSave
  <1>5. ConfirmedIsSaved /\ FileIsLastSave
    BY DEF EndpointInit, ConfirmedIsSaved, FileIsLastSave
  <1> QED BY <1>3, <1>4, <1>5 DEF EndpointInv

\* Losing the receiver's state, in a restart of the module or the wristband.
LEMMA RestartInv ==
    ASSUME EndpointInv, Start \/ Reboot
    PROVE  EndpointInv'
  <1>1. ReceiverOK(ReceiverDefault)
    BY DEF ReceiverOK, ReceiverDefault, Receivers, Single
  <1>2. /\ receiver' = ReceiverDefault /\ reply' = {} /\ sent' = sent
        /\ saves' = saves /\ file' = file /\ up' \in BOOLEAN
        /\ dirty' \in BOOLEAN /\ clearing' \in BOOLEAN
    BY DEF Start, Reboot, EndpointInv, EndpointTypeOK
  <1>3. /\ receiver'.committed \subseteq receiver.committed
        /\ reply' \in SUBSET Frames /\ sent' \in SUBSET Frames
    BY <1>2 DEF ReceiverDefault, EndpointInv, EndpointTypeOK
  <1> QED BY <1>1, <1>2, <1>3, NoSaveOK

LEMMA TickInv ==
    ASSUME EndpointInv, NEW idle \in BOOLEAN, NEW d \in Deliveries, Tick(idle, d)
    PROVE  EndpointInv'
  <1>1. PICK r \in {receiver, Reset(receiver)}, p \in {reply, {}} : Flush(r, p, d)
    BY DEF Tick
  <1>2. ReceiverOK(r) /\ r.committed = receiver.committed
    BY ReceiverInv, ResetOK
  <1>3. p \in SUBSET Frames
    BY DEF EndpointInv, EndpointTypeOK
  <1>4. /\ ReceiverOK(receiver') /\ receiver'.committed = receiver.committed
        /\ reply' \in SUBSET Frames /\ sent' \in SUBSET Frames
        /\ reply' \cup sent' \subseteq reply \cup sent
    BY <1>1, <1>2, <1>3, FlushOK
  <1>5. /\ saves' = saves /\ file' = file
        /\ up' \in BOOLEAN /\ dirty' \in BOOLEAN /\ clearing' \in BOOLEAN
    BY DEF Tick, EndpointInv, EndpointTypeOK
  <1> QED BY <1>4, <1>5, NoSaveOK

LEMMA AbortInv ==
    ASSUME EndpointInv, Abort
    PROVE  EndpointInv'
  <1>1. ReceiverOK(receiver') /\ receiver'.committed = receiver.committed
    BY ReceiverInv, ResetOK DEF Abort
  <1>2. /\ reply' = {} /\ sent' = sent /\ saves' = saves /\ file' = file
        /\ up' \in BOOLEAN /\ dirty' \in BOOLEAN /\ clearing' \in BOOLEAN
        /\ sent \in SUBSET Frames
    BY DEF Abort, EndpointInv, EndpointTypeOK
  <1> QED BY <1>1, <1>2, NoSaveOK

LEMMA ClearScheduleInv ==
    ASSUME EndpointInv, ClearSchedule
    PROVE  EndpointInv'
  <1>1. /\ receiver' = receiver /\ reply' = reply /\ sent' = sent
        /\ saves' = saves /\ file' \in {file, {}}
        /\ up' \in BOOLEAN /\ dirty' \in BOOLEAN /\ clearing' \in BOOLEAN
        /\ reply \in SUBSET Frames /\ sent \in SUBSET Frames
    BY DEF ClearSchedule, EndpointInv, EndpointTypeOK
  <1> QED BY <1>1, ReceiverInv, NoSaveOK

LEMMA ArriveInv ==
    ASSUME EndpointInv, NEW r \in sent, Arrive(r)
    PROVE  EndpointInv'
  <1>1. /\ receiver' = receiver /\ reply' = reply /\ sent' = sent \ {r}
        /\ saves' = saves /\ file' = file
        /\ up' \in BOOLEAN /\ dirty' \in BOOLEAN /\ clearing' \in BOOLEAN
        /\ reply \in SUBSET Frames /\ sent \in SUBSET Frames
    BY DEF Arrive, EndpointInv, EndpointTypeOK
  <1> QED BY <1>1, ReceiverInv, NoSaveOK

LEMMA StutterInv ==
    ASSUME EndpointInv, UNCHANGED endpointVars
    PROVE  EndpointInv'
  BY DEF endpointVars, EndpointInv, EndpointTypeOK, TransferFits,
         CachedIsLastSave, ConfirmedIsSaved, FileIsLastSave

\* What the Endpoint promises holds of every run: whatever frames reach it, in
\* whatever order and however often, and whatever is lost, restarted or cleared
\* on the way (connect.rs Endpoint, Receiver::apply).
THEOREM EndpointInvariant == EndpointSpec => []EndpointInv
  <1>1. EndpointInit => EndpointInv
    BY InitInv
  <1>2. EndpointInv /\ [EndpointNext]_endpointVars => EndpointInv'
    <2> SUFFICES ASSUME EndpointInv, [EndpointNext]_endpointVars
                 PROVE  EndpointInv'
      OBVIOUS
    <2>1. CASE Start \/ Reboot
      BY <2>1, RestartInv
    <2>2. ASSUME NEW f \in Inputs, NEW d \in Deliveries,
                 NEW io \in {"Ok", "Io"}, OnMessage(f, io, d)
          PROVE  EndpointInv'
      BY <2>2, InputAssumption, OnMessageInv
    <2>3. ASSUME NEW idle \in BOOLEAN, NEW d \in Deliveries, Tick(idle, d)
          PROVE  EndpointInv'
      BY <2>3, TickInv
    <2>4. CASE Abort
      BY <2>4, AbortInv
    <2>5. CASE ClearSchedule
      BY <2>5, ClearScheduleInv
    <2>6. ASSUME NEW r \in sent, Arrive(r)
          PROVE  EndpointInv'
      BY <2>6, ArriveInv
    <2>7. CASE UNCHANGED endpointVars
      BY <2>7, StutterInv
    <2> QED BY <2>1, <2>2, <2>3, <2>4, <2>5, <2>6, <2>7 DEF EndpointNext
  <1> QED BY <1>1, <1>2, PTL DEF EndpointSpec

\* Type correctness, from the invariant.
COROLLARY EndpointTypes == EndpointSpec => []EndpointTypeOK
  <1>1. EndpointInv => EndpointTypeOK
    BY DEF EndpointInv
  <1> QED BY <1>1, EndpointInvariant, PTL

\* Every confirmation of a COMMIT, sent or unsent, stands for a commit that
\* happened under its id (connect.rs on_message).
COROLLARY ConfirmationIsSound == EndpointSpec => []ConfirmedIsSaved
  <1>1. EndpointInv => ConfirmedIsSaved
    BY DEF EndpointInv
  <1> QED BY <1>1, EndpointInvariant, PTL

\* The file is what the last commit saved, or is gone (storage.rs).
COROLLARY FileIsSound == EndpointSpec => []FileIsLastSave
  <1>1. EndpointInv => FileIsLastSave
    BY DEF EndpointInv
  <1> QED BY <1>1, EndpointInvariant, PTL

-----------------------------------------------------------------------------
(* What a step may never do                                                *)

\* What on_message hands to flush and keep.
LEMMA MessageOutcome ==
    ASSUME EndpointInv, NEW f \in Frames, NEW io \in {"Ok", "Io"},
           NEW d \in Deliveries, OnMessage(f, io, d)
    PROVE  \E o : /\ OutcomeOK(receiver, f, Commit(io), o)
                  /\ receiver' \in {o.receiver, Reset(o.receiver)}
                  /\ Keep(o.saved)
  <1> DEFINE o == Apply(receiver, f, Commit(io))
  <1>1. OutcomeOK(receiver, f, Commit(io), o)
    BY ReceiverInv, ApplyOK, CommitAnswer DEF OnMessage, Handles
  <1>2. receiver' \in {o.receiver, Reset(o.receiver)} /\ Keep(o.saved)
    BY DEF OnMessage, Flush
  <1> QED BY <1>1, <1>2

\* The two facts about a step that the action properties state.
StepOK ==
    /\ saves' # saves =>
          \A c \in receiver.committed : c.id # saves'[Len(saves')].id
    /\ \A t \in receiver.transfer, u \in receiver'.transfer :
          /\ u.id = t.id /\ u.size = t.size /\ u.crc = t.crc
          /\ Len(u.bytes) >= Len(t.bytes)
          /\ SubSeq(u.bytes, 1, Len(t.bytes)) = t.bytes

LEMMA QuietStepOK ==
    ASSUME EndpointInv, saves' = saves,
           receiver'.transfer \in {receiver.transfer, {}}
    PROVE  StepOK
  BY ReceiverInv, SameTransfer DEF StepOK

LEMMA MessageStepOK ==
    ASSUME EndpointInv, NEW f \in Frames, NEW io \in {"Ok", "Io"},
           NEW d \in Deliveries, OnMessage(f, io, d)
    PROVE  StepOK
  <1>1. PICK o : /\ OutcomeOK(receiver, f, Commit(io), o)
                 /\ receiver' \in {o.receiver, Reset(o.receiver)}
                 /\ Keep(o.saved)
    BY MessageOutcome
  <1>2. receiver'.transfer \in {o.receiver.transfer, {}}
    BY <1>1, ResetOK DEF OutcomeOK
  <1>3. \A t \in receiver.transfer, u \in receiver'.transfer :
           /\ u.id = t.id /\ u.size = t.size /\ u.crc = t.crc
           /\ Len(u.bytes) >= Len(t.bytes)
           /\ SubSeq(u.bytes, 1, Len(t.bytes)) = t.bytes
    BY <1>1, <1>2 DEF OutcomeOK
  <1>4. ASSUME saves' # saves
        PROVE  \A c \in receiver.committed : c.id # saves'[Len(saves')].id
    <2>1. o.saved # {} /\ saves' = Append(saves, The(o.saved))
      BY <1>1, <1>4 DEF Keep
    <2>2. /\ \A c \in receiver.committed : c.id # f.id
          /\ \E t \in receiver.transfer :
                /\ t.bytes \in Schedules
                /\ o.saved = {[id |-> f.id, bytes |-> t.bytes]}
      BY <1>1, <2>1 DEF OutcomeOK
    <2>3. PICK t \in receiver.transfer :
              /\ t.bytes \in Schedules
              /\ o.saved = {[id |-> f.id, bytes |-> t.bytes]}
      BY <2>2
    <2> DEFINE s == [id |-> f.id, bytes |-> t.bytes]
    <2>4. The({s}) = s /\ s.id = f.id
      BY TheElement DEF Single
    <2>5. s \in Saves /\ saves \in Seq(Saves)
      BY <2>3 DEF Saves, Frames, EndpointInv, EndpointTypeOK
    <2>6. saves' = Append(saves, s)
      BY <2>1, <2>3, <2>4
    <2> HIDE DEF s
    <2>7. saves'[Len(saves')] = s
      BY <2>5, <2>6
    <2> QED BY <2>2, <2>4, <2>7
  <1> QED BY <1>3, <1>4 DEF StepOK

LEMMA NextStepOK ==
    ASSUME EndpointInv, [EndpointNext]_endpointVars
    PROVE  StepOK
  <1>0. Reset(receiver).transfer = {} /\ ReceiverDefault.transfer = {}
    BY ReceiverInv, ResetOK DEF ReceiverDefault
  <1>1. CASE Start \/ Reboot \/ Abort \/ ClearSchedule \/ UNCHANGED endpointVars
    <2>1. saves' = saves /\ receiver'.transfer \in {receiver.transfer, {}}
      BY <1>0, <1>1 DEF Start, Reboot, Abort, ClearSchedule, endpointVars
    <2> QED BY <2>1, QuietStepOK
  <1>2. ASSUME NEW f \in Inputs, NEW d \in Deliveries,
               NEW io \in {"Ok", "Io"}, OnMessage(f, io, d)
        PROVE  StepOK
    BY <1>2, InputAssumption, MessageStepOK
  <1>3. ASSUME NEW idle \in BOOLEAN, NEW d \in Deliveries, Tick(idle, d)
        PROVE  StepOK
    <2>1. Reset(Reset(receiver)).transfer = {}
      BY ReceiverInv, ResetOK
    <2>2. saves' = saves /\ receiver'.transfer \in {receiver.transfer, {}}
      BY <1>0, <1>3, <2>1 DEF Tick, Flush
    <2> QED BY <2>2, QuietStepOK
  <1>4. ASSUME NEW r \in sent, Arrive(r)
        PROVE  StepOK
    <2>1. saves' = saves /\ receiver'.transfer \in {receiver.transfer, {}}
      BY <1>4 DEF Arrive
    <2> QED BY <2>1, QuietStepOK
  <1> QED BY <1>1, <1>2, <1>3, <1>4 DEF EndpointNext

\* A COMMIT for the transaction whose result is cached is answered from the
\* cache and never saved again (Receiver::apply, Op::Commit).
THEOREM NoDoubleCommit == EndpointSpec => LastIdNotSavedAgain
  <1>1. EndpointInv /\ [EndpointNext]_endpointVars =>
            [saves' # saves =>
                \A c \in receiver.committed :
                   c.id # saves'[Len(saves')].id]_endpointVars
    BY NextStepOK DEF StepOK
  <1> QED BY <1>1, EndpointInvariant, PTL DEF EndpointSpec, LastIdNotSavedAgain

\* A transfer the wristband holds is never exchanged for another nor shortened:
\* it grows by whole chunks until it ends (Receiver::apply, Op::Begin, Op::Data).
THEOREM TransfersOnlyGrow == EndpointSpec => TransferOnlyGrows
  <1>1. EndpointInv /\ [EndpointNext]_endpointVars =>
            [\A t \in receiver.transfer, u \in receiver'.transfer :
                /\ u.id = t.id /\ u.size = t.size /\ u.crc = t.crc
                /\ Len(u.bytes) >= Len(t.bytes)
                /\ SubSeq(u.bytes, 1, Len(t.bytes)) = t.bytes]_endpointVars
    BY NextStepOK DEF StepOK
  <1> QED BY <1>1, EndpointInvariant, PTL DEF EndpointSpec, TransferOnlyGrows
=============================================================================
