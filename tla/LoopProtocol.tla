---------------------------- MODULE LoopProtocol ----------------------------
(***************************************************************************)
(* crates/loop-protocol: the LPC1 frames, the Receiver that runs on the    *)
(* wristband and the Sender that runs in the phone plugin, as operators on *)
(* their state.  The byte layout of a frame is abstracted to a record; the *)
(* schedule is a sequence of bytes that keeps its length, because offsets, *)
(* chunk ends and sizes decide every branch of the protocol.               *)
(***************************************************************************)
EXTENDS Integers, Sequences

CONSTANTS
    Byte,            \* the values of a schedule's bytes
    ChunkMax,        \* CHUNK_MAX: most payload bytes of a DATA frame
    ScheduleMax,     \* SCHEDULE_MAX: most bytes of a schedule
    MaxWord,         \* largest u32 (also usize on the wristband)
    Crc32(_)         \* the checksum's four bytes; schedules may share one

Word == 0..MaxWord
Ids == 1..MaxWord
Schedules == UNION {[1..n -> Byte] : n \in 1..ScheduleMax}

ASSUME ChunkAssumption == ChunkMax \in Nat \ {0}
ASSUME SizeAssumption == /\ ScheduleMax \in Nat \ {0}
                         /\ MaxWord \in Nat
                         /\ ScheduleMax <= MaxWord
ASSUME CrcAssumption == \A b \in Schedules : Crc32(b) \in [1..4 -> Byte]

\* An Option is a set of at most one element.
Single(S) == \A x, y \in S : x = y
The(S) == CHOOSE x \in S : TRUE

-----------------------------------------------------------------------------
(* Frames                                                                  *)

Ops == {"HELLO", "BEGIN", "DATA", "COMMIT", "ABORT"}
Statuses == {"Ok", "Invalid", "TooLarge", "Sequence", "Checksum", "Schedule",
             "Io", "Busy"}

\* A frame Frame::decode refuses (length, magic, reserved bytes, unknown op or
\* status) has the op "JUNK".  copy tells two transmissions of one frame apart:
\* no code reads it; an answer carries the copy it answers.
Frames == [op : Ops \cup {"JUNK"}, reply : BOOLEAN, status : Statuses,
           id : Word, value : Word, payload : Seq(Byte), copy : Nat]

Decodes(f) == f.op \in Ops

Request(op, id, value, payload) ==
    [op |-> op, reply |-> FALSE, status |-> "Ok", id |-> id, value |-> value,
     payload |-> payload, copy |-> 0]

Response(f, status, value) ==
    [op |-> f.op, reply |-> TRUE, status |-> status, id |-> f.id,
     value |-> value, payload |-> <<>>, copy |-> f.copy]

-----------------------------------------------------------------------------
(* Receiver                                                                *)

Transfers == [id : Ids, size : 1..ScheduleMax, crc : Seq(Byte), bytes : Seq(Byte)]
Commits == [id : Word, count : Word]
Receivers == [transfer : SUBSET Transfers, committed : SUBSET Commits]
ReceiverDefault == [transfer |-> {}, committed |-> {}]

Reset(r) == [r EXCEPT !.transfer = {}]

\* Mutants, like the others marked so below: the operator that follows, as a
\* plausible mistake would have written it.  No definition uses them.
AnyAddressed(r, f) == r.transfer
\* The transfer f addresses, if there is one.
Addressed(r, f) == {t \in r.transfer : t.id = f.id}

\* The bytes the active transfer holds.
Held(r) == Len(The(r.transfer).bytes)

\* Mutant: the cache holds the answer to no commit.
NeverCommitted(r, f) == FALSE
\* Is the answer to f's commit cached?
Committed(r, f) == \E c \in r.committed : c.id = f.id

\* What apply leaves behind: the receiver, the status and value of the answer,
\* and what the commit callback made durable.
Outcome(r, status, value) ==
    [receiver |-> r, status |-> status, value |-> value, saved |-> {}]

ApplyHello(r, f) ==
    IF f.payload = <<>> /\ f.value = 0
    THEN Outcome(r, "Ok", ScheduleMax)
    ELSE Outcome(r, "Invalid", 0)

Oversize(f) == f.value \notin 1..ScheduleMax

\* Mutant: a repeated BEGIN is recognised once there is data.
ResumedBegin(r, f) ==
    \E t \in Addressed(r, f) : t.size = f.value /\ t.crc = f.payload /\ t.bytes # <<>>
RepeatedBegin(r, f) == \E t \in Addressed(r, f) : t.size = f.value /\ t.crc = f.payload

\* Mutant: a BEGIN of the active transfer opens it anew.
Reopens(r, f) == ~Committed(r, f)
Opens(r, f) == r.transfer = {} /\ ~Committed(r, f)

ApplyBegin(r, f) ==
    LET opened == [id |-> f.id, size |-> f.value, crc |-> f.payload, bytes |-> <<>>]
    IN  IF Len(f.payload) # 4 \/ f.id = 0 THEN Outcome(r, "Invalid", 0)
        ELSE IF Oversize(f) THEN Outcome(r, "TooLarge", 0)
        ELSE IF \E t \in r.transfer : t.id # f.id THEN Outcome(r, "Busy", 0)
        ELSE IF RepeatedBegin(r, f) THEN Outcome(r, "Ok", Held(r))
        ELSE IF Opens(r, f) THEN Outcome([r EXCEPT !.transfer = {opened}], "Ok", 0)
        ELSE Outcome(r, "Sequence", 0)

End(f) == f.value + Len(f.payload)

\* Mutant: only the start of the chunk is compared with the size.
StartFits(r, f) == f.value < The(r.transfer).size
Fits(r, f) == End(f) <= The(r.transfer).size

\* Mutant: off by one, the newest chunk is no repetition.
OlderChunk(r, f) ==
    End(f) < Held(r) /\ SubSeq(The(r.transfer).bytes, f.value + 1, End(f)) = f.payload
RepeatedChunk(r, f) ==
    /\ f.value < Held(r) /\ End(f) <= Held(r)
    /\ SubSeq(The(r.transfer).bytes, f.value + 1, End(f)) = f.payload

ApplyData(r, f) ==
    LET grown == [The(r.transfer) EXCEPT !.bytes = @ \o f.payload]
    IN  IF f.payload = <<>> THEN Outcome(r, "Invalid", 0)
        ELSE IF Addressed(r, f) = {} \/ End(f) > MaxWord THEN Outcome(r, "Sequence", 0)
        ELSE IF Fits(r, f) /\ f.value = Held(r)
        THEN Outcome([r EXCEPT !.transfer = {grown}], "Ok", End(f))
        ELSE IF Fits(r, f) /\ RepeatedChunk(r, f) THEN Outcome(r, "Ok", Held(r))
        ELSE Outcome(r, "Sequence", Held(r))

\* Mutant: a commit leaves no trace.
CommitForgotten(r, f, count) == r
\* The receiver once the transfer f addresses is committed.
AfterCommit(r, f, count) ==
    [transfer |-> {}, committed |-> {[id |-> f.id, count |-> count]}]

\* answer is what the commit callback returns, should it be called: a status and,
\* with "Ok", the number of courses saved.
ApplyCommit(r, f, answer) ==
    LET t == The(r.transfer)
    IN  IF f.payload # <<>> \/ f.value # 0 THEN Outcome(r, "Invalid", 0)
        ELSE IF Committed(r, f) THEN Outcome(r, "Ok", The(r.committed).count)
        ELSE IF Addressed(r, f) = {} THEN Outcome(r, "Sequence", 0)
        ELSE IF Held(r) # t.size THEN Outcome(r, "Sequence", Held(r))
        ELSE IF Crc32(t.bytes) # t.crc THEN Outcome(Reset(r), "Checksum", 0)
        ELSE IF answer.status # "Ok" THEN Outcome(Reset(r), answer.status, 0)
        ELSE [Outcome(AfterCommit(r, f, answer.count), "Ok", answer.count) EXCEPT
                !.saved = {[id |-> f.id, bytes |-> t.bytes]}]

ApplyAbort(r, f) ==
    IF f.payload # <<>> \/ f.value # 0 THEN Outcome(r, "Invalid", 0)
    ELSE IF Addressed(r, f) # {} THEN Outcome(Reset(r), "Ok", 0)
    ELSE Outcome(r, "Ok", 0)

Apply(r, f, answer) ==
    CASE f.op = "HELLO" -> ApplyHello(r, f)
      [] f.op = "BEGIN" -> ApplyBegin(r, f)
      [] f.op = "DATA" -> ApplyData(r, f)
      [] f.op = "COMMIT" -> ApplyCommit(r, f, answer)
      [] f.op = "ABORT" -> ApplyAbort(r, f)

\* handle answers nothing to a frame that is no request.
Handles(f) == Decodes(f) /\ ~f.reply /\ f.status = "Ok"

-----------------------------------------------------------------------------
(* Sender                                                                  *)

NewSender(id, bytes) ==
    [id |-> id, bytes |-> bytes, current |-> Request("HELLO", id, 0, <<>>),
     offset |-> 0, sentEnd |-> 0]

Smaller(a, b) == IF a < b THEN a ELSE b

NextData(s) ==
    LET end == Smaller(s.offset + ChunkMax, Len(s.bytes))
    IN  IF s.offset = Len(s.bytes)
        THEN [s EXCEPT !.current = Request("COMMIT", s.id, 0, <<>>)]
        ELSE [s EXCEPT !.sentEnd = end,
                       !.current = Request("DATA", s.id, s.offset,
                                           SubSeq(s.bytes, s.offset + 1, end))]

\* Mutant: the answer's id is not compared.
IgnoredOfAnyId(s, f) ==
    \/ ~Decodes(f) \/ ~f.reply \/ f.op # s.current.op
    \/ f.op = "DATA" /\ f.status = "Ok" /\ f.payload = <<>> /\ f.value <= s.offset
\* on_reply ignores what does not answer the current frame, and the
\* acknowledgement of a chunk that was acknowledged already.
Ignored(s, f) ==
    \/ ~Decodes(f) \/ ~f.reply \/ f.id # s.id \/ f.op # s.current.op
    \/ /\ f.op = "DATA" /\ f.status = "Ok" /\ f.payload = <<>>
       /\ f.value <= s.offset

\* Mutant: the status is not looked at.
ReplyErrorOfPayload(s, f) == IF f.payload # <<>> THEN "Invalid" ELSE "Ok"
\* The error on_reply returns for a frame it does not ignore; "Ok" if none.
ReplyError(s, f) ==
    IF f.status # "Ok" THEN f.status
    ELSE IF f.payload # <<>> THEN "Invalid"
    ELSE CASE f.op = "HELLO" /\ Len(s.bytes) > f.value -> "TooLarge"
           [] f.op = "BEGIN" /\ f.value > Len(s.bytes) -> "Sequence"
           [] f.op = "DATA" /\ f.value # s.sentEnd -> "Sequence"
           [] f.op = "ABORT" -> "Invalid"
           [] OTHER -> "Ok"

\* The sender after Progress::Send.
Advance(s, f) ==
    CASE f.op = "HELLO" ->
           [s EXCEPT !.current = Request("BEGIN", s.id, Len(s.bytes),
                                         Crc32(s.bytes))]
      [] f.op = "BEGIN" -> NextData([s EXCEPT !.offset = f.value])
      [] f.op = "DATA" -> NextData([s EXCEPT !.offset = s.sentEnd])
=============================================================================
