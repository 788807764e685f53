----------------------------- MODULE MCEndpoint -----------------------------
(* The Endpoint alone, fed any frame of a small set in any order.          *)
EXTENDS Endpoint

MCByte == {0, 1}
\* A weak checksum, so that it cannot stand in for the order of the frames.
MCCrc32(b) == <<b[1], 0, 0, 0>>
MCValidImport(b) == b # <<0, 0>>
MCCourseCount(b) == b[Len(b)]

\* Id 1 sends whatever it likes, to an offset whose end is no word, too; id 2
\* sends the schedule <<1, 1>>.
MCInputs ==
    {Request(op, 1, 0, p) : op \in {"HELLO", "JUNK"}, p \in {<<>>, <<0>>}}
    \cup {Request("BEGIN", 1, n, <<c, 0, 0, 0>>) : n \in {0, 2}, c \in MCByte}
    \cup {Request("BEGIN", id, 2, <<1, 0, 0, 0>>) : id \in {0, 2}}
    \cup {Request("DATA", 1, v, p) : v \in 0..MaxWord, p \in {<<0>>, <<1>>}}
    \cup {Request("DATA", 1, 0, <<>>)}
    \cup {Request("DATA", 1, v, <<0, 1>>) : v \in 0..1}
    \cup {Request("DATA", 2, v, <<1>>) : v \in 0..1}
    \cup {Request(op, id, 0, <<>>) : op \in {"COMMIT", "ABORT"}, id \in 1..2}
    \cup {Request(op, 1, 1, <<>>) : op \in {"COMMIT", "ABORT"}}
    \cup {[Request("COMMIT", 1, 0, <<>>) EXCEPT !.reply = TRUE]}
=============================================================================
